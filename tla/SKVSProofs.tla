----------------------------- MODULE SKVSProofs -----------------------------
(***************************************************************************)
(* Proofs about the key-value store.  First skvs_serve, for every finite   *)
(* set of workers that call it, all keys and values, every line and all    *)
(* limits on the lengths of both.  Then the server, for every number of    *)
(* workers and of buckets, every set of clients and all sizes of the       *)
(* buffer, the backlog, the requests and the sockets.                      *)
(***************************************************************************)
EXTENDS SKVSLib, SKVSServer, FiniteSetTheorems, TLAPS

-----------------------------------------------------------------------------
(* The parser against the grammar                                          *)

Token == [text : STRING, len : Nat \ {0}]

LEMMA InSequence ==
  ASSUME NEW T, NEW s \in Seq(T), NEW i \in 1 .. Len(s)
  PROVE  s[i] \in T
  OBVIOUS

LEMMA BufferType ==
  ASSUME NEW b \in Buffers
  PROVE  b.len \in Nat /\ b.lf \in BOOLEAN /\ b.tokens \in Seq(Token)
<1>1. b \in [len : Nat, lf : BOOLEAN, tokens : Seq(Token)]
  BY LinesKnown DEF Token
<1> QED BY <1>1

\* strtok_r returns NULL exactly behind the last token.
LEMMA TokenThere ==
  ASSUME NEW b \in Buffers, NEW i \in Nat \ {0}
  PROVE  /\ b.len \in Nat /\ b.lf \in BOOLEAN /\ Len(b.tokens) \in Nat
         /\ Tok(b, i) = None <=> Len(b.tokens) < i
         /\ i <= Len(b.tokens) => Tok(b, i) = b.tokens[i] /\ Tok(b, i).len \in Nat
<1> DEFINE s == b.tokens
<1>2. b.len \in Nat /\ b.lf \in BOOLEAN /\ s \in Seq(Token)
  BY BufferType
<1>3. Tok(b, i) = IF i <= Len(s) THEN s[i] ELSE None
  BY DEF Tok
<1> HIDE DEF s
<1>4. Len(s) \in Nat
  BY <1>2
<1>5. ASSUME i <= Len(s) PROVE s[i].len \in Nat \ {0}
  <2>1. i \in 1 .. Len(s)
    BY <1>4, <1>5
  <2>2. s[i] \in Token
    BY <1>2, <2>1, InSequence
  <2> QED BY <2>2 DEF Token
<1>6. None.len = 0
  BY DEF None
<1>7. i <= Len(s) => Tok(b, i) = s[i] /\ s[i] # None /\ Tok(b, i).len \in Nat
  BY <1>3, <1>5, <1>6
<1>8. Tok(b, i) = None <=> Len(s) < i
  BY <1>3, <1>4, <1>7
<1> QED BY <1>2, <1>4, <1>7, <1>8 DEF s

Command(p) == p \in Parsed /\ (p.cmd \in WithValue => p.value \in ValueTokens)

\* A line is a command exactly if it has the form of one, and has its tokens.
LEMMA ParseLineExact ==
  ASSUME NEW b \in Buffers, b.lf, b.len <= BUF_SIZE
  PROVE  /\ ParseLine(b) # IncompleteCmd
         /\ ParseLine(b) # Invalid <=> WellFormed(b)
         /\ WellFormed(b) => /\ Command(ParseLine(b))
                             /\ ParseLine(b).key = b.tokens[2]
<1> DEFINE n == Len(b.tokens)
           c == toupper(Tok(b, 1).text)
           p == [cmd |-> c, key |-> Tok(b, 2), value |-> Tok(b, 3)]
           Form == /\ c \in Cmds /\ n = (IF c \in WithValue THEN 3 ELSE 2)
                   /\ Tok(b, 2).len <= MAX_KEY_LEN
<1>1. /\ n \in Nat
      /\ Tok(b, 2) = None <=> n < 2
      /\ Tok(b, 3) = None <=> n < 3
      /\ Tok(b, 4) = None <=> n < 4
      /\ n >= 1 => Tok(b, 1) = b.tokens[1]
      /\ n >= 2 => Tok(b, 2) = b.tokens[2]
      /\ n >= 3 => Tok(b, 3) = b.tokens[3]
  BY TokenThere
<1>2. n >= 2 => Tok(b, 2).len \in Nat
  BY TokenThere
<1>3. WellFormed(b) <=> Form
  <2>1. WellFormed(b) <=>
          \E d \in Cmds : /\ n = (IF d \in {"CREATE", "UPDATE"} THEN 3 ELSE 2)
                          /\ toupper(b.tokens[1].text) = d
                          /\ b.tokens[2].len <= MAX_KEY_LEN
    BY DEF WellFormed
  <2>2. n >= 2 => toupper(b.tokens[1].text) = c
    BY <1>1
  <2> HIDE DEF c, n
  <2> QED BY <1>1, <2>1, <2>2 DEF WithValue
<1>4. ParseLine(b) = IF Form THEN p ELSE Invalid
  <2>1. ParseLine(b) = IF \/ c \notin Cmds
                          \/ Tok(b, 2) = None
                          \/ Tok(b, 2).len > MAX_KEY_LEN
                          \/ c \notin WithValue /\ Tok(b, 3) # None
                          \/ c \in WithValue /\ Tok(b, 3) = None
                          \/ Tok(b, 4) # None
                       THEN Invalid ELSE p
    BY DEF ParseLine
  <2> HIDE DEF c, p
  <2> QED BY <2>1, <1>1, <1>2, LengthsOK
<1>5. ASSUME Form
      PROVE  Command(p)
  <2>1. /\ n \in {2, 3} /\ b.tokens[2].len <= MAX_KEY_LEN => b.tokens[2] \in KeyTokens
        /\ n = 3 => b.tokens[3] \in ValueTokens
    BY LinesKnown
  <2>2. n \in {2, 3} /\ (c \in WithValue => n = 3)
    BY <1>5
  <2> HIDE DEF n
  <2>3. Tok(b, 2) \in KeyTokens
    BY <1>1, <1>5, <2>1, <2>2
  <2>4. Tok(b, 3) \in ValueTokens \cup {None} /\ (n = 3 => Tok(b, 3) \in ValueTokens)
    BY <1>1, <2>1, <2>2
  <2> QED BY <1>5, <2>2, <2>3, <2>4 DEF Parsed, Command
<1>6. Form => p.cmd # "INVALID" /\ p.cmd # "INCOMPLETE" /\ p.key = b.tokens[2]
  BY <1>1 DEF Cmds
<1>7. ASSUME Form PROVE p # Invalid /\ p # IncompleteCmd
  BY <1>6, <1>7 DEF Invalid, IncompleteCmd
<1>8. Invalid # IncompleteCmd
  <2>1. Invalid.cmd # IncompleteCmd.cmd
    BY DEF Invalid, IncompleteCmd
  <2> QED BY <2>1
<1> HIDE DEF p, Form
<1> QED BY <1>3, <1>4, <1>5, <1>6, <1>7, <1>8

\* skvs_parse accepts exactly the grammar.
LEMMA ParseExact ==
  ASSUME NEW b \in Buffers \cup {NoBuffer}
  PROVE  /\ skvs_parse(b) \notin {Invalid, IncompleteCmd} <=> WellFormed(b)
         /\ skvs_parse(b) = IncompleteCmd <=> ~ b.lf /\ b.len < BUF_SIZE
         /\ WellFormed(b) => /\ Command(skvs_parse(b))
                             /\ skvs_parse(b).key = b.tokens[2]
<1>1. Invalid # IncompleteCmd
  <2>1. Invalid.cmd # IncompleteCmd.cmd
    BY DEF Invalid, IncompleteCmd
  <2> QED BY <2>1
<1>2. b.len \in Nat /\ b.lf \in BOOLEAN
  <2>1. ASSUME b \in Buffers PROVE b.len \in Nat /\ b.lf \in BOOLEAN
    BY <2>1, BufferType
  <2>2. ASSUME b = NoBuffer PROVE b.len \in Nat /\ b.lf \in BOOLEAN
    BY <2>2 DEF NoBuffer
  <2> QED BY <2>1, <2>2
<1>3. CASE ~ b.lf
  BY <1>1, <1>2, <1>3, LengthsOK DEF skvs_parse, WellFormed
<1>4. CASE b.len > BUF_SIZE
  BY <1>1, <1>2, <1>4, LengthsOK DEF skvs_parse, WellFormed
<1>5. CASE b.lf /\ b.len <= BUF_SIZE
  <2>1. b \in Buffers
    BY <1>5 DEF NoBuffer
  <2>2. skvs_parse(b) = ParseLine(b)
    BY <1>2, <1>5, LengthsOK DEF skvs_parse
  <2> QED BY <1>5, <2>1, <2>2, ParseLineExact
<1> QED BY <1>2, <1>3, <1>4, <1>5, LengthsOK

-----------------------------------------------------------------------------
(* The inductive invariant                                                 *)

LibTypeOK ==
  /\ store \in [KeyTokens -> ValueTokens \cup {NoValue}]
  /\ request \in [Callers -> Operations]
  /\ pending \in SUBSET Callers
  /\ reply \in [Callers -> Replies \cup {NoReply}]
  /\ rbuf \in [Callers -> Buffers \cup {NoBuffer}]
  /\ line \in [Callers -> Parsed \cup {NoReply}]
  /\ net \in [KeyTokens -> Int]

\* A worker is in an operation as long as it serves a command, that of the command,
\* and the command is that of the buffer.
Serving ==
  \A w \in Callers :
    /\ w \in pending <=> line[w] # NoReply
    /\ reply[w] # NoReply => w \in pending
    /\ line[w] # NoReply => /\ WellFormed(rbuf[w])
                            /\ line[w] = skvs_parse(rbuf[w])
                            /\ request[w] = OperationOf(line[w])

LibIInv == LibTypeOK /\ Serving /\ ResponsesTrue

\* Who has done an operation on k and not answered yet, the sets of ResponsesTrue.
Done(k, n) == {w \in Callers : /\ reply[w] # NoReply /\ reply[w].ret = 1
                               /\ request[w].key = k /\ request[w].name = n}

Balance(k) == net[k] + Cardinality(Done(k, "insert")) - Cardinality(Done(k, "delete"))

LEMMA ResponsesBalance ==
  ResponsesTrue <=> \A k \in KeyTokens : Balance(k) = IF store[k] = NoValue THEN 0 ELSE 1
  BY DEF ResponsesTrue, Balance, Done

LEMMA DoneFinite ==
  ASSUME NEW k, NEW n
  PROVE  IsFiniteSet(Done(k, n)) /\ Cardinality(Done(k, n)) \in Nat
<1>1. Done(k, n) \in SUBSET Callers
  BY DEF Done
<1>2. IsFiniteSet(Done(k, n))
  BY <1>1, CallersFinite, FS_Subset
<1> QED BY <1>2, FS_CardinalityType

LEMMA StoreKeysAre == Map!StoreKeys = KeyTokens
<1>1. \A k \in KeyTokens : [name |-> "read", key |-> k] \in Operations
  BY DEF Operations
<1>2. \A o \in Operations : o.key \in KeyTokens
  BY DEF Operations
<1>3. \A k \in KeyTokens : [name |-> "read", key |-> k].key = k
  OBVIOUS
<1> QED BY <1>1, <1>2, <1>3 DEF Map!StoreKeys

\* A command calls the operation of its name with its key.
LEMMA OperationIs ==
  ASSUME NEW p, Command(p)
  PROVE  /\ OperationOf(p) \in Operations
         /\ OperationOf(p).key = p.key
         /\ OperationOf(p).name = "insert" <=> p.cmd = "CREATE"
         /\ OperationOf(p).name = "delete" <=> p.cmd = "DELETE"
<1>1. p.cmd \in Cmds /\ p.key \in KeyTokens
  BY DEF Command, Parsed
<1>2. CASE p.cmd = "CREATE"
  BY <1>1, <1>2 DEF OperationOf, Operations, WithValue, Command
<1>3. CASE p.cmd = "UPDATE"
  BY <1>1, <1>3 DEF OperationOf, Operations, WithValue, Command
<1>4. CASE p.cmd = "DELETE"
  BY <1>1, <1>4 DEF OperationOf, Operations
<1>5. CASE p.cmd \in {"READ", "QREAD"}
  BY <1>1, <1>5 DEF OperationOf, Operations
<1> QED BY <1>1, <1>2, <1>3, <1>4, <1>5 DEF Cmds

-----------------------------------------------------------------------------
(* How the balance of a key changes                                        *)

\* An operation that succeeds joins the done ones of its key and name.
LEMMA DoneGrows ==
  ASSUME LibTypeOK, NEW w \in Callers, NEW a \in Replies, NEW k, NEW n,
         reply[w] = NoReply,
         reply' = [reply EXCEPT ![w] = a], request' = request
  PROVE  Cardinality(Done(k, n)') =
           Cardinality(Done(k, n)) +
             IF a.ret = 1 /\ request[w].key = k /\ request[w].name = n THEN 1 ELSE 0
<1>1. reply'[w] = a /\ a # NoReply /\ \A v \in Callers \ {w} : reply'[v] = reply[v]
  BY NothingsApart DEF LibTypeOK
<1>2. w \notin Done(k, n)
  BY DEF Done
<1>3. CASE a.ret = 1 /\ request[w].key = k /\ request[w].name = n
  <2>1. Done(k, n)' = Done(k, n) \cup {w}
    BY <1>1, <1>3 DEF Done
  <2>2. Cardinality(Done(k, n)') = Cardinality(Done(k, n)) + 1
    BY <1>2, <2>1, DoneFinite, FS_AddElement
  <2> QED BY <1>3, <2>2
<1>4. CASE ~ (a.ret = 1 /\ request[w].key = k /\ request[w].name = n)
  <2>1. Done(k, n)' = Done(k, n)
    BY <1>1, <1>2, <1>4 DEF Done
  <2> QED BY <1>4, <2>1, DoneFinite
<1> QED BY <1>3, <1>4

\* It leaves them when it is answered.
LEMMA DoneShrinks ==
  ASSUME LibTypeOK, NEW w \in Callers, NEW k, NEW n, reply[w] # NoReply,
         reply' = [reply EXCEPT ![w] = NoReply], request' = request
  PROVE  Cardinality(Done(k, n)') =
           Cardinality(Done(k, n)) -
             IF reply[w].ret = 1 /\ request[w].key = k /\ request[w].name = n
             THEN 1 ELSE 0
<1>1. reply'[w] = NoReply /\ \A v \in Callers \ {w} : reply'[v] = reply[v]
  BY DEF LibTypeOK
<1>2. Done(k, n)' = Done(k, n) \ {w}
  BY <1>1 DEF Done
<1>3. w \in Done(k, n)
        <=> reply[w].ret = 1 /\ request[w].key = k /\ request[w].name = n
  BY DEF Done
<1>4. Cardinality(Done(k, n)') =
        IF w \in Done(k, n) THEN Cardinality(Done(k, n)) - 1 ELSE Cardinality(Done(k, n))
  BY <1>2, DoneFinite, FS_RemoveElement
<1> QED BY <1>3, <1>4, DoneFinite

\* What is said adds up by its kind.
LEMMA CreditOf ==
  ASSUME NEW text
  PROVE  /\ text.msg = "CREATE OK" => Credit(text) = 1
         /\ text.msg = "DELETE OK" => Credit(text) = -1
         /\ text.msg \notin {"CREATE OK", "DELETE OK"} => Credit(text) = 0
  BY DEF Credit

LEMMA MessageSays ==
  ASSUME NEW m, NEW v
  PROVE  Message(m).msg = m /\ [msg |-> m, value |-> v].msg = m
  BY DEF Message

\* The response says of a creation or a deletion that it succeeded exactly if it did.
LEMMA CreditIs ==
  ASSUME NEW a \in Replies, NEW cmd \in Cmds
  PROVE  Credit(Response(cmd, a)) = IF a.ret # 1 THEN 0
                                    ELSE IF cmd = "CREATE" THEN 1
                                    ELSE IF cmd = "DELETE" THEN -1 ELSE 0
<1>1. a.ret \in {-1, 0, 1}
  BY DEF Replies
<1>2. CASE a.ret = -1
  <2>1. Response(cmd, a) = Message("INTERNAL ERR")
    BY <1>2 DEF Response
  <2>2. Response(cmd, a).msg = "INTERNAL ERR"
    BY <2>1, MessageSays
  <2>3. Credit(Response(cmd, a)) = 0
    BY <2>2, CreditOf
  <2>4. a.ret # 1
    BY <1>2
  <2> QED BY <2>3, <2>4
<1>3. CASE a.ret = 0 /\ cmd = "CREATE"
  <2>1. Response(cmd, a) = Message("COLLISION")
    BY <1>3 DEF Response
  <2>2. Response(cmd, a).msg = "COLLISION"
    BY <2>1, MessageSays
  <2>3. Credit(Response(cmd, a)) = 0
    BY <2>2, CreditOf
  <2>4. a.ret # 1
    BY <1>3
  <2> QED BY <2>3, <2>4
<1>4. CASE a.ret = 0 /\ cmd # "CREATE"
  <2>1. Response(cmd, a) = Message("NOT FOUND")
    BY <1>4 DEF Response
  <2>2. Response(cmd, a).msg = "NOT FOUND"
    BY <2>1, MessageSays
  <2>3. Credit(Response(cmd, a)) = 0
    BY <2>2, CreditOf
  <2>4. a.ret # 1
    BY <1>4
  <2> QED BY <2>3, <2>4
<1>5. CASE a.ret = 1 /\ cmd = "CREATE"
  <2>1. Response(cmd, a) = Message("CREATE OK")
    BY <1>5 DEF Response
  <2>2. Response(cmd, a).msg = "CREATE OK"
    BY <2>1, MessageSays
  <2> QED BY <1>5, <2>2, CreditOf
<1>6. CASE a.ret = 1 /\ cmd = "UPDATE"
  <2>1. Response(cmd, a) = Message("UPDATE OK")
    BY <1>6 DEF Response
  <2>2. Response(cmd, a).msg = "UPDATE OK"
    BY <2>1, MessageSays
  <2> QED BY <1>6, <2>2, CreditOf
<1>7. CASE a.ret = 1 /\ cmd = "DELETE"
  <2>1. Response(cmd, a) = Message("DELETE OK")
    BY <1>7 DEF Response
  <2>2. Response(cmd, a).msg = "DELETE OK"
    BY <2>1, MessageSays
  <2> QED BY <1>7, <2>2, CreditOf
<1>8. CASE a.ret = 1 /\ cmd \in {"READ", "QREAD"}
  <2>1. Response(cmd, a) = [msg |-> "value", value |-> a.dst]
    <3>1. ~ (a.ret < 0) /\ a.ret # 0
      BY <1>8
    <3>2. cmd # "CREATE" /\ cmd # "UPDATE" /\ cmd # "DELETE"
      BY <1>8
    <3> QED BY <3>1, <3>2 DEF Response
  <2>2. Response(cmd, a).msg = "value"
    BY <2>1, MessageSays
  <2> QED BY <1>8, <2>2, CreditOf
<1> QED BY <1>1, <1>2, <1>3, <1>4, <1>5, <1>6, <1>7, <1>8 DEF Cmds

-----------------------------------------------------------------------------
(* The steps preserve the invariant                                        *)

LEMMA LibInitInv == LibInit => LibIInv
<1> SUFFICES ASSUME LibInit PROVE LibIInv
  OBVIOUS
<1>1. LibTypeOK
  <2>1. store = [k \in KeyTokens |-> NoValue] /\ request \in [Callers -> Operations]
        /\ pending = {} /\ reply = [w \in Callers |-> NoReply]
    BY StoreKeysAre DEF LibInit, Map!Init
  <2>2. /\ rbuf = [w \in Callers |-> NoBuffer] /\ line = [w \in Callers |-> NoReply]
        /\ net = [k \in KeyTokens |-> 0]
    BY DEF LibInit
  <2> QED BY <2>1, <2>2 DEF LibTypeOK
<1>2. Serving
  BY DEF LibInit, Map!Init, Serving
<1>3. ASSUME NEW k \in KeyTokens
      PROVE  Balance(k) = IF store[k] = NoValue THEN 0 ELSE 1
  <2>1. Done(k, "insert") = {} /\ Done(k, "delete") = {}
    BY DEF LibInit, Map!Init, Done
  <2>2. net[k] = 0 /\ store[k] = NoValue
    BY <1>3, StoreKeysAre DEF LibInit, Map!Init
  <2> QED BY <2>1, <2>2, FS_EmptySet DEF Balance
<1> QED BY <1>1, <1>2, <1>3, ResponsesBalance DEF LibIInv

\* A request that is not a command leaves the table alone, another one is called.
LEMMA ReceiveInv ==
  ASSUME LibIInv, NEW w \in Callers, NEW b \in Buffers, Receive(w, b)
  PROVE  LibIInv'
<1> DEFINE p == skvs_parse(b)
<1>1. /\ line[w] = NoReply /\ w \notin pending /\ reply[w] = NoReply
      /\ rbuf' = [rbuf EXCEPT ![w] = b]
      /\ UNCHANGED <<store, reply, net>>
  <2>1. UNCHANGED <<store, reply, net>>
    BY DEF Receive, Map!Call, mapvars
  <2> QED BY <2>1 DEF Receive, LibIInv, Serving
<1>2. \/ WellFormed(b) /\ Command(p) /\ Map!Call(w, OperationOf(p))
         /\ line' = [line EXCEPT ![w] = p]
      \/ UNCHANGED <<pending, request, line>>
  <2>1. CASE p \in {Invalid, IncompleteCmd}
    BY <2>1 DEF Receive, mapvars
  <2>2. CASE p \notin {Invalid, IncompleteCmd}
    <3>1. Map!Call(w, OperationOf(p)) /\ line' = [line EXCEPT ![w] = p]
      BY <2>2 DEF Receive
    <3> QED BY <2>2, <3>1, ParseExact
  <2> QED BY <2>1, <2>2
<1> HIDE DEF p
<1>3. ASSUME WellFormed(b), Command(p), Map!Call(w, OperationOf(p)),
             line' = [line EXCEPT ![w] = p]
      PROVE  /\ pending' = pending \cup {w} /\ p \in Parsed /\ p # NoReply
             /\ OperationOf(p) \in Operations
             /\ request' = [request EXCEPT ![w] = OperationOf(p)]
  BY <1>3, OperationIs, NothingsApart DEF Map!Call, Command
<1>4. LibTypeOK'
  BY <1>1, <1>2, <1>3 DEF LibIInv, LibTypeOK
<1>5. Serving'
  <2>1. CASE UNCHANGED <<pending, request, line>>
    BY <1>1, <2>1 DEF LibIInv, LibTypeOK, Serving
  <2>2. CASE WellFormed(b) /\ Command(p) /\ Map!Call(w, OperationOf(p))
             /\ line' = [line EXCEPT ![w] = p]
    <3>1. /\ w \in pending' /\ line'[w] = p /\ line'[w] # NoReply
          /\ rbuf'[w] = b /\ request'[w] = OperationOf(p)
      BY <1>1, <1>3, <2>2 DEF LibIInv, LibTypeOK
    <3>2. ASSUME NEW v \in Callers, v # w
          PROVE  /\ v \in pending' <=> v \in pending
                 /\ line'[v] = line[v] /\ rbuf'[v] = rbuf[v] /\ request'[v] = request[v]
      BY <1>1, <1>3, <2>2, <3>2 DEF LibIInv, LibTypeOK
    <3> QED BY <1>1, <2>2, <3>1, <3>2 DEF LibIInv, Serving, p
  <2> QED BY <1>2, <2>1, <2>2
<1>6. ASSUME NEW k, NEW n PROVE Done(k, n)' = Done(k, n)
  <2>1. \A v \in Callers \ {w} : request'[v] = request[v]
    BY <1>1, <1>2, <1>3 DEF LibIInv, LibTypeOK
  <2> QED BY <1>1, <2>1 DEF Done
<1>7. ASSUME NEW k \in KeyTokens
      PROVE  Balance(k)' = IF store'[k] = NoValue THEN 0 ELSE 1
  BY <1>1, <1>6, ResponsesBalance DEF Balance, LibIInv
<1>8. ResponsesTrue'
  BY <1>7 DEF ResponsesTrue, Balance, Done
<1> QED BY <1>4, <1>5, <1>8 DEF LibIInv

\* An operation that takes effect on the table is one more to be reported.
LEMMA ExecuteInv ==
  ASSUME LibIInv, NEW w \in Callers, Execute(w)
  PROVE  LibIInv'
<1> DEFINE o == request[w]
<1>1. /\ w \in pending /\ reply[w] = NoReply
      /\ UNCHANGED <<request, pending, rbuf, line, net>>
  BY DEF Execute, Map!Apply
<1>2. o \in Operations /\ o.key \in KeyTokens
      /\ (o.name \in {"insert", "update"} => o.value \in ValueTokens)
      /\ o.name \in {"insert", "update", "read", "delete"}
  BY DEF LibIInv, LibTypeOK, Operations
<1>3. PICK r \in {-1, 0, 1}, v \in ValueTokens \cup {NoValue} :
        /\ reply' = [reply EXCEPT ![w] = [ret |-> r, dst |-> v]]
        /\ \/ /\ o.name = "insert" /\ store[o.key] = NoValue /\ r = 1
              /\ store' = [store EXCEPT ![o.key] = o.value]
           \/ /\ o.name = "update" /\ store[o.key] # NoValue /\ r = 1
              /\ store' = [store EXCEPT ![o.key] = o.value]
           \/ /\ o.name = "delete" /\ store[o.key] # NoValue /\ r = 1
              /\ store' = [store EXCEPT ![o.key] = NoValue]
           \/ /\ o.name = "read" \/ r # 1
              /\ store' = store
  <2>1. store[o.key] \in ValueTokens \cup {NoValue}
    BY <1>2 DEF LibIInv, LibTypeOK
  <2> HIDE DEF o
  <2> QED BY <2>1 DEF Execute, Map!Apply, Map!Stores, Map!Present, Map!Answer, o
<1> DEFINE a == [ret |-> r, dst |-> v]
<1>4. a \in Replies /\ a # NoReply /\ a.ret = r
  BY NothingsApart DEF Replies
<1> HIDE DEF a, o
<1>5. reply' = [reply EXCEPT ![w] = a]
  BY <1>3 DEF a
<1>6. LibTypeOK'
  <2>1. store' \in [KeyTokens -> ValueTokens \cup {NoValue}]
    BY <1>2, <1>3 DEF LibIInv, LibTypeOK
  <2> QED BY <1>1, <1>4, <1>5, <2>1 DEF LibIInv, LibTypeOK
<1>7. Serving'
  <2>1. \A u \in Callers : reply'[u] # NoReply => reply[u] # NoReply \/ u = w
    BY <1>5 DEF LibIInv, LibTypeOK
  <2> QED BY <1>1, <2>1 DEF LibIInv, Serving
<1>8. ASSUME NEW k \in KeyTokens
      PROVE  Balance(k)' = IF store'[k] = NoValue THEN 0 ELSE 1
  <2>1. Balance(k) = IF store[k] = NoValue THEN 0 ELSE 1
    BY ResponsesBalance DEF LibIInv
  <2>2. ASSUME NEW n
        PROVE  Cardinality(Done(k, n)') = Cardinality(Done(k, n)) +
                 IF r = 1 /\ o.key = k /\ o.name = n THEN 1 ELSE 0
    <3>1. LibTypeOK /\ reply[w] = NoReply /\ request' = request /\ a \in Replies
      BY <1>1, <1>4 DEF LibIInv
    <3>2. Cardinality(Done(k, n)') = Cardinality(Done(k, n)) +
            IF a.ret = 1 /\ request[w].key = k /\ request[w].name = n THEN 1 ELSE 0
      BY <1>5, <3>1, DoneGrows
    <3> QED BY <1>4, <3>2 DEF o
  <2>3. Balance(k)' = Balance(k)
          + (IF r = 1 /\ o.key = k /\ o.name = "insert" THEN 1 ELSE 0)
          - (IF r = 1 /\ o.key = k /\ o.name = "delete" THEN 1 ELSE 0)
    <3>1. net'[k] = net[k] /\ net[k] \in Int
      BY <1>1 DEF LibIInv, LibTypeOK
    <3>2. Cardinality(Done(k, "insert")) \in Nat /\ Cardinality(Done(k, "delete")) \in Nat
      BY DoneFinite
    <3>3. Cardinality(Done(k, "insert")') = Cardinality(Done(k, "insert")) +
            IF r = 1 /\ o.key = k /\ o.name = "insert" THEN 1 ELSE 0
      BY <2>2
    <3>4. Cardinality(Done(k, "delete")') = Cardinality(Done(k, "delete")) +
            IF r = 1 /\ o.key = k /\ o.name = "delete" THEN 1 ELSE 0
      BY <2>2
    <3>5. Balance(k)' = net'[k] + Cardinality(Done(k, "insert")')
                          - Cardinality(Done(k, "delete")')
      BY DEF Balance
    <3> QED BY <3>1, <3>2, <3>3, <3>4, <3>5 DEF Balance
  <2>4. store'[k] = IF o.key = k /\ r = 1 /\ o.name \in {"insert", "update"} THEN o.value
                    ELSE IF o.key = k /\ r = 1 /\ o.name = "delete" THEN NoValue
                    ELSE store[k]
    BY <1>2, <1>3 DEF LibIInv, LibTypeOK
  <2>5. /\ o.key = k /\ r = 1 /\ o.name = "insert" => store[k] = NoValue
        /\ o.key = k /\ r = 1 /\ o.name \in {"update", "delete"} => store[k] # NoValue
    BY <1>3
  <2>6. o.name \in {"insert", "update"} => o.value # NoValue
    BY <1>2, NothingsApart
  <2>7. CASE o.key = k /\ r = 1 /\ o.name = "insert"
    BY <2>1, <2>3, <2>4, <2>5, <2>6, <2>7
  <2>8. CASE o.key = k /\ r = 1 /\ o.name = "delete"
    BY <2>1, <2>3, <2>4, <2>5, <2>8
  <2>9. CASE o.key = k /\ r = 1 /\ o.name \in {"update", "read"}
    BY <2>1, <2>3, <2>4, <2>5, <2>6, <2>9
  <2>10. CASE o.key # k \/ r # 1
    BY <2>1, <2>3, <2>4, <2>10
  <2> QED BY <1>2, <2>7, <2>8, <2>9, <2>10
<1>9. ResponsesTrue'
  BY <1>8 DEF ResponsesTrue, Balance, Done
<1> QED BY <1>6, <1>7, <1>9 DEF LibIInv

\* The response takes the operation out and accounts for it.
LEMMA RespondInv ==
  ASSUME LibIInv, NEW w \in Callers, Respond(w)
  PROVE  LibIInv'
<1> DEFINE p == line[w]
           o == request[w]
           a == reply[w]
           credit == Credit(Response(p.cmd, a))
<1>1. /\ w \in pending /\ a # NoReply
      /\ pending' = pending \ {w}
      /\ reply' = [reply EXCEPT ![w] = NoReply]
      /\ line' = [line EXCEPT ![w] = NoReply]
      /\ net' = [net EXCEPT ![p.key] = @ + credit]
      /\ UNCHANGED <<store, request, rbuf>>
  BY DEF Respond, Map!Return
<1>2. a \in Replies /\ p # NoReply /\ p = skvs_parse(rbuf[w]) /\ WellFormed(rbuf[w])
      /\ o = OperationOf(p)
  BY <1>1 DEF LibIInv, LibTypeOK, Serving
<1>3. Command(p)
  <2>1. rbuf[w] \in Buffers \cup {NoBuffer}
    BY DEF LibIInv, LibTypeOK
  <2> HIDE DEF p
  <2> QED BY <1>2, <2>1, ParseExact
<1>4. p.cmd \in Cmds /\ p.key \in KeyTokens
  BY <1>3 DEF Command, Parsed
<1> HIDE DEF p, o, a
<1>5. /\ o.key = p.key
      /\ o.name = "insert" <=> p.cmd = "CREATE"
      /\ o.name = "delete" <=> p.cmd = "DELETE"
  BY <1>2, <1>3, OperationIs
<1>6. credit = IF a.ret # 1 THEN 0
               ELSE IF p.cmd = "CREATE" THEN 1
               ELSE IF p.cmd = "DELETE" THEN -1 ELSE 0
  BY <1>2, <1>4, CreditIs
<1> HIDE DEF credit
<1>7. credit \in Int
  BY <1>6
<1>8. LibTypeOK'
  BY <1>1, <1>4, <1>7 DEF LibIInv, LibTypeOK
<1>9. Serving'
  <2>1. w \notin pending' /\ line'[w] = NoReply /\ reply'[w] = NoReply
    BY <1>1 DEF LibIInv, LibTypeOK
  <2>2. ASSUME NEW u \in Callers, u # w
        PROVE  /\ u \in pending' <=> u \in pending
               /\ line'[u] = line[u] /\ reply'[u] = reply[u]
    BY <1>1, <2>2 DEF LibIInv, LibTypeOK
  <2> QED BY <1>1, <2>1, <2>2 DEF LibIInv, Serving
<1>10. ASSUME NEW k \in KeyTokens
       PROVE  Balance(k)' = IF store'[k] = NoValue THEN 0 ELSE 1
  <2>1. Balance(k) = IF store[k] = NoValue THEN 0 ELSE 1
    BY ResponsesBalance DEF LibIInv
  <2>2. ASSUME NEW n
        PROVE  Cardinality(Done(k, n)') = Cardinality(Done(k, n)) -
                 IF a.ret = 1 /\ o.key = k /\ o.name = n THEN 1 ELSE 0
    <3>1. Cardinality(Done(k, n)') = Cardinality(Done(k, n)) -
            IF reply[w].ret = 1 /\ request[w].key = k /\ request[w].name = n THEN 1 ELSE 0
      BY <1>1, DoneShrinks DEF LibIInv, a
    <3> QED BY <3>1 DEF o, a
  <2>3. net[k] \in Int /\ net'[k] = IF k = p.key THEN net[k] + credit ELSE net[k]
    BY <1>1, <1>4 DEF LibIInv, LibTypeOK
  <2>4. Cardinality(Done(k, "insert")) \in Nat /\ Cardinality(Done(k, "delete")) \in Nat
    BY DoneFinite
  <2>5. Cardinality(Done(k, "insert")') = Cardinality(Done(k, "insert")) -
          IF a.ret = 1 /\ p.key = k /\ p.cmd = "CREATE" THEN 1 ELSE 0
    BY <1>5, <2>2
  <2>6. Cardinality(Done(k, "delete")') = Cardinality(Done(k, "delete")) -
          IF a.ret = 1 /\ p.key = k /\ p.cmd = "DELETE" THEN 1 ELSE 0
    BY <1>5, <2>2
  <2>7. Balance(k)' = net'[k] + Cardinality(Done(k, "insert")')
                        - Cardinality(Done(k, "delete")')
    BY DEF Balance
  <2>8. Balance(k)' = Balance(k)
    BY <1>6, <2>3, <2>4, <2>5, <2>6, <2>7 DEF Balance
  <2> QED BY <1>1, <2>1, <2>8
<1>11. ResponsesTrue'
  BY <1>10 DEF ResponsesTrue, Balance, Done
<1> QED BY <1>8, <1>9, <1>11 DEF LibIInv

LEMMA LibNextInv == LibIInv /\ [LibNext]_libvars => LibIInv'
<1> SUFFICES ASSUME LibIInv, [LibNext]_libvars PROVE LibIInv'
  OBVIOUS
<1>1. CASE UNCHANGED libvars
  BY <1>1 DEF libvars, mapvars, LibIInv, LibTypeOK, Serving, ResponsesTrue
<1>2. CASE LibNext
  BY <1>2, ReceiveInv, ExecuteInv, RespondInv DEF LibNext
<1> QED BY <1>1, <1>2

-----------------------------------------------------------------------------
(* The theorems                                                            *)

\* What a worker is doing is what its request asks for, at any time.
THEOREM LibInvariance == LibSpec => []LibIInv
  BY LibInitInv, LibNextInv, PTL DEF LibSpec

\* However the requests of any number of workers overlap, what the responses have
\* said and will say of each key's creations and deletions is what became of the key.
THEOREM ResponsesAreTrue == LibSpec => []ResponsesTrue
<1>1. LibIInv => ResponsesTrue
  BY DEF LibIInv
<1> QED BY <1>1, LibInvariance, PTL

\* skvs_parse accepts exactly the lines of the grammar, of any length and number of
\* tokens, waits exactly for those that may become one, and the table is asked for
\* what the line says.
THEOREM GrammarIsExact == LibSpec => []GrammarExact
<1>1. ASSUME LibIInv PROVE GrammarExact
  <2>1. ASSUME NEW w \in Callers
        PROVE  LET b == rbuf[w]  p == skvs_parse(b) IN
               /\ p \notin {Invalid, IncompleteCmd} <=> WellFormed(b)
               /\ p = IncompleteCmd <=> ~ b.lf /\ b.len < BUF_SIZE
               /\ line[w] # NoReply =>
                    WellFormed(b) /\ request[w] = OperationOf(p)
                    /\ line[w].key = b.tokens[2]
    <3>1. rbuf[w] \in Buffers \cup {NoBuffer}
      BY <1>1 DEF LibIInv, LibTypeOK
    <3>2. line[w] # NoReply => /\ WellFormed(rbuf[w])
                               /\ line[w] = skvs_parse(rbuf[w])
                               /\ request[w] = OperationOf(line[w])
      BY <1>1 DEF LibIInv, Serving
    <3> QED BY <3>1, <3>2, ParseExact
  <2> QED BY <2>1 DEF GrammarExact
<1> QED BY <1>1, LibInvariance, PTL

-----------------------------------------------------------------------------
(* The inductive invariants                                                *)

\* A worker exists once it is created, and is done once it is joined; outside the
\* life of the pool no worker runs.
Pool ==
  /\ \A w \in Workers : pc[w] = "none" <=> w >= created
  /\ \A w \in 0 .. joined - 1 : pc[w] = "done"
  /\ main = "destroy" => joined = created
  /\ main \notin {"spawn", "join", "destroy"} =>
       \A w \in Workers : pc[w] \in {"none", "done"}

\* What is allocated, by where main is.
HeldBy(r) ==
  CASE main = "listen" -> IF r \in Table THEN 1 ELSE 0
    [] main \in {"spawn", "join", "destroy"} ->
         IF \/ \E w \in Workers : r = targs(w) /\ pc[w] # "begin"
            \/ \E e \in Entries \ Stored : r \in Entry(e)
         THEN 0 ELSE 1
    [] OTHER -> 0

\* An entry is on one chain; the table is empty outside of the life of the pool.
Chains ==
  /\ buckets \in [Buckets -> SUBSET Entries]
  /\ \A b, c \in Buckets : b # c => buckets[b] \cap buckets[c] = {}
  /\ main \notin {"spawn", "join", "destroy"} => Stored = {}

AllocInv ==
  /\ main \in {"start", "listen", "spawn", "join", "destroy", "exit"}
  /\ created \in 0 .. num_threads /\ joined \in 0 .. created
  /\ main \in {"start", "listen"} => created = 0
  /\ Pool
  /\ Chains
  /\ held = [r \in Resources |-> HeldBy(r)]

\* A connection that no request was received on has all of its request left, or
\* has none; a session that goes on has room for more.
Untouched ==
  /\ \A c \in Clients : server[c] = "queued" => left[c] = reqlen[c]
  /\ \A c \in Clients : server[c] = "none" => left[c] = 0 /\ reqlen[c] = 0
  /\ \A w \in Workers : pc[w] = "session" => off[w] < BufSize

ConnInv == ConnectionsOwned /\ Framing /\ Untouched

-----------------------------------------------------------------------------
(* What main allocates and frees                                           *)

LEMMA TableParts ==
  ASSUME NEW r
  PROVE  r \in Table <=>
           \/ r \in {One("ctx"), One("table"), One("buckets"), One("locks"),
                     One("bucket_sizes")}
           \/ \E i \in 0 .. hash_size - 1 :
                r \in {[part |-> "uctx", no |-> i], [part |-> "mutex", no |-> i],
                      [part |-> "cond", no |-> i]}
  BY DEF Table, Arrays, Locks, Lock

\* However far skvs_init comes, what it undoes is what it did: hash_undo frees the
\* arrays and the locks of the buckets before, rwlock_undo the parts of the lock.
LEMMA UndoExact ==
  ASSUME NEW r \in Table
  PROVE  {s \in Table : InitOrder(s) < InitOrder(r)}
           = rwlock_undo(r) \cup hash_undo(r) \cup skvs_undo(r)
<1> DEFINE undo == rwlock_undo(r) \cup hash_undo(r) \cup skvs_undo(r)
<1>1. ASSUME NEW s
      PROVE  s \in undo <=> s \in Table /\ InitOrder(s) < InitOrder(r)
  <2>1. CASE r.part \in {"ctx", "table", "buckets", "locks", "bucket_sizes"}
    BY <2>1, TableParts, PoolSize
    DEF InitOrder, One, rwlock_undo, hash_undo, skvs_undo, Arrays, Locks, Lock
  <2>2. CASE r.part \in {"uctx", "mutex", "cond"}
    BY <2>2, TableParts, PoolSize
    DEF InitOrder, One, rwlock_undo, hash_undo, skvs_undo, Arrays, Locks, Lock
  <2> QED BY <2>1, <2>2, TableParts DEF One
<1> QED BY <1>1

\* What the server holds apart from the workers' arguments is not one of those.
LEMMA ArgsApart ==
  ASSUME NEW w \in Workers
  PROVE  targs(w) \in Resources /\ targs(w) \notin Table \cup {One("listenfd")}
  BY TableParts DEF targs, Resources, One

\* Nor is any part of an entry, and two entries share none.
LEMMA EntriesApart ==
  ASSUME NEW e
  PROVE  /\ e \in Entries => Entry(e) \subseteq Resources
         /\ Entry(e) \cap (Table \cup {One("listenfd")}) = {}
         /\ \A w \in Workers : targs(w) \notin Entry(e)
         /\ \A f : Entry(f) \cap Entry(e) # {} => f = e
<1>1. \A r \in Entry(e) : r.part \in {"node", "key", "value"} /\ r.no = e
  BY DEF Entry
<1>2. \A r \in Table \cup {One("listenfd")} : r.part \notin {"node", "key", "value"}
  BY TableParts DEF One
<1>3. \A w \in Workers : targs(w).part \notin {"node", "key", "value"}
  BY DEF targs
<1>4. \A f : \A r \in Entry(f) : r.no = f
  BY DEF Entry
<1>5. e \in Entries => Entry(e) \subseteq Resources
  BY DEF Resources
<1> QED BY <1>1, <1>2, <1>3, <1>4, <1>5

\* hash_destroy walks every chain.
LEMMA DestroyAll == skvs_destroy = Table \cup UNION {Entry(e) : e \in Stored}
  BY DEF skvs_destroy, hash_destroy, Table

\* The entries of the table while it does not change.
LEMMA SameEntries == UNCHANGED buckets => Stored' = Stored
  BY DEF Stored

LEMMA StoredAre == Chains => Stored \subseteq Entries
  BY DEF Chains, Stored

-----------------------------------------------------------------------------
(* The life of the table and of the pool                                   *)

LEMMA InitAlloc == Init => AllocInv
<1> SUFFICES ASSUME Init PROVE AllocInv
  OBVIOUS
<1>1. Chains
  BY DEF Init, Chains, Stored
<1> QED BY <1>1, PoolSize DEF Init, AllocInv, Pool, HeldBy, Workers

\* A running worker goes on to l: the pool stays.
LEMMA PoolGoes ==
  ASSUME TypeOK, AllocInv, UNCHANGED <<main, created, joined>>,
         NEW w \in Workers, NEW l,
         pc[w] \notin {"none", "begin", "done"}, l \notin {"none", "begin"},
         Goto(w, l)
  PROVE  /\ Pool' /\ main \in {"spawn", "join", "destroy"}
         /\ \A v \in Workers : pc'[v] = "begin" <=> pc[v] = "begin"
<1>1. \A v \in Workers : /\ pc'[v] = "none" <=> pc[v] = "none"
                         /\ pc'[v] = "begin" <=> pc[v] = "begin"
                         /\ pc[v] = "done" => pc'[v] = "done"
  BY DEF TypeOK, Goto
<1>2. main \in {"spawn", "join", "destroy"}
  BY DEF AllocInv, Pool
<1>3. Pool'
  BY <1>1, <1>2, PoolSize DEF AllocInv, Pool, Workers
<1> QED BY <1>1, <1>2, <1>3

\* And so do the allocations, unless it changes the table.
LEMMA WorkerGoes ==
  ASSUME TypeOK, AllocInv, UNCHANGED mainvars,
         NEW w \in Workers, NEW l,
         pc[w] \notin {"none", "begin", "done"}, l \notin {"none", "begin"},
         Goto(w, l)
  PROVE  AllocInv'
<1>1. /\ Pool' /\ main \in {"spawn", "join", "destroy"}
      /\ \A v \in Workers : pc'[v] = "begin" <=> pc[v] = "begin"
  BY PoolGoes DEF mainvars
<1>2. Stored' = Stored
  BY SameEntries DEF mainvars
<1>3. \A r \in Resources : HeldBy(r)' = HeldBy(r)
  BY <1>1, <1>2 DEF HeldBy, mainvars
<1>4. Chains'
  BY <1>2 DEF AllocInv, Chains, mainvars
<1> QED BY <1>1, <1>3, <1>4 DEF AllocInv, mainvars

LEMMA AllocSame ==
  ASSUME AllocInv, UNCHANGED <<mainvars, pc>>
  PROVE  AllocInv'
<1>1. Stored' = Stored
  BY SameEntries DEF mainvars
<1>2. Chains'
  BY <1>1 DEF AllocInv, Chains, mainvars
<1>3. \A r \in Resources : HeldBy(r)' = HeldBy(r)
  BY <1>1 DEF HeldBy, mainvars
<1> QED BY <1>2, <1>3 DEF AllocInv, Pool, mainvars

\* An entry is added: its key, value and node are allocated.
LEMMA InsertAlloc ==
  ASSUME AllocInv, main \in {"spawn", "join", "destroy"},
         NEW b \in Buckets, NEW e \in Entries, hash_insert(b, e),
         UNCHANGED main, \A v \in Workers : pc'[v] = "begin" <=> pc[v] = "begin"
  PROVE  Chains' /\ held' = [r \in Resources |-> HeldBy(r)']
<1>1. Chains
  BY DEF AllocInv
<1>2. /\ buckets' \in [Buckets -> SUBSET Entries]
      /\ \A c \in Buckets : buckets'[c] = IF c = b THEN buckets[b] \cup {e} ELSE buckets[c]
  BY <1>1 DEF hash_insert, Chains
<1>3. Stored' = Stored \cup {e} /\ e \notin Stored
  BY <1>2 DEF hash_insert, Stored
<1>4. Chains'
  BY <1>1, <1>2, <1>3 DEF Chains, Stored
<1>5. ASSUME NEW r \in Resources PROVE held'[r] = HeldBy(r)'
  <2>1. held[r] = HeldBy(r) /\ HeldBy(r) \in {0, 1}
    BY DEF AllocInv, HeldBy
  <2>2. CASE r \in Entry(e)
    <3>1. \A f \in Entries : r \in Entry(f) => f = e
      BY <2>2, EntriesApart
    <3>2. \A w \in Workers : r # targs(w)
      BY <2>2, EntriesApart
    <3>3. HeldBy(r) = 0 /\ HeldBy(r)' = 1
      BY <1>3, <2>2, <3>1, <3>2 DEF HeldBy
    <3> QED BY <2>1, <2>2, <3>3 DEF hash_insert, Hold
  <2>3. CASE r \notin Entry(e)
    <3>1. HeldBy(r)' = HeldBy(r)
      BY <1>3, <2>3 DEF HeldBy
    <3> QED BY <2>1, <2>3, <3>1 DEF hash_insert, Hold
  <2> QED BY <2>2, <2>3
<1> QED BY <1>4, <1>5 DEF hash_insert, Hold

\* An entry is deleted: they are freed.
LEMMA DeleteAlloc ==
  ASSUME AllocInv, main \in {"spawn", "join", "destroy"},
         NEW b \in Buckets, NEW e \in Entries, hash_delete(b, e),
         UNCHANGED main, \A v \in Workers : pc'[v] = "begin" <=> pc[v] = "begin"
  PROVE  Chains' /\ held' = [r \in Resources |-> HeldBy(r)']
<1>1. Chains /\ e \in buckets[b]
  BY DEF AllocInv, hash_delete
<1>2. /\ buckets' \in [Buckets -> SUBSET Entries]
      /\ \A c \in Buckets : buckets'[c] = IF c = b THEN buckets[b] \ {e} ELSE buckets[c]
  BY <1>1 DEF hash_delete, Chains
<1>3. \A c \in Buckets : c # b => e \notin buckets[c]
  BY <1>1 DEF Chains
<1>4. Stored' = Stored \ {e} /\ e \in Stored
  BY <1>1, <1>2, <1>3 DEF Stored
<1>5. Chains'
  BY <1>1, <1>2, <1>4 DEF Chains
<1>6. ASSUME NEW r \in Resources PROVE held'[r] = HeldBy(r)'
  <2>1. held[r] = HeldBy(r) /\ HeldBy(r) \in {0, 1}
    BY DEF AllocInv, HeldBy
  <2>2. CASE r \in Entry(e)
    <3>1. \A f \in Entries : r \in Entry(f) => f = e
      BY <2>2, EntriesApart
    <3>2. \A w \in Workers : r # targs(w)
      BY <2>2, EntriesApart
    <3>3. HeldBy(r) = 1 /\ HeldBy(r)' = 0
      BY <1>4, <2>2, <3>1, <3>2 DEF HeldBy
    <3> QED BY <2>1, <2>2, <3>3 DEF hash_delete, Free, Hold
  <2>3. CASE r \notin Entry(e)
    <3>1. HeldBy(r)' = HeldBy(r)
      BY <1>4, <2>3 DEF HeldBy
    <3> QED BY <2>1, <2>3, <3>1 DEF hash_delete, Free, Hold
  <2> QED BY <2>2, <2>3
<1> QED BY <1>5, <1>6 DEF hash_delete, Free, Hold

LEMMA ServeAlloc ==
  ASSUME TypeOK, AllocInv, NEW w \in Workers, Serve(w)
  PROVE  AllocInv'
<1>1. /\ Goto(w, "send") /\ UNCHANGED <<main, created, joined>>
      /\ pc[w] \notin {"none", "begin", "done"}
  BY DEF Serve
<1>2. /\ Pool' /\ main \in {"spawn", "join", "destroy"}
      /\ \A v \in Workers : pc'[v] = "begin" <=> pc[v] = "begin"
  BY <1>1, PoolGoes
<1>3. CASE UNCHANGED <<held, buckets>>
  BY <1>1, <1>3, WorkerGoes DEF mainvars
<1>4. ASSUME NEW e \in Entries, hash_insert(hash[e], e) \/ hash_delete(hash[e], e)
      PROVE  AllocInv'
  <2>0. hash[e] \in Buckets
    BY HashKnown DEF Buckets
  <2>1. Chains' /\ held' = [r \in Resources |-> HeldBy(r)']
    BY <1>1, <1>2, <1>4, <2>0, InsertAlloc, DeleteAlloc
  <2> QED BY <1>1, <1>2, <2>1 DEF AllocInv
<1> QED BY <1>3, <1>4 DEF Serve

\* Every step of main, and the first step of a worker.
LEMMA MainAlloc ==
  ASSUME TypeOK, AllocInv, Main
  PROVE  AllocInv'
<1>0. Chains
  BY DEF AllocInv
<1>1. CASE SkvsInit
  <2>0. Stored = {} /\ Stored' = {} /\ Chains'
    BY <1>0, <1>1, SameEntries DEF SkvsInit, Chains
  <2>1. held' = [r \in Resources |-> HeldBy(r)']
    <3>1. CASE main' = "listen" /\ Hold(Table, {})
      BY <1>1, <3>1 DEF SkvsInit, Hold, AllocInv, HeldBy
    <3>2. ASSUME NEW r \in Table, main' = "exit",
                 Hold({s \in Table : InitOrder(s) < InitOrder(r)},
                      rwlock_undo(r) \cup hash_undo(r) \cup skvs_undo(r))
          PROVE  held' = [s \in Resources |-> HeldBy(s)']
      BY <1>1, <3>2, UndoExact DEF SkvsInit, Hold, AllocInv, HeldBy
    <3> QED BY <1>1, <3>1, <3>2 DEF SkvsInit
  <2>2. /\ main = "start" /\ main' \in {"listen", "exit"}
        /\ UNCHANGED <<created, joined, pc>>
    BY <1>1 DEF SkvsInit, workvars
  <2> QED BY <2>0, <2>1, <2>2 DEF AllocInv, Pool
<1>2. CASE Listen
  <2>1. One("listenfd") \in Resources \ Table
    BY TableParts DEF Resources, One
  <2>2. Table \subseteq Resources
    BY DEF Resources
  <2>3. /\ main = "listen" /\ main' \in {"spawn", "exit"}
        /\ UNCHANGED <<created, joined, buckets, pc>>
    BY <1>2 DEF Listen, workvars
  <2>5. Stored = {} /\ Stored' = {} /\ Chains'
    BY <1>0, <2>3, SameEntries DEF Chains
  <2>6. skvs_destroy = Table
    BY <2>5, DestroyAll
  <2>4. held' = [r \in Resources |-> HeldBy(r)']
    <3>1. \A r \in Resources : held[r] = IF r \in Table THEN 1 ELSE 0
      BY <2>3 DEF AllocInv, HeldBy
    <3>2. CASE main' = "spawn" /\ Hold({One("listenfd")}, {})
      <4>1. \A w \in Workers : pc'[w] # "begin"
        BY <2>3 DEF AllocInv, Pool
      <4>2. \A r \in Resources : 
              (\/ \E w \in Workers : r = targs(w)
               \/ \E e \in Entries : r \in Entry(e))
                <=> r \notin Table \cup {One("listenfd")}
        BY ArgsApart, EntriesApart DEF Resources
      <4> QED BY <3>1, <3>2, <4>1, <4>2, <2>1, <2>5 DEF Hold, HeldBy
    <3>3. CASE main' = "exit" /\ Free(skvs_destroy)
      BY <3>1, <3>3, <2>6 DEF Free, Hold, HeldBy
    <3>4. CASE main' = "exit" /\ Hold({One("listenfd")}, {One("listenfd")} \cup skvs_destroy)
      BY <3>1, <3>4, <2>6, <2>1 DEF Hold, HeldBy
    <3> QED BY <1>2, <3>2, <3>3, <3>4 DEF Listen
  <2> QED BY <2>3, <2>4, <2>5 DEF AllocInv, Pool
<1>3. CASE Spawn
  <2>3. main = "spawn" /\ main' \in {"spawn", "join"} /\ UNCHANGED <<joined, buckets>>
    BY <1>3 DEF Spawn
  <2>4. Stored' = Stored /\ Chains'
    BY <1>0, <2>3, SameEntries DEF Chains
  <2>1. CASE main' = "join" /\ UNCHANGED <<created, held, pc>>
    <3>2. \A r \in Resources : HeldBy(r)' = HeldBy(r)
      BY <2>1, <2>3, <2>4 DEF HeldBy
    <3> QED BY <2>1, <2>3, <2>4, <3>2 DEF AllocInv, Pool
  <2>5. CASE /\ created < num_threads
             /\ Hold({targs(created)}, {targs(created)})
             /\ main' = "join" /\ UNCHANGED <<created, pc>>
    <3>1. \A r \in Resources : held[r] = HeldBy(r) /\ HeldBy(r) \in {0, 1}
      BY DEF AllocInv, HeldBy
    <3>2. \A r \in Resources : HeldBy(r)' = HeldBy(r)
      BY <2>5, <2>3, <2>4 DEF HeldBy
    <3>3. held' = [r \in Resources |-> HeldBy(r)']
      BY <2>5, <3>1, <3>2 DEF Hold
    <3> QED BY <2>3, <2>4, <2>5, <3>3 DEF AllocInv, Pool
  <2>2. CASE /\ created < num_threads
             /\ created' = created + 1
             /\ pc' = [pc EXCEPT ![created] = "begin"]
             /\ Hold({targs(created)}, {})
    <3>1. main = "spawn" /\ main' \in {"spawn", "join"} /\ UNCHANGED joined
      BY <2>3
    <3>2. created \in Workers /\ pc[created] = "none"
      BY <2>2, PoolSize DEF AllocInv, Pool, Workers
    <3>3. Pool'
      BY <2>2, <3>1, <3>2, PoolSize DEF AllocInv, Pool, TypeOK, Workers
    <3>4. \A r \in Resources : held'[r] = HeldBy(r)'
      <4> SUFFICES ASSUME NEW r \in Resources PROVE held'[r] = HeldBy(r)'
        OBVIOUS
      <4>1. CASE r = targs(created)
        <5>1. held[r] = 0
          BY <4>1, <3>1, <3>2 DEF AllocInv, HeldBy
        <5>2. \A w \in Workers : r = targs(w) => w = created
          BY <4>1 DEF targs
        <5>3. pc'[created] = "begin"
          BY <2>2, <3>2 DEF TypeOK
        <5>4. \A e : r \notin Entry(e)
          BY <3>2, <4>1, EntriesApart
        <5> QED BY <2>2, <4>1, <3>1, <5>1, <5>2, <5>3, <5>4 DEF Hold, HeldBy
      <4>2. CASE r # targs(created)
        <5>1. HeldBy(r)' = HeldBy(r)
          BY <2>2, <2>4, <4>2, <3>1, <3>2 DEF HeldBy, TypeOK
        <5>2. HeldBy(r) \in {0, 1}
          BY DEF HeldBy
        <5>3. held[r] = HeldBy(r)
          BY DEF AllocInv
        <5>4. held'[r] = held[r]
          BY <2>2, <4>2, <5>2, <5>3 DEF Hold
        <5> QED BY <5>1, <5>3, <5>4
      <4> QED BY <4>1, <4>2
    <3> QED BY <2>2, <2>4, <3>1, <3>3, <3>4, PoolSize DEF AllocInv, Hold
  <2> QED BY <1>3, <2>1, <2>2, <2>5 DEF Spawn
<1>4. CASE Join
  <2>1. /\ main = "join" /\ main' \in {"join", "destroy"}
        /\ UNCHANGED <<created, held, buckets, pc>>
    BY <1>4 DEF Join, workvars
  <2>4. Stored' = Stored /\ Chains'
    BY <1>0, <2>1, SameEntries DEF Chains
  <2>2. \A r \in Resources : HeldBy(r)' = HeldBy(r)
    BY <2>1, <2>4 DEF HeldBy
  <2>3. Pool' /\ joined' \in 0 .. created'
    BY <1>4, <2>1, PoolSize DEF Join, MoreToJoin, AllocInv, Pool, Workers
  <2> QED BY <2>1, <2>2, <2>3, <2>4 DEF AllocInv
<1>5. CASE Destroy
  <2>1. /\ main = "destroy" /\ main' = "exit"
        /\ UNCHANGED <<created, joined, pc>>
    BY <1>5 DEF Destroy, workvars
  <2>2. \A w \in Workers : pc[w] \in {"none", "done"}
    BY <2>1, PoolSize DEF AllocInv, Pool, Workers
  <2>3. \A r \in Resources : held'[r] = 0
    <3> SUFFICES ASSUME NEW r \in Resources PROVE held'[r] = 0
      OBVIOUS
    <3>0. /\ held'[r] = held[r] - (IF r \in {One("listenfd")} \cup skvs_destroy THEN 1 ELSE 0)
          /\ held[r] = HeldBy(r) /\ HeldBy(r) \in {0, 1}
      BY <1>5 DEF Destroy, Free, Hold, AllocInv, HeldBy
    <3>1. CASE \E w \in Workers : r = targs(w)
      <4>1. r \notin {One("listenfd")} \cup skvs_destroy
        BY <3>1, ArgsApart, EntriesApart, DestroyAll
      <4>2. HeldBy(r) = 0
        BY <3>1, <2>1, <2>2 DEF HeldBy
      <4>3. held'[r] = 0 - 0
        BY <3>0, <4>1, <4>2
      <4> QED BY <4>3
    <3>2. CASE \E e \in Entries : r \in Entry(e)
      <4>1. PICK e \in Entries : r \in Entry(e)
        BY <3>2
      <4>2. /\ r \notin Table \cup {One("listenfd")}
            /\ \A w \in Workers : r # targs(w)
            /\ \A f : r \in Entry(f) => f = e
        BY <4>1, EntriesApart
      <4>3. r \in {One("listenfd")} \cup skvs_destroy <=> e \in Stored
        BY <4>1, <4>2, DestroyAll
      <4>4. HeldBy(r) = IF e \in Stored THEN 1 ELSE 0
        BY <4>1, <4>2, <2>1 DEF HeldBy
      <4> QED BY <3>0, <4>3, <4>4
    <3>3. CASE r \in Table \cup {One("listenfd")}
      <4>1. r \in {One("listenfd")} \cup skvs_destroy
        BY <3>3, DestroyAll
      <4>2. (\A e : r \notin Entry(e)) /\ \A w \in Workers : r # targs(w)
        BY <3>3, EntriesApart, ArgsApart
      <4>3. HeldBy(r) = 1
        BY <4>2, <2>1 DEF HeldBy
      <4> QED BY <3>0, <4>1, <4>3
    <3> QED BY <3>1, <3>2, <3>3 DEF Resources
  <2>4. Chains'
    BY <1>5 DEF Destroy, Chains, Stored
  <2> QED BY <1>5, <2>1, <2>2, <2>3, <2>4 DEF AllocInv, Pool, HeldBy, Destroy, Free, Hold
<1> QED BY <1>1, <1>2, <1>3, <1>4, <1>5 DEF Main

LEMMA BeginAlloc ==
  ASSUME TypeOK, AllocInv, NEW w \in Workers, Begin(w)
  PROVE  AllocInv'
<1>1. main \in {"spawn", "join", "destroy"}
  BY DEF Begin, AllocInv, Pool
<1>2. Pool'
  BY <1>1, PoolSize DEF Begin, Goto, AllocInv, Pool, TypeOK, Workers
<1>4. Stored' = Stored /\ Chains'
  BY SameEntries DEF AllocInv, Begin, Chains
<1>3. \A r \in Resources : held'[r] = HeldBy(r)'
  <2> SUFFICES ASSUME NEW r \in Resources PROVE held'[r] = HeldBy(r)'
    OBVIOUS
  <2>1. CASE r = targs(w)
    <3>1. \A v \in Workers : r = targs(v) => v = w
      BY <2>1 DEF targs
    <3>3. \A e : r \notin Entry(e)
      BY <2>1, EntriesApart
    <3>2. HeldBy(r) = 1 /\ HeldBy(r)' = 0
      BY <1>1, <2>1, <3>1, <3>3 DEF HeldBy, Begin, Goto, TypeOK
    <3> QED BY <2>1, <3>2 DEF Begin, Free, Hold, AllocInv
  <2>2. CASE r # targs(w)
    <3>1. HeldBy(r)' = HeldBy(r)
      BY <1>1, <1>4, <2>2 DEF HeldBy, Begin, Goto, TypeOK
    <3>2. held[r] = HeldBy(r) /\ HeldBy(r) \in {0, 1}
      BY DEF AllocInv, HeldBy
    <3>3. held'[r] = held[r]
      BY <2>2, <3>2 DEF Begin, Free, Hold
    <3> QED BY <3>1, <3>2, <3>3
  <2> QED BY <2>1, <2>2
<1> QED BY <1>2, <1>3, <1>4 DEF AllocInv, Begin, Free, Hold

LEMMA NextAlloc ==
  ASSUME TypeOK, AllocInv, [Next]_vars
  PROVE  AllocInv'
<1>1. CASE Main
  BY <1>1, MainAlloc
<1>2. CASE handle_sigint
  BY <1>2, AllocSame DEF handle_sigint, workvars
<1>3. ASSUME NEW w \in Workers, Worker(w) PROVE AllocInv'
  <2>1. CASE Begin(w)
    BY <2>1, BeginAlloc
  <2>3. CASE Serve(w)
    BY <2>3, ServeAlloc
  <2>2. CASE ~ Begin(w) /\ ~ Serve(w)
    <3>1. UNCHANGED mainvars
      BY <1>3, <2>2
      DEF Worker, CheckOuter, Accept, AcceptTimeout, CheckSession, Recv, RecvEof,
          RecvError, RecvTimeout, ServeMore, Send, SendError, Close, mainvars
    <3>2. \E l : Goto(w, l) /\ l \notin {"none", "begin"}
      BY <1>3, <2>2
      DEF Worker, CheckOuter, Accept, AcceptTimeout, CheckSession, Recv, RecvEof,
          RecvError, RecvTimeout, ServeMore, Send, SendError, Close
    <3>3. pc[w] \notin {"none", "begin", "done"}
      BY <1>3, <2>2
      DEF Worker, CheckOuter, Accept, AcceptTimeout, CheckSession, Recv, RecvEof,
          RecvError, RecvTimeout, ServeMore, Send, SendError, Close
    <3> QED BY <3>1, <3>2, <3>3, WorkerGoes
  <2> QED BY <2>1, <2>2, <2>3
<1>4. ASSUME NEW c \in Clients, Client(c) PROVE AllocInv'
  BY <1>4, AllocSame
  DEF Client, Connect, SendRequest, ReadReply, Shut, Gone, workvars
<1>5. CASE UNCHANGED vars
  BY <1>5, AllocSame DEF vars, workvars
<1> QED BY <1>1, <1>2, <1>3, <1>4, <1>5 DEF Next

-----------------------------------------------------------------------------
(* Connections and requests                                                *)

\* Taking the first connection of a backlog without repetitions, and queueing one
\* that is not in it.
LEMMA TailQueue ==
  ASSUME NEW q \in Seq(Clients), q # <<>>,
         \A i, j \in 1 .. Len(q) : q[i] = q[j] => i = j
  PROVE  /\ Tail(q) \in Seq(Clients) /\ Len(Tail(q)) <= Len(q) /\ Head(q) \in Clients
         /\ \A i, j \in 1 .. Len(Tail(q)) : Tail(q)[i] = Tail(q)[j] => i = j
         /\ \A c \in Clients : (\E i \in 1 .. Len(Tail(q)) : Tail(q)[i] = c) <=>
                                (\E i \in 1 .. Len(q) : q[i] = c) /\ c # Head(q)
<1>1. /\ Tail(q) \in Seq(Clients) /\ Len(Tail(q)) = Len(q) - 1
      /\ Head(q) \in Clients /\ Head(q) = q[1] /\ Len(q) \in Nat \ {0}
      /\ \A i \in 1 .. Len(q) - 1 : Tail(q)[i] = q[i + 1]
  OBVIOUS
<1>2. \A i, j \in 1 .. Len(Tail(q)) : Tail(q)[i] = Tail(q)[j] => i = j
  BY <1>1
<1>3. ASSUME NEW c \in Clients
      PROVE  (\E i \in 1 .. Len(Tail(q)) : Tail(q)[i] = c) <=>
               (\E i \in 1 .. Len(q) : q[i] = c) /\ c # Head(q)
  <2>1. ASSUME NEW i \in 1 .. Len(Tail(q)), Tail(q)[i] = c
        PROVE  (\E k \in 1 .. Len(q) : q[k] = c) /\ c # Head(q)
    <3>1. i + 1 \in 1 .. Len(q) /\ q[i + 1] = c /\ 1 \in 1 .. Len(q) /\ i + 1 # 1
      BY <2>1, <1>1
    <3> QED BY <3>1, <1>1
  <2>2. ASSUME NEW i \in 1 .. Len(q), q[i] = c, c # Head(q)
        PROVE  \E k \in 1 .. Len(Tail(q)) : Tail(q)[k] = c
    <3>1. i - 1 \in 1 .. Len(Tail(q)) /\ Tail(q)[i - 1] = c
      BY <2>2, <1>1
    <3> QED BY <3>1
  <2> QED BY <2>1, <2>2
<1> QED BY <1>1, <1>2, <1>3

LEMMA AppendQueue ==
  ASSUME NEW q \in Seq(Clients), NEW c \in Clients,
         \A i, j \in 1 .. Len(q) : q[i] = q[j] => i = j,
         \A i \in 1 .. Len(q) : q[i] # c
  PROVE  /\ Append(q, c) \in Seq(Clients) /\ Len(Append(q, c)) = Len(q) + 1
         /\ \A i, j \in 1 .. Len(Append(q, c)) :
              Append(q, c)[i] = Append(q, c)[j] => i = j
         /\ \A d \in Clients : (\E i \in 1 .. Len(Append(q, c)) : Append(q, c)[i] = d)
                                <=> (\E i \in 1 .. Len(q) : q[i] = d) \/ d = c
<1>1. /\ Append(q, c) \in Seq(Clients) /\ Len(Append(q, c)) = Len(q) + 1
      /\ Len(q) \in Nat
      /\ \A i \in 1 .. Len(q) : Append(q, c)[i] = q[i]
      /\ Append(q, c)[Len(q) + 1] = c
  OBVIOUS
<1>2. \A i, j \in 1 .. Len(Append(q, c)) : Append(q, c)[i] = Append(q, c)[j] => i = j
  BY <1>1
<1>3. ASSUME NEW d \in Clients
      PROVE  (\E i \in 1 .. Len(Append(q, c)) : Append(q, c)[i] = d)
               <=> (\E i \in 1 .. Len(q) : q[i] = d) \/ d = c
  BY <1>1
<1> QED BY <1>1, <1>2, <1>3

LEMMA InitConn == Init => TypeOK /\ ConnInv
<1> SUFFICES ASSUME Init PROVE TypeOK /\ ConnInv
  OBVIOUS
<1>1. TypeOK
  <2>1. /\ held \in [Resources -> {0, 1}] /\ pc \in [Workers -> {"none"}]
        /\ buckets \in [Buckets -> SUBSET Entries]
    BY DEF Init
  <2>2. backlog \in Seq(Clients) /\ Len(backlog) = 0
    BY DEF Init
  <2>3. 0 \in 0 .. num_threads /\ 0 \in 0 .. BufSize /\ 0 <= Backlog
        /\ 0 \in 0 .. MaxLen /\ 0 \in 0 .. SockCap /\ 0 \in 0 .. 0
    BY PoolSize, SizesOK
  <2> QED BY <2>1, <2>2, <2>3 DEF Init, TypeOK
<1>2. ConnectionsOwned
  BY <1>1, NoClientIsNone DEF Init, ConnectionsOwned, InSession
<1> QED BY <1>1, <1>2 DEF Init, ConnInv, Framing, Untouched

Labels == {"none", "begin", "loop", "accept", "session", "recv", "serve", "send",
           "close", "done"}

\* What AllocInv says of the types, in the next state.
LEMMA MainTypes ==
  AllocInv' => /\ main' \in {"start", "listen", "spawn", "join", "destroy", "exit"}
               /\ created' \in 0 .. num_threads /\ joined' \in 0 .. created'
               /\ held' \in [Resources -> {0, 1}]
               /\ buckets' \in [Buckets -> SUBSET Entries]
<1>1. \A r \in Resources : HeldBy(r)' \in {0, 1}
  BY DEF HeldBy
<1> QED BY <1>1 DEF AllocInv, Chains

\* A worker goes on to l and neither the sockets nor the buffers change.
LEMMA OnlyLabel ==
  ASSUME TypeOK, ConnInv, AllocInv', g_shutdown' \in BOOLEAN,
         UNCHANGED <<conn, off, netvars>>,
         NEW w \in Workers, NEW l \in Labels, Goto(w, l),
         pc[w] \in {"session", "recv", "serve", "send", "close"}
           <=> l \in {"session", "recv", "serve", "send", "close"},
         l \in {"session", "recv", "serve", "send"}
           => pc[w] \in {"session", "recv", "serve", "send"},
         l \in {"session", "recv"} => off[w] < BufSize
  PROVE  TypeOK' /\ ConnInv'
<1>1. pc' \in [Workers -> Labels] /\ pc'[w] = l
      /\ \A v \in Workers \ {w} : pc'[v] = pc[v]
  BY DEF TypeOK, Goto, Labels
<1>2. TypeOK'
  BY <1>1, MainTypes DEF TypeOK, netvars, Labels
<1>3. \A v \in Workers : InSession(v)' <=> InSession(v)
  BY <1>1 DEF InSession
<1>4. ConnectionsOwned'
  BY <1>2, <1>3 DEF ConnInv, ConnectionsOwned, netvars
<1>5. Framing' /\ Untouched'
  BY <1>1 DEF ConnInv, Framing, Untouched, netvars
<1> QED BY <1>2, <1>4, <1>5 DEF ConnInv

\* Nothing that the sockets or the workers know of changes.
LEMMA ConnSame ==
  ASSUME TypeOK, ConnInv, AllocInv', g_shutdown' \in BOOLEAN,
         UNCHANGED <<workvars, netvars>>
  PROVE  TypeOK' /\ ConnInv'
<1>1. TypeOK'
  BY MainTypes DEF TypeOK, workvars, netvars
<1>2. ConnectionsOwned'
  BY <1>1 DEF ConnInv, ConnectionsOwned, InSession, workvars, netvars
<1>3. Framing' /\ Untouched'
  BY DEF ConnInv, Framing, Untouched, workvars, netvars
<1> QED BY <1>1, <1>2, <1>3 DEF ConnInv

LEMMA MainConn ==
  ASSUME TypeOK, AllocInv, ConnInv, AllocInv', Main
  PROVE  TypeOK' /\ ConnInv'
<1>0. g_shutdown' \in BOOLEAN
  BY DEF TypeOK, Main, SkvsInit, Listen, Spawn, Join, Destroy
<1>1. CASE SkvsInit \/ Listen \/ Join
  BY <1>0, <1>1, ConnSame DEF SkvsInit, Listen, Join
<1>2. CASE Spawn
  <2>1. CASE UNCHANGED pc
    BY <1>0, <1>2, <2>1, ConnSame DEF Spawn, workvars
  <2>2. CASE created < num_threads /\ pc' = [pc EXCEPT ![created] = "begin"]
    <3>1. created \in Workers /\ pc[created] = "none"
      BY <2>2, PoolSize DEF AllocInv, Pool, Workers
    <3> QED BY <1>0, <1>2, <2>2, <3>1, OnlyLabel DEF Spawn, Goto, Labels
  <2> QED BY <1>2, <2>1, <2>2 DEF Spawn
<1>3. CASE Destroy
  <2>1. TypeOK'
    <3>1. backlog' \in Seq(Clients) /\ Len(backlog') = 0
      BY <1>3 DEF Destroy
    <3>2. server' \in [Clients -> {"none", "queued", "open", "closed"}]
      BY <1>3 DEF Destroy, TypeOK
    <3> QED BY <1>0, <1>3, <3>1, <3>2, MainTypes, SizesOK
            DEF Destroy, TypeOK, workvars
  <2>2. /\ UNCHANGED <<workvars, reqlen, left>> /\ backlog' = <<>>
        /\ \A c \in Clients : /\ server'[c] # "queued"
                              /\ server'[c] = "open" <=> server[c] = "open"
                              /\ server'[c] = "none" <=> server[c] = "none"
    BY <1>3 DEF Destroy, TypeOK
  <2>3. ConnectionsOwned'
    BY <2>1, <2>2 DEF ConnInv, ConnectionsOwned, InSession, workvars
  <2>4. Framing' /\ Untouched'
    BY <2>2 DEF ConnInv, Framing, Untouched, workvars
  <2> QED BY <2>1, <2>3, <2>4 DEF ConnInv
<1> QED BY <1>1, <1>2, <1>3 DEF Main

\* The steps of a worker that move it only.
LEMMA LabelConn ==
  ASSUME TypeOK, ConnInv, AllocInv', NEW w \in Workers,
         \/ Begin(w) \/ CheckOuter(w) \/ AcceptTimeout(w) \/ CheckSession(w)
         \/ RecvEof(w) \/ RecvError(w) \/ RecvTimeout(w) \/ ServeMore(w)
         \/ Serve(w) \/ SendError(w)
  PROVE  TypeOK' /\ ConnInv'
<1>1. g_shutdown' \in BOOLEAN /\ UNCHANGED <<conn, off, netvars>>
  BY SizesOK
  DEF TypeOK, Begin, CheckOuter, AcceptTimeout, CheckSession, RecvEof, RecvError,
      RecvTimeout, ServeMore, Incomplete, Serve, SendError
<1>2. PICK l \in Labels : Goto(w, l)
  BY DEF Labels, Begin, CheckOuter, AcceptTimeout, CheckSession, RecvEof, RecvError,
         RecvTimeout, ServeMore, Serve, SendError
<1>3. l = pc'[w]
  BY <1>2 DEF Goto, TypeOK
<1>4. /\ pc[w] \in {"session", "recv", "serve", "send", "close"}
           <=> pc'[w] \in {"session", "recv", "serve", "send", "close"}
      /\ pc'[w] \in {"session", "recv", "serve", "send"}
           => pc[w] \in {"session", "recv", "serve", "send"}
      /\ pc'[w] \in {"session", "recv"} => off[w] < BufSize
  BY DEF TypeOK, Goto, ConnInv, Framing, Untouched, Begin, CheckOuter, AcceptTimeout,
         CheckSession, RecvEof, RecvError, RecvTimeout, ServeMore, Incomplete, Serve,
         SendError
<1> QED BY <1>1, <1>2, <1>3, <1>4, OnlyLabel

LEMMA AcceptConn ==
  ASSUME TypeOK, ConnInv, AllocInv', NEW w \in Workers, Accept(w)
  PROVE  TypeOK' /\ ConnInv'
<1> DEFINE c == Head(backlog)
<1>1. /\ c \in Clients /\ backlog' \in Seq(Clients) /\ Len(backlog') <= Backlog
      /\ \A i, j \in 1 .. Len(backlog') : backlog'[i] = backlog'[j] => i = j
      /\ \A d \in Clients : (\E i \in 1 .. Len(backlog') : backlog'[i] = d) <=>
                             (\E i \in 1 .. Len(backlog) : backlog[i] = d) /\ d # c
  <2>1. /\ backlog \in Seq(Clients) /\ backlog # <<>> /\ Len(backlog) <= Backlog
        /\ \A i, j \in 1 .. Len(backlog) : backlog[i] = backlog[j] => i = j
    BY DEF TypeOK, ConnInv, ConnectionsOwned, Accept
  <2>2. /\ Tail(backlog) \in Seq(Clients) /\ Len(Tail(backlog)) <= Len(backlog)
        /\ c \in Clients
        /\ \A i, j \in 1 .. Len(Tail(backlog)) :
             Tail(backlog)[i] = Tail(backlog)[j] => i = j
        /\ \A d \in Clients : (\E i \in 1 .. Len(Tail(backlog)) : Tail(backlog)[i] = d)
              <=> (\E i \in 1 .. Len(backlog) : backlog[i] = d) /\ d # c
    BY <2>1, TailQueue
  <2>3. Len(Tail(backlog)) <= Backlog
    BY <2>1, <2>2, SizesOK
  <2> QED BY <2>2, <2>3 DEF Accept
<1>2. server[c] = "queued"
  <2>1. 1 \in 1 .. Len(backlog) /\ backlog[1] = c
    BY DEF TypeOK, Accept
  <2> QED BY <1>1, <2>1 DEF ConnInv, ConnectionsOwned
<1>3. ~ InSession(w) /\ conn[w] = NoClient
  BY DEF Accept, InSession, ConnInv, ConnectionsOwned
<1>4. \A v \in Workers : conn[v] # c
  BY <1>1, <1>2 DEF ConnInv, ConnectionsOwned
<1>5. /\ pc' = [pc EXCEPT ![w] = "session"] /\ conn' = [conn EXCEPT ![w] = c]
      /\ off' = [off EXCEPT ![w] = 0] /\ server' = [server EXCEPT ![c] = "open"]
      /\ UNCHANGED <<client, reqlen, left, unread, g_shutdown>>
  BY DEF Accept, Goto
<1>6. TypeOK'
  <2>1. 0 \in 0 .. BufSize
    BY SizesOK
  <2> QED BY <1>1, <1>5, <2>1, MainTypes DEF TypeOK
<1>7. ConnectionsOwned'
  <2>1. \A v \in Workers : (InSession(v) <=> conn[v] # NoClient)'
    BY <1>1, <1>5, NoClientIsNone
    DEF InSession, TypeOK, ConnInv, ConnectionsOwned
  <2>2. \A u, v \in Workers : conn'[u] = conn'[v] /\ conn'[v] # NoClient => u = v
    BY <1>4, <1>5 DEF TypeOK, ConnInv, ConnectionsOwned
  <2>3. \A d \in Clients : server'[d] = "open" <=> \E v \in Workers : conn'[v] = d
    BY <1>1, <1>3, <1>4, <1>5, NoClientIsNone
    DEF TypeOK, ConnInv, ConnectionsOwned
  <2>4. \A d \in Clients :
          server'[d] = "queued" <=> \E i \in 1 .. Len(backlog') : backlog'[i] = d
    <3>1. \A d \in Clients :
            server[d] = "queued" <=> \E i \in 1 .. Len(backlog) : backlog[i] = d
      BY DEF ConnInv, ConnectionsOwned
    <3>2. \A d \in Clients : server'[d] = "queued" <=> server[d] = "queued" /\ d # c
      BY <1>5 DEF TypeOK
    <3> QED BY <3>1, <3>2, <1>1, ZenonT(30)
  <2> QED BY <1>1, <1>6, <2>1, <2>2, <2>3, <2>4 DEF ConnectionsOwned
<1>8. Framing' /\ Untouched'
  <2>1. left[c] = reqlen[c]
    BY <1>1, <1>2 DEF ConnInv, Untouched
  <2>2. \A v \in Workers \ {w} :
          pc'[v] = pc[v] /\ conn'[v] = conn[v] /\ off'[v] = off[v]
    BY <1>5 DEF TypeOK
  <2>3. pc'[w] = "session" /\ conn'[w] = c /\ off'[w] = 0
    BY <1>5 DEF TypeOK
  <2>4. 0 + left[c] = left[c] /\ 0 < BufSize
    BY <1>1, SizesOK DEF TypeOK
  <2>5. Framing'
    BY <1>5, <2>1, <2>2, <2>3, <2>4 DEF ConnInv, Framing
  <2>6. Untouched'
    BY <1>1, <1>5, <2>2, <2>3, <2>4 DEF ConnInv, Untouched, TypeOK
  <2> QED BY <2>5, <2>6
<1> QED BY <1>6, <1>7, <1>8 DEF ConnInv

\* Bytes move from the socket to the buffer, or a reply is counted and the buffer
\* emptied, between two steps of a session: its connection stays.
LEMMA SessionConn ==
  ASSUME TypeOK, ConnInv, AllocInv', NEW w \in Workers, Recv(w) \/ Send(w)
  PROVE  TypeOK' /\ ConnInv'
<1> DEFINE c == conn[w]
<1>1. /\ c \in Clients /\ server[c] = "open"
      /\ \A v \in Workers \ {w} : conn[v] # c
      /\ off[w] + left[c] = reqlen[c]
  <2>1. pc[w] \in {"recv", "send"}
    BY DEF Recv, Send
  <2>2. InSession(w) /\ c \in Clients
    BY <2>1 DEF InSession, TypeOK, ConnInv, ConnectionsOwned
  <2> QED BY <2>1, <2>2, NoClientIsNone DEF ConnInv, ConnectionsOwned, Framing, TypeOK
<1>2. /\ UNCHANGED <<conn, backlog, client, server, g_shutdown>>
      /\ \E l \in {"serve", "session"} : pc' = [pc EXCEPT ![w] = l]
  BY DEF Recv, Send, Goto
<1>3. /\ off' \in [Workers -> 0 .. BufSize] /\ left' \in [Clients -> 0 .. MaxLen]
      /\ reqlen' \in [Clients -> 0 .. MaxLen] /\ unread' \in [Clients -> 0 .. SockCap]
      /\ off'[w] + left'[c] = reqlen'[c] 
      /\ pc'[w] = "session" => off'[w] < BufSize
      /\ \A v \in Workers \ {w} : off'[v] = off[v]
      /\ \A d \in Clients \ {c} : left'[d] = left[d] /\ reqlen'[d] = reqlen[d]
  <2>1. CASE Recv(w)
    <3>1. PICK n \in 1 .. BufSize - off[w] :
            /\ n <= left[c]
            /\ off' = [off EXCEPT ![w] = @ + n]
            /\ left' = [left EXCEPT ![c] = @ - n]
      BY <2>1 DEF Recv, Room
    <3>2. off[w] + n \in 0 .. BufSize /\ left[c] - n \in 0 .. MaxLen
      BY <1>1, <3>1, SizesOK DEF TypeOK
    <3>3. off'[w] = off[w] + n /\ left'[c] = left[c] - n
      BY <1>1, <3>1 DEF TypeOK
    <3>4. pc'[w] = "serve" /\ UNCHANGED <<reqlen, unread>>
      BY <2>1 DEF Recv, Goto, TypeOK
    <3>5. off'[w] + left'[c] = reqlen'[c]
      BY <1>1, <3>1, <3>3, <3>4, SizesOK DEF TypeOK
    <3> QED BY <1>1, <3>1, <3>2, <3>4, <3>5 DEF TypeOK
  <2>2. CASE Send(w)
    <3>1. /\ unread' = [unread EXCEPT ![c] = @ + 1] /\ unread[c] < SockCap
          /\ reqlen' = [reqlen EXCEPT ![c] = left[c]]
          /\ off' = [off EXCEPT ![w] = 0] /\ UNCHANGED left
      BY <2>2 DEF Send, ResetOff
    <3>2. unread[c] + 1 \in 0 .. SockCap /\ 0 \in 0 .. BufSize /\ 0 < BufSize
      BY <1>1, <3>1, SizesOK DEF TypeOK
    <3>3. off'[w] = 0 /\ reqlen'[c] = left'[c] /\ left'[c] \in Nat
      BY <1>1, <3>1, SizesOK DEF TypeOK
    <3> QED BY <1>1, <3>1, <3>2, <3>3 DEF TypeOK
  <2> QED BY <2>1, <2>2
<1>4. TypeOK'
  <2>1. pc' \in [Workers -> Labels]
    BY <1>2 DEF TypeOK, Labels
  <2> QED BY <1>2, <1>3, <2>1, MainTypes DEF TypeOK, Labels
<1>5. \A v \in Workers : InSession(v)' <=> InSession(v)
  BY <1>2 DEF Recv, Send, InSession, TypeOK
<1>6. ConnectionsOwned'
  BY <1>2, <1>4, <1>5 DEF ConnInv, ConnectionsOwned
<1>7. Framing' /\ Untouched'
  <2>1. \A v \in Workers \ {w} : pc'[v] = pc[v]
    BY <1>2 DEF TypeOK
  <2>2. pc'[w] \in {"serve", "session"}
    BY <1>2 DEF TypeOK
  <2>3. Framing'
    <3> SUFFICES ASSUME NEW v \in Workers
                 PROVE  (/\ pc[v] \in {"session", "recv", "serve", "send"} =>
                              off[v] + left[conn[v]] = reqlen[conn[v]]
                         /\ pc[v] = "recv" => off[v] < BufSize)'
      BY DEF Framing
    <3>1. CASE v = w
      BY <3>1, <1>2, <1>3, <2>2
    <3>2. CASE v # w
      <4>1. pc[v] \in {"session", "recv", "serve", "send"} => conn[v] \in Clients \ {c}
        BY <3>2, <1>1 DEF ConnInv, ConnectionsOwned, InSession, TypeOK
      <4> QED BY <3>2, <4>1, <1>2, <1>3, <2>1 DEF ConnInv, Framing
    <3> QED BY <3>1, <3>2
  <2>4. Untouched'
    BY <1>1, <1>2, <1>3, <2>1, <2>2 DEF ConnInv, Untouched
  <2> QED BY <2>3, <2>4
<1> QED BY <1>4, <1>6, <1>7 DEF ConnInv

LEMMA CloseConn ==
  ASSUME TypeOK, ConnInv, AllocInv', NEW w \in Workers, Close(w)
  PROVE  TypeOK' /\ ConnInv'
<1> DEFINE c == conn[w]
<1>1. /\ c \in Clients /\ server[c] = "open"
      /\ \A v \in Workers \ {w} : conn[v] # c
  <2>1. InSession(w) /\ c \in Clients
    BY DEF Close, InSession, TypeOK, ConnInv, ConnectionsOwned
  <2> QED BY <2>1, NoClientIsNone DEF ConnInv, ConnectionsOwned
<1>2. /\ pc' = [pc EXCEPT ![w] = "loop"] /\ conn' = [conn EXCEPT ![w] = NoClient]
      /\ server' = [server EXCEPT ![c] = "closed"]
      /\ reqlen' = [reqlen EXCEPT ![c] = 0] /\ left' = [left EXCEPT ![c] = 0]
      /\ UNCHANGED <<off, backlog, client, unread, g_shutdown>>
  BY DEF Close, Goto
<1>3. TypeOK'
  <2>0. reqlen' \in [Clients -> 0 .. MaxLen] /\ left' \in [Clients -> 0 .. MaxLen]
    <3>1. 0 \in 0 .. MaxLen
      BY SizesOK
    <3> QED BY <1>1, <1>2, <3>1 DEF TypeOK
  <2>1. /\ pc' \in [Workers -> Labels] /\ conn' \in [Workers -> Clients \cup {NoClient}]
        /\ server' \in [Clients -> {"none", "queued", "open", "closed"}]
    BY <1>2 DEF TypeOK, Labels
  <2> QED BY <1>2, <2>0, <2>1, MainTypes DEF TypeOK, Labels
<1>4. ConnectionsOwned'
  <2>1. \A v \in Workers : (InSession(v) <=> conn[v] # NoClient)'
    BY <1>2 DEF InSession, TypeOK, ConnInv, ConnectionsOwned
  <2>2. \A u, v \in Workers : conn'[u] = conn'[v] /\ conn'[v] # NoClient => u = v
    BY <1>2 DEF TypeOK, ConnInv, ConnectionsOwned
  <2>3. \A d \in Clients : server'[d] = "open" <=> \E v \in Workers : conn'[v] = d
    BY <1>1, <1>2, NoClientIsNone DEF TypeOK, ConnInv, ConnectionsOwned
  <2>4. \A d \in Clients :
          server'[d] = "queued" <=> \E i \in 1 .. Len(backlog') : backlog'[i] = d
    <3>1. \A d \in Clients :
            server[d] = "queued" <=> \E i \in 1 .. Len(backlog) : backlog[i] = d
      BY DEF ConnInv, ConnectionsOwned
    <3>2. \A d \in Clients : server'[d] = "queued" <=> server[d] = "queued"
      BY <1>1, <1>2 DEF TypeOK
    <3> QED BY <3>1, <3>2, <1>2, ZenonT(30)
  <2> QED BY <1>2, <1>3, <2>1, <2>2, <2>3, <2>4 DEF ConnInv, ConnectionsOwned
<1>5. Framing'
  <2>1. \A v \in Workers : pc'[v] \in {"session", "recv", "serve", "send"} =>
          pc'[v] = pc[v] /\ conn'[v] = conn[v] /\ conn[v] \in Clients \ {c}
    BY <1>1, <1>2 DEF TypeOK, ConnInv, ConnectionsOwned, InSession
  <2> QED BY <1>2, <2>1 DEF TypeOK, ConnInv, Framing
<1>6. Untouched'
  BY <1>1, <1>2 DEF TypeOK, ConnInv, Untouched
<1> QED BY <1>3, <1>4, <1>5, <1>6 DEF ConnInv

\* A client connects, sends, reads or leaves; a worker notices later.
LEMMA ClientConn ==
  ASSUME TypeOK, ConnInv, AllocInv', NEW c \in Clients, Client(c)
  PROVE  TypeOK' /\ ConnInv'
<1>0. UNCHANGED <<workvars, g_shutdown>>
  BY DEF Client, Connect, SendRequest, ReadReply, Shut, Gone
<1>1. CASE Connect(c)
  <2>1. /\ client[c] = "away" /\ server[c] = "none" /\ Len(backlog) < Backlog
        /\ client' = [client EXCEPT ![c] = "up"]
        /\ server' = [server EXCEPT ![c] = "queued"]
        /\ backlog' = Append(backlog, c)
        /\ UNCHANGED <<reqlen, left, unread>>
    BY <1>1 DEF Connect
  <2>2. /\ backlog \in Seq(Clients)
        /\ \A i, j \in 1 .. Len(backlog) : backlog[i] = backlog[j] => i = j
        /\ \A i \in 1 .. Len(backlog) : backlog[i] # c
    BY <2>1 DEF TypeOK, ConnInv, ConnectionsOwned
  <2>3. /\ backlog' \in Seq(Clients) /\ Len(backlog') = Len(backlog) + 1
        /\ \A i, j \in 1 .. Len(backlog') : backlog'[i] = backlog'[j] => i = j
        /\ \A d \in Clients : (\E i \in 1 .. Len(backlog') : backlog'[i] = d)
                               <=> (\E i \in 1 .. Len(backlog) : backlog[i] = d) \/ d = c
    <3> DEFINE q == Append(backlog, c)
    <3>1. /\ q \in Seq(Clients) /\ Len(q) = Len(backlog) + 1
          /\ \A i, j \in 1 .. Len(q) : q[i] = q[j] => i = j
          /\ \A d \in Clients : (\E i \in 1 .. Len(q) : q[i] = d)
                                 <=> (\E i \in 1 .. Len(backlog) : backlog[i] = d) \/ d = c
      BY ONLY <2>2, c \in Clients, AppendQueue
    <3>2. backlog' = q
      BY <2>1
    <3> HIDE DEF q
    <3> QED BY ONLY <3>1, <3>2
  <2>4. Len(backlog') <= Backlog
    BY <2>1, <2>2, <2>3, SizesOK
  <2>5. TypeOK'
    <3>1. /\ client' \in [Clients -> {"away", "up", "shut"}]
          /\ server' \in [Clients -> {"none", "queued", "open", "closed"}]
      BY <2>1 DEF TypeOK
    <3> QED BY <1>0, <2>1, <2>3, <2>4, <3>1, MainTypes DEF TypeOK, workvars
  <2>6. ConnectionsOwned'
    <3>1. \A d \in Clients :
            server'[d] = "queued" <=> \E i \in 1 .. Len(backlog') : backlog'[i] = d
      <4>1. \A d \in Clients :
              server[d] = "queued" <=> \E i \in 1 .. Len(backlog) : backlog[i] = d
        BY DEF ConnInv, ConnectionsOwned
      <4>2. \A d \in Clients : server'[d] = "queued" <=> server[d] = "queued" \/ d = c
        BY <2>1 DEF TypeOK
      <4> QED BY <4>1, <4>2, <2>3, ZenonT(30)
    <3>2. \A d \in Clients : server'[d] = "open" <=> server[d] = "open"
      BY <2>1 DEF TypeOK
    <3> QED BY <1>0, <2>3, <2>5, <3>1, <3>2
            DEF ConnInv, ConnectionsOwned, InSession, workvars
  <2>7. Framing' /\ Untouched'
    BY <1>0, <2>1 DEF TypeOK, ConnInv, Framing, Untouched, workvars
  <2> QED BY <2>5, <2>6, <2>7 DEF ConnInv
<1>2. CASE SendRequest(c)
  <2>1. PICK n \in 1 .. MaxLen :
          /\ reqlen' = [reqlen EXCEPT ![c] = n] /\ left' = [left EXCEPT ![c] = n]
    BY <1>2 DEF SendRequest
  <2>2. /\ server[c] \in {"queued", "open"} /\ reqlen[c] = 0
        /\ UNCHANGED <<backlog, client, server, unread>>
    BY <1>2 DEF SendRequest
  <2>3. TypeOK'
    <3>1. /\ reqlen' \in [Clients -> 0 .. MaxLen] /\ left' \in [Clients -> 0 .. MaxLen]
      BY <2>1, SizesOK DEF TypeOK
    <3> QED BY <1>0, <2>2, <3>1, MainTypes DEF TypeOK, workvars
  <2>4. ConnectionsOwned'
    BY <1>0, <2>2, <2>3 DEF ConnInv, ConnectionsOwned, InSession, workvars
  <2>5. Framing'
    <3> SUFFICES ASSUME NEW w \in Workers
                 PROVE  (/\ pc[w] \in {"session", "recv", "serve", "send"} =>
                              off[w] + left[conn[w]] = reqlen[conn[w]]
                         /\ pc[w] = "recv" => off[w] < BufSize)'
      BY DEF Framing
    <3>1. CASE pc[w] \in {"session", "recv", "serve", "send"} /\ conn[w] = c
      <4>1. off[w] + left[c] = 0 /\ off[w] \in Nat /\ left[c] \in Nat
        BY <3>1, <2>2, SizesOK DEF ConnInv, Framing, TypeOK
      <4>2. off[w] = 0
        BY <4>1
      <4>3. left'[c] = n /\ reqlen'[c] = n /\ 0 + n = n
        BY <2>1 DEF TypeOK
      <4> QED BY <1>0, <3>1, <4>2, <4>3 DEF ConnInv, Framing, workvars
    <3>2. CASE ~ (pc[w] \in {"session", "recv", "serve", "send"} /\ conn[w] = c)
      <4>1. pc[w] \in {"session", "recv", "serve", "send"} => conn[w] \in Clients
        BY DEF ConnInv, ConnectionsOwned, InSession, TypeOK
      <4> QED BY <1>0, <2>1, <3>2, <4>1 DEF ConnInv, Framing, TypeOK, workvars
    <3> QED BY <3>1, <3>2
  <2>6. Untouched'
    BY <1>0, <2>1, <2>2 DEF ConnInv, Untouched, TypeOK, workvars
  <2> QED BY <2>3, <2>4, <2>5, <2>6 DEF ConnInv
<1>3. CASE ReadReply(c) \/ Shut(c)
  <2>1. UNCHANGED <<backlog, server, reqlen, left>>
    BY <1>3 DEF ReadReply, Shut
  <2>2. /\ client' \in [Clients -> {"away", "up", "shut"}]
        /\ unread' \in [Clients -> 0 .. SockCap]
    <3>1. CASE ReadReply(c)
      <4>1. unread[c] - 1 \in 0 .. SockCap
        BY <3>1, SizesOK DEF ReadReply, TypeOK
      <4> QED BY <3>1, <4>1 DEF ReadReply, TypeOK
    <3>2. CASE Shut(c)
      <4>1. 0 \in 0 .. SockCap
        BY SizesOK
      <4> QED BY <3>2, <4>1 DEF Shut, TypeOK
    <3> QED BY <1>3, <3>1, <3>2
  <2>3. TypeOK'
    BY <1>0, <2>1, <2>2, MainTypes DEF TypeOK, workvars
  <2>4. ConnectionsOwned'
    BY <1>0, <2>1, <2>3 DEF ConnInv, ConnectionsOwned, InSession, workvars
  <2>5. Framing' /\ Untouched'
    BY <1>0, <2>1 DEF ConnInv, Framing, Untouched, workvars
  <2> QED BY <2>3, <2>4, <2>5 DEF ConnInv
<1>4. CASE Gone(c)
  <2>1. /\ server[c] = "closed" /\ server' = [server EXCEPT ![c] = "none"]
        /\ reqlen' = [reqlen EXCEPT ![c] = 0] /\ left' = [left EXCEPT ![c] = 0]
        /\ UNCHANGED backlog
    BY <1>4 DEF Gone
  <2>2. TypeOK'
    <3>1. /\ client' \in [Clients -> {"away", "up", "shut"}]
          /\ server' \in [Clients -> {"none", "queued", "open", "closed"}]
          /\ reqlen' \in [Clients -> 0 .. MaxLen] /\ left' \in [Clients -> 0 .. MaxLen]
          /\ unread' \in [Clients -> 0 .. SockCap]
      BY <1>4, SizesOK DEF Gone, TypeOK
    <3> QED BY <1>0, <2>1, <3>1, MainTypes DEF TypeOK, workvars
  <2>3. ConnectionsOwned'
    <3>1. \A d \in Clients : /\ server'[d] = "open" <=> server[d] = "open"
                             /\ server'[d] = "queued" <=> server[d] = "queued"
      BY <2>1 DEF TypeOK
    <3> QED BY <1>0, <2>1, <2>2, <3>1
            DEF ConnInv, ConnectionsOwned, InSession, workvars
  <2>4. \A w \in Workers : conn[w] # c
    BY <2>1 DEF ConnInv, ConnectionsOwned
  <2>5. Framing'
    <3>1. \A w \in Workers : pc[w] \in {"session", "recv", "serve", "send"} =>
                               conn[w] \in Clients \ {c}
      BY <2>4 DEF ConnInv, ConnectionsOwned, InSession, TypeOK
    <3> QED BY <1>0, <2>1, <3>1 DEF ConnInv, Framing, TypeOK, workvars
  <2>6. Untouched'
    BY <1>0, <2>1 DEF TypeOK, ConnInv, Untouched, workvars
  <2> QED BY <2>2, <2>3, <2>5, <2>6 DEF ConnInv
<1> QED BY <1>1, <1>2, <1>3, <1>4 DEF Client

LEMMA NextConn ==
  ASSUME TypeOK, AllocInv, ConnInv, AllocInv', [Next]_vars
  PROVE  TypeOK' /\ ConnInv'
<1>1. CASE Main
  BY <1>1, MainConn
<1>2. CASE handle_sigint
  BY <1>2, ConnSame DEF handle_sigint
<1>3. ASSUME NEW w \in Workers, Worker(w) PROVE TypeOK' /\ ConnInv'
  BY <1>3, LabelConn, AcceptConn, SessionConn, CloseConn DEF Worker
<1>4. ASSUME NEW c \in Clients, Client(c) PROVE TypeOK' /\ ConnInv'
  BY <1>4, ClientConn
<1>5. CASE UNCHANGED vars
  BY <1>5, ConnSame DEF vars, TypeOK
<1> QED BY <1>1, <1>2, <1>3, <1>4, <1>5 DEF Next

-----------------------------------------------------------------------------
(* The theorems                                                            *)

IInv == TypeOK /\ AllocInv /\ ConnInv

THEOREM Invariance == Spec => []IInv
<1>1. Init => IInv
  BY InitAlloc, InitConn DEF IInv
<1>2. IInv /\ [Next]_vars => IInv'
  BY NextAlloc, NextConn DEF IInv
<1> QED BY <1>1, <1>2, PTL DEF Spec

\* The table lives as long as any worker runs, and at every way out of main
\* everything allocated has been freed, once: the arguments of the workers, the
\* context, the table, its arrays and locks, and the key, the value and the node of
\* each entry that was left in the table or deleted from it before.  This holds for
\* any number of workers, buckets and entries, whichever allocation, lock, socket or
\* thread fails and wherever SIGINT comes.
THEOREM TableSafe == Spec => []TableAlive
<1>1. IInv => TableAlive
  <2> SUFFICES ASSUME IInv PROVE TableAlive
    OBVIOUS
  <2>1. ASSUME NEW w \in Workers, pc[w] \notin {"none", "done"}, NEW r \in Table
        PROVE  held[r] = 1
    <3>1. main \in {"spawn", "join", "destroy"}
      BY <2>1 DEF IInv, AllocInv, Pool
    <3>2. r \in Resources
      BY DEF Resources
    <3> QED BY <2>1, <3>1, <3>2, ArgsApart, EntriesApart DEF IInv, AllocInv, HeldBy
  <2>2. ASSUME NEW r \in Resources
        PROVE  held[r] \in IF main = "exit" THEN {0} ELSE {0, 1}
    BY DEF IInv, AllocInv, HeldBy
  <2> QED BY <2>1, <2>2 DEF TableAlive
<1> QED BY <1>1, Invariance, PTL

\* No connection is leaked or shared between workers, and none is queued twice, over
\* any number of workers and clients that come, leave and come back.
THEOREM ConnectionsSafe == Spec => []ConnectionsOwned
  BY Invariance, PTL DEF IInv, ConnInv

\* The bytes in a worker's buffer and those on their way make up the one request that
\* is not answered, and recv always has room, for every size of the buffer.
THEOREM FramingSafe == Spec => []Framing
  BY Invariance, PTL DEF IInv, ConnInv
=============================================================================
