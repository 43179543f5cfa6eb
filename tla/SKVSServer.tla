----------------------------- MODULE SKVSServer -----------------------------
(***************************************************************************)
(* The SKVS server of lab 5 (server.c): main, which builds the table and   *)
(* the worker pool, joins the workers and destroys the table; the workers, *)
(* which accept connections and serve one request after another; SIGINT;   *)
(* and the clients at the other end of the sockets.                        *)
(*                                                                         *)
(* Bytes are counted, not read: a request is a number of bytes, the last   *)
(* of which is its line feed.  What a request asks for is SKVSLib and      *)
(* HashTable; here skvs_serve is one step, which may add an entry to the   *)
(* table or take one away.  Memory is counted, down to the key, the value  *)
(* and the node of each entry.                                             *)
(***************************************************************************)
EXTENDS Integers, Sequences, FiniteSets

CONSTANTS num_threads,  \* the size of the pool
          hash_size,    \* buckets of the table, each with a lock
          Entries,      \* entries the table may hold, with different keys
          hash,         \* of each of them: the bucket of its key
          Clients,
          BufSize,      \* BUF_SIZE
          Backlog,      \* NUM_BACKLOG
          MaxLen,       \* the longest request a client sends
          SockCap,      \* replies a socket holds while its client does not read
          NoClient

ASSUME PoolSize == num_threads \in Nat \ {0} /\ hash_size \in Nat \ {0}
ASSUME SizesOK == BufSize \in Nat \ {0} /\ Backlog \in Nat \ {0}
                  /\ MaxLen \in Nat \ {0} /\ SockCap \in Nat \ {0}
ASSUME HashKnown == hash \in [Entries -> 0 .. hash_size - 1]
ASSUME NoClientIsNone == NoClient \notin Clients

VARIABLES main,        \* where main is
          created,     \* workers started by pthread_create
          joined,      \* workers joined so far
          held,        \* for each resource, allocations less frees
          buckets,     \* the entries on the chain of each bucket
          g_shutdown,
          pc, conn, off,   \* of each worker: where it is, connfd, bytes in rbuf
          backlog,     \* connections the kernel has queued on listenfd
          client,      \* the client's end: "away", "up" or "shut"
          server,      \* the server's end: "none", "queued", "open" or "closed"
          reqlen,      \* bytes of the client's unanswered request, 0 if none
          left,        \* those of them the server has not received yet
          unread       \* replies in the socket that the client has not read

mainvars == <<main, created, joined, held, buckets>>
workvars == <<pc, conn, off>>
netvars  == <<backlog, client, server, reqlen, left, unread>>
vars == <<mainvars, g_shutdown, workvars, netvars>>

Workers == 0 .. num_threads - 1
Buckets == 0 .. hash_size - 1

\* What has to be freed, with the number of its bucket or worker, or its entry.
One(name)  == [part |-> name, no |-> 0]
Lock(i)    == {[part |-> p, no |-> i] : p \in {"uctx", "mutex", "cond"}}
Locks(n)   == UNION {Lock(i) : i \in 0 .. n - 1}
Arrays     == {One("buckets"), One("locks"), One("bucket_sizes")}
Table      == {One("ctx"), One("table")} \cup Arrays \cup Locks(hash_size)
Entry(e)   == {[part |-> p, no |-> e] : p \in {"node", "key", "value"}}
targs(w)   == [part |-> "targs", no |-> w]
Resources  == Table \cup {One("listenfd")} \cup {targs(w) : w \in Workers}
                \cup UNION {Entry(e) : e \in Entries}

\* The entries of the table.
Stored == UNION {buckets[b] : b \in Buckets}

Hold(made, freed) ==
  LET In(r, S) == IF r \in S THEN 1 ELSE 0 IN
  held' = [r \in Resources |-> held[r] + In(r, made) - In(r, freed)]
Free(freed) == Hold({}, freed)

Init ==
  /\ main = "start"
  /\ created = 0 /\ joined = 0
  /\ held = [r \in Resources |-> 0]
  /\ buckets = [b \in Buckets |-> {}]
  /\ g_shutdown = FALSE
  /\ pc = [w \in Workers |-> "none"]
  /\ conn = [w \in Workers |-> NoClient]
  /\ off = [w \in Workers |-> 0]
  /\ backlog = <<>>
  /\ client = [c \in Clients |-> "away"]
  /\ server = [c \in Clients |-> "none"]
  /\ reqlen = [c \in Clients |-> 0]
  /\ left = [c \in Clients |-> 0]
  /\ unread = [c \in Clients |-> 0]

-----------------------------------------------------------------------------
(* main.  The SIGINT handler is installed before the first of these steps. *)

\* When, in skvs_init, hash_init and the calls of rwlock_init, r is allocated.
InitOrder(r) ==
  CASE r.part = "ctx"          -> 0
    [] r.part = "table"        -> 1
    [] r.part = "buckets"      -> 2
    [] r.part = "locks"        -> 3
    [] r.part = "bucket_sizes" -> 4
    [] r.part = "uctx"         -> 5 + 3 * r.no
    [] r.part = "mutex"        -> 6 + 3 * r.no
    [] r.part = "cond"         -> 7 + 3 * r.no

\* What each of them frees again when it cannot have r.
rwlock_undo(r) ==
  CASE r.part = "mutex" -> {[r EXCEPT !.part = "uctx"]}
    [] r.part = "cond"  -> {[r EXCEPT !.part = "uctx"], [r EXCEPT !.part = "mutex"]}
    [] OTHER -> {}

\* MUTANT of hash_undo: the locks made so far are not destroyed.
hash_undoNoLocks(r) ==
  CASE r.part \in {"ctx", "table"} -> {}
    [] r.part = "buckets"      -> {One("table")}
    [] r.part = "locks"        -> {One("table"), One("buckets")}
    [] r.part = "bucket_sizes" -> {One("table"), One("buckets"), One("locks")}
    [] OTHER -> {One("table")} \cup Arrays

hash_undo(r) ==
  CASE r.part \in {"ctx", "table"} -> {}
    [] r.part = "buckets"      -> {One("table")}
    [] r.part = "locks"        -> {One("table"), One("buckets")}
    [] r.part = "bucket_sizes" -> {One("table"), One("buckets"), One("locks")}
    [] OTHER -> {One("table")} \cup Arrays \cup Locks(r.no)

skvs_undo(r) == IF r.part = "ctx" THEN {} ELSE {One("ctx")}

\* MUTANT of hash_destroy: the values of the entries are not freed.
hash_destroyValues ==
  Locks(hash_size) \cup Arrays \cup {One("table")}
    \cup UNION {Entry(e) \ {[part |-> "value", no |-> e]} : e \in Stored}

\* The key, value and node of every entry of a bucket, and its lock, bucket by
\* bucket, and the arrays.
hash_destroy ==
  Locks(hash_size) \cup Arrays \cup {One("table")}
    \cup UNION {Entry(e) : e \in Stored}
skvs_destroy == hash_destroy \cup {One("ctx")}

SkvsInit ==
  /\ main = "start"
  /\ \/ main' = "listen" /\ Hold(Table, {})
     \/ \E r \in Table :                                          \* r cannot be had
          /\ main' = "exit"
          /\ Hold({s \in Table : InitOrder(s) < InitOrder(r)},
                  rwlock_undo(r) \cup hash_undo(r) \cup skvs_undo(r))
  /\ UNCHANGED <<created, joined, buckets, g_shutdown, workvars, netvars>>

\* socket, bind and listen; a failure closes, destroys the table and exits.
Listen ==
  /\ main = "listen"
  /\ \/ main' = "spawn" /\ Hold({One("listenfd")}, {})
     \/ main' = "exit" /\ Free(skvs_destroy)                    \* no socket
     \/ main' = "exit" /\ Hold({One("listenfd")}, {One("listenfd")} \cup skvs_destroy)
  /\ UNCHANGED <<created, joined, buckets, g_shutdown, workvars, netvars>>

\* One turn of the loop that creates the pool: malloc of the arguments, then
\* pthread_create.  A failure ends the loop and leaves the workers created so far.
Spawn ==
  /\ main = "spawn" /\ created < num_threads
  /\ \/ /\ created' = created + 1
        /\ pc' = [pc EXCEPT ![created] = "begin"]
        /\ Hold({targs(created)}, {})
        /\ main' = IF created + 1 < num_threads THEN "spawn" ELSE "join"
     \/ /\ main' = "join"                                           \* no thread
        /\ Hold({targs(created)}, {targs(created)})
        /\ UNCHANGED <<created, pc>>
     \/ /\ main' = "join"                                           \* no memory
        /\ UNCHANGED <<created, held, pc>>
  /\ UNCHANGED <<joined, buckets, g_shutdown, conn, off, netvars>>

\* MUTANT of MoreToJoin: the join loop stops one worker early.
MoreToJoinShort == joined + 1 < created

MoreToJoin == joined < created

Join ==
  /\ main = "join"
  /\ IF MoreToJoin
     THEN /\ pc[joined] = "done"
          /\ joined' = joined + 1
          /\ UNCHANGED main
     ELSE /\ main' = "destroy"
          /\ UNCHANGED joined
  /\ UNCHANGED <<created, held, buckets, g_shutdown, workvars, netvars>>

\* close(listenfd), which drops the connections nobody accepted, hash_dump and
\* skvs_destroy.
Destroy ==
  /\ main = "destroy"
  /\ main' = "exit"
  /\ Free({One("listenfd")} \cup skvs_destroy)
  /\ buckets' = [b \in Buckets |-> {}]
  /\ backlog' = <<>>
  /\ server' = [c \in Clients |->
                  IF server[c] = "queued" THEN "closed" ELSE server[c]]
  /\ UNCHANGED <<created, joined, g_shutdown, workvars,
                 client, reqlen, left, unread>>

handle_sigint ==
  /\ main # "exit" /\ ~ g_shutdown
  /\ g_shutdown' = TRUE
  /\ UNCHANGED <<mainvars, workvars, netvars>>

-----------------------------------------------------------------------------
(* A worker *)

Goto(w, l) == pc' = [pc EXCEPT ![w] = l]

\* The worker copies its arguments and frees them.
Begin(w) ==
  /\ pc[w] = "begin"
  /\ Free({targs(w)})
  /\ Goto(w, "loop")
  /\ UNCHANGED <<main, created, joined, buckets, g_shutdown, conn, off, netvars>>

\* while (!g_shutdown), the outer loop
CheckOuter(w) ==
  /\ pc[w] = "loop"
  /\ Goto(w, IF g_shutdown THEN "done" ELSE "accept")
  /\ UNCHANGED <<mainvars, g_shutdown, conn, off, netvars>>

Accept(w) ==
  /\ pc[w] = "accept"
  /\ backlog # <<>>
  /\ backlog' = Tail(backlog)
  /\ conn' = [conn EXCEPT ![w] = Head(backlog)]
  /\ server' = [server EXCEPT ![Head(backlog)] = "open"]
  /\ off' = [off EXCEPT ![w] = 0]
  /\ Goto(w, "session")
  /\ UNCHANGED <<mainvars, g_shutdown, client, reqlen, left, unread>>

\* accept gives up after TIMEOUT without a connection, or SIGINT interrupts it.
AcceptTimeout(w) ==
  /\ pc[w] = "accept"
  /\ backlog = <<>> \/ g_shutdown
  /\ Goto(w, "loop")
  /\ UNCHANGED <<mainvars, g_shutdown, conn, off, netvars>>

\* MUTANT of CheckSession: while (1).
CheckSessionNever(w) ==
  /\ pc[w] = "session"
  /\ Goto(w, "recv")
  /\ UNCHANGED <<mainvars, g_shutdown, conn, off, netvars>>

\* while (!g_shutdown), the session loop
CheckSession(w) ==
  /\ pc[w] = "session"
  /\ Goto(w, IF g_shutdown THEN "close" ELSE "recv")
  /\ UNCHANGED <<mainvars, g_shutdown, conn, off, netvars>>

Room(w) == BufSize - off[w]

\* recv takes from 1 byte to all that is there and fits.
Recv(w) ==
  LET c == conn[w] IN
  /\ pc[w] = "recv"
  /\ \E n \in 1 .. Room(w) :
       /\ n <= left[c]
       /\ off' = [off EXCEPT ![w] = @ + n]
       /\ left' = [left EXCEPT ![c] = @ - n]
  /\ Goto(w, "serve")
  /\ UNCHANGED <<mainvars, g_shutdown, conn, backlog, client, server, reqlen,
                 unread>>

\* recv returns 0: the client has shut its end and no byte is left, or there
\* was no room to ask for one.
RecvEof(w) ==
  LET c == conn[w] IN
  /\ pc[w] = "recv"
  /\ (client[c] = "shut" /\ left[c] = 0) \/ Room(w) = 0
  /\ Goto(w, "close")
  /\ UNCHANGED <<mainvars, g_shutdown, conn, off, netvars>>

\* A connection reset: recv fails for good.
RecvError(w) ==
  /\ pc[w] = "recv" /\ client[conn[w]] = "shut"
  /\ Goto(w, "close")
  /\ UNCHANGED <<mainvars, g_shutdown, conn, off, netvars>>

\* TIMEOUT passed and nothing has arrived of what the client may have sent.
RecvTimeout(w) ==
  /\ pc[w] = "recv"
  /\ Goto(w, "session")
  /\ UNCHANGED <<mainvars, g_shutdown, conn, off, netvars>>

\* MUTANTS of Incomplete: a full buffer without a line feed is kept; a line feed
\* is looked for in a full buffer only.
IncompleteFull(w) == left[conn[w]] > 0
IncompleteShort(w) == off[w] < BufSize

\* skvs_parse: a request is complete with its line feed; a full buffer without
\* one is answered INVALID CMD, and what follows is taken for a new request.
Incomplete(w) == left[conn[w]] > 0 /\ off[w] < BufSize

\* skvs_serve returned 0: keep the bytes, unless the buffer is full.
ServeMore(w) ==
  /\ pc[w] = "serve" /\ Incomplete(w)
  /\ off' = IF off[w] >= BufSize THEN [off EXCEPT ![w] = 0] ELSE off
  /\ Goto(w, "session")
  /\ UNCHANGED <<mainvars, g_shutdown, conn, netvars>>

\* hash_insert adds an entry whose key is not in the table; hash_delete takes one
\* away.
hash_insert(b, e) ==
  /\ e \notin Stored
  /\ buckets' = [buckets EXCEPT ![b] = @ \cup {e}]
  /\ Hold(Entry(e), {})

\* MUTANT of hash_delete: the key of the entry is not freed.
hash_deleteKey(b, e) ==
  /\ e \in buckets[b]
  /\ buckets' = [buckets EXCEPT ![b] = @ \ {e}]
  /\ Free(Entry(e) \ {[part |-> "key", no |-> e]})

hash_delete(b, e) ==
  /\ e \in buckets[b]
  /\ buckets' = [buckets EXCEPT ![b] = @ \ {e}]
  /\ Free(Entry(e))

\* skvs_serve wrote a response.  A complete request may add or delete an entry;
\* any request may leave the table as it is: what is read or refused, an update,
\* which frees one value for another, and what is undone for want of memory.
Serve(w) ==
  /\ pc[w] = "serve" /\ ~ Incomplete(w)
  /\ \/ /\ left[conn[w]] = 0
        /\ \E e \in Entries : hash_insert(hash[e], e) \/ hash_delete(hash[e], e)
     \/ UNCHANGED <<held, buckets>>
  /\ Goto(w, "send")
  /\ UNCHANGED <<main, created, joined, g_shutdown, conn, off, netvars>>

ResetOff(w) == off' = [off EXCEPT ![w] = 0]

\* send_all returned 0.  send blocks while the socket is full.
Send(w) ==
  LET c == conn[w] IN
  /\ pc[w] = "send" /\ unread[c] < SockCap
  /\ unread' = [unread EXCEPT ![c] = @ + 1]
  /\ reqlen' = [reqlen EXCEPT ![c] = left[c]]
  /\ ResetOff(w)
  /\ Goto(w, "session")
  /\ UNCHANGED <<mainvars, g_shutdown, conn, backlog, client, server, left>>

\* send_all returned -1: the client has gone.
SendError(w) ==
  /\ pc[w] = "send" /\ client[conn[w]] = "shut"
  /\ Goto(w, "close")
  /\ UNCHANGED <<mainvars, g_shutdown, conn, off, netvars>>

\* MUTANT of Close: no close(connfd) on the way out.
CloseNot(w) ==
  /\ pc[w] = "close"
  /\ conn' = [conn EXCEPT ![w] = NoClient]
  /\ Goto(w, "loop")
  /\ UNCHANGED <<mainvars, g_shutdown, off, netvars>>

\* close(connfd); a request that is not answered by now never will be.
Close(w) ==
  /\ pc[w] = "close"
  /\ server' = [server EXCEPT ![conn[w]] = "closed"]
  /\ reqlen' = [reqlen EXCEPT ![conn[w]] = 0]
  /\ left' = [left EXCEPT ![conn[w]] = 0]
  /\ conn' = [conn EXCEPT ![w] = NoClient]
  /\ Goto(w, "loop")
  /\ UNCHANGED <<mainvars, g_shutdown, off, backlog, client, unread>>

-----------------------------------------------------------------------------
(* A client.  It speaks half-duplex, as the protocol says: one request, its *)
(* reply, the next request.  It may close at any point.                     *)

Connect(c) ==
  /\ client[c] = "away" /\ server[c] = "none"
  /\ main \in {"spawn", "join", "destroy"} /\ Len(backlog) < Backlog
  /\ client' = [client EXCEPT ![c] = "up"]
  /\ server' = [server EXCEPT ![c] = "queued"]
  /\ backlog' = Append(backlog, c)
  /\ UNCHANGED <<mainvars, g_shutdown, workvars, reqlen, left, unread>>

SendRequest(c) ==
  /\ client[c] = "up" /\ server[c] \in {"queued", "open"} /\ reqlen[c] = 0
  /\ \E n \in 1 .. MaxLen :
       /\ reqlen' = [reqlen EXCEPT ![c] = n]
       /\ left' = [left EXCEPT ![c] = n]
  /\ UNCHANGED <<mainvars, g_shutdown, workvars, backlog, client, server, unread>>

ReadReply(c) ==
  /\ client[c] = "up" /\ unread[c] > 0
  /\ unread' = [unread EXCEPT ![c] = @ - 1]
  /\ UNCHANGED <<mainvars, g_shutdown, workvars, backlog, client, server, reqlen,
                 left>>

\* The client closes; bytes of an unfinished request may never be sent.
Shut(c) ==
  /\ client[c] = "up"
  /\ client' = [client EXCEPT ![c] = "shut"]
  /\ unread' = [unread EXCEPT ![c] = 0]
  /\ UNCHANGED <<mainvars, g_shutdown, workvars, backlog, server, reqlen, left>>

\* Both ends are closed: the client may connect anew.
Gone(c) ==
  /\ server[c] = "closed"
  /\ client' = [client EXCEPT ![c] = "away"]
  /\ server' = [server EXCEPT ![c] = "none"]
  /\ reqlen' = [reqlen EXCEPT ![c] = 0]
  /\ left' = [left EXCEPT ![c] = 0]
  /\ unread' = [unread EXCEPT ![c] = 0]
  /\ UNCHANGED <<mainvars, g_shutdown, workvars, backlog>>

Main == SkvsInit \/ Listen \/ Spawn \/ Join \/ Destroy

Worker(w) ==
  \/ Begin(w) \/ CheckOuter(w) \/ Accept(w) \/ AcceptTimeout(w)
  \/ CheckSession(w) \/ Recv(w) \/ RecvEof(w) \/ RecvError(w) \/ RecvTimeout(w)
  \/ ServeMore(w) \/ Serve(w) \/ Send(w) \/ SendError(w) \/ Close(w)

Client(c) == Connect(c) \/ SendRequest(c) \/ ReadReply(c) \/ Shut(c) \/ Gone(c)

Next == \/ Main
        \/ handle_sigint
        \/ \E w \in Workers : Worker(w)
        \/ \E c \in Clients : Client(c)

Spec == Init /\ [][Next]_vars

\* The threads of the process run; SIGINT may never come.
ServerFairness == WF_vars(Main) /\ \A w \in Workers : WF_vars(Worker(w))

\* Clients read the replies they are sent.
ClientFairness == \A c \in Clients : WF_vars(ReadReply(c))

\* What a client has sent arrives, after however many timeouts.
NetworkFairness == \A w \in Workers : SF_vars(Recv(w))

FairSpec == Spec /\ ServerFairness /\ ClientFairness

-----------------------------------------------------------------------------
(* Properties *)

TypeOK ==
  /\ main \in {"start", "listen", "spawn", "join", "destroy", "exit"}
  /\ created \in 0 .. num_threads /\ joined \in 0 .. created
  /\ held \in [Resources -> {0, 1}]
  /\ buckets \in [Buckets -> SUBSET Entries]
  /\ g_shutdown \in BOOLEAN
  /\ pc \in [Workers -> {"none", "begin", "loop", "accept", "session", "recv", "serve",
                         "send", "close", "done"}]
  /\ conn \in [Workers -> Clients \cup {NoClient}]
  /\ off \in [Workers -> 0 .. BufSize]
  /\ backlog \in Seq(Clients) /\ Len(backlog) <= Backlog
  /\ client \in [Clients -> {"away", "up", "shut"}]
  /\ server \in [Clients -> {"none", "queued", "open", "closed"}]
  /\ reqlen \in [Clients -> 0 .. MaxLen] /\ left \in [Clients -> 0 .. MaxLen]
  /\ unread \in [Clients -> 0 .. SockCap]

\* No worker touches the hash table before skvs_init or after skvs_destroy, and the
\* process leaves nothing allocated and frees nothing twice, neither the table, its
\* locks and a worker's arguments nor any entry's key, value and node, wherever
\* SIGINT comes, whatever the requests were and whichever allocation, lock, socket
\* or thread cannot be had.
TableAlive ==
  /\ (\E w \in Workers : pc[w] \notin {"none", "done"}) =>
       \A r \in Table : held[r] = 1
  /\ \A r \in Resources : held[r] \in IF main = "exit" THEN {0} ELSE {0, 1}

InSession(w) == pc[w] \in {"session", "recv", "serve", "send", "close"}

\* A connection belongs to one worker at most, exactly the open ones to one,
\* and the backlog holds each queued connection once: no descriptor leaks, even
\* through shutdown, and no reply goes to another worker's client.
ConnectionsOwned ==
  /\ TypeOK
  /\ \A w \in Workers : InSession(w) <=> conn[w] # NoClient
  /\ \A v, w \in Workers : conn[v] = conn[w] /\ conn[v] # NoClient => v = w
  /\ \A c \in Clients : server[c] = "open" <=> \E w \in Workers : conn[w] = c
  /\ \A c \in Clients :
       server[c] = "queued" <=> \E i \in 1 .. Len(backlog) : backlog[i] = c
  /\ \A i, j \in 1 .. Len(backlog) : backlog[i] = backlog[j] => i = j

\* The buffer of a session holds the received part of the request that is not
\* answered yet and nothing of an earlier one, over partial receives, timeouts
\* and oversized requests; and recv is never asked for 0 bytes, whose result 0
\* would look like a closed connection: a full buffer is answered and emptied.
Framing ==
  \A w \in Workers :
    /\ pc[w] \in {"session", "recv", "serve", "send"} =>
         off[w] + left[conn[w]] = reqlen[conn[w]]
    /\ pc[w] = "recv" => off[w] < BufSize

\* After SIGINT every worker ends and main destroys the table and exits.
Terminates == g_shutdown ~> main = "exit"

\* A request sent to a worker is answered, unless a side closes or the server
\* shuts down, if the connections deliver.
Answered ==
  NetworkFairness =>
    \A c \in Clients :
      reqlen[c] > 0 /\ server[c] = "open"
        ~> reqlen[c] = 0 \/ client[c] # "up" \/ server[c] # "open" \/ g_shutdown
=============================================================================
