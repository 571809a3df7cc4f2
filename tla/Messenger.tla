----------------------------- MODULE Messenger -----------------------------
(***************************************************************************)
(* The messenger server's message store (ot/server_impl.go): handlers of   *)
(* /inbox and /outbox that run concurrently, one per request, over a cache *)
(* whose entries live for SESSION_TIMEOUT.  A handler is a goroutine: each *)
(* of its cache accesses is one step, so the steps of two handlers, the    *)
(* clock and a client that hangs up interleave.                            *)
(*                                                                         *)
(* One tick is the period of the long poll (a second in the code).  The    *)
(* cache's janitor only frees entries that Get no longer returns; it has   *)
(* no effect a client can see and is left out.                             *)
(***************************************************************************)
EXTENDS Naturals, Sequences

CONSTANTS Client,        \* clients, each with at most one request at a time
          Key, Val, NoVal,
          TTL,           \* SESSION_TIMEOUT in ticks
          PollInterval,  \* ticks a handler sleeps between two looks
          MaxVec,        \* bound: the longest request vector
          Posts          \* bound: the vectors of messages clients post

ASSUME NoValAssumption == NoVal \notin Val
ASSUME TTLAssumption == TTL \in Nat \ {0}
ASSUME PollAssumption == PollInterval \in Nat \ {0} /\ PollInterval < TTL

VARIABLES entry,    \* the cache: value and remaining ticks of every key
          handler,  \* the request each client has pending, and how far it is
          val,      \* the local variable "val" of the client's outbox handler
          reply     \* what the client's last request was answered with

vars == <<entry, handler, val, reply>>

Message == [key : Key, val : Val \cup {NoVal}]
Vectors(S) == UNION {[1..n -> S] : n \in 1..MaxVec}

ASSUME PostsAssumption == Posts \subseteq Vectors(Message)

Idle == [op |-> "none", vec |-> <<>>, i |-> 1, wait |-> 0, vals |-> <<>>]
NoReply == [code |-> 0, vals |-> <<>>]

TypeOK ==
    /\ entry \in [Key -> [val : Val \cup {NoVal}, left : 0..TTL]]
    /\ \A c \in Client :
         /\ handler[c].op \in {"none", "inbox", "outbox"}
         /\ handler[c].i \in 1..(Len(handler[c].vec) + 1)
         /\ handler[c].wait \in 0..PollInterval
         /\ handler[c].op = "inbox" => handler[c].vec \in Vectors(Message)
         /\ handler[c].op = "outbox" =>
              /\ handler[c].vec \in Vectors(Key)
              /\ Len(handler[c].vals) = handler[c].i - 1
    /\ val \in [Client -> Val \cup {NoVal}]
    /\ \A c \in Client : reply[c].code \in {0, 200, 400}

Init ==
    /\ entry = [k \in Key |-> [val |-> NoVal, left |-> 0]]
    /\ handler = [c \in Client |-> Idle]
    /\ val = [c \in Client |-> NoVal]
    /\ reply = [c \in Client |-> NoReply]

\* cache.Get finds the key.
Live(k) == entry[k].left > 0

\* cache.Set(key, v, DefaultExpiration): an older value is overwritten.
CacheSet(k, v) == entry' = [entry EXCEPT ![k] = [val |-> v, left |-> TTL]]

\* The request's position in its vector.
Current(c) == handler[c].vec[handler[c].i]
Exhausted(c) == handler[c].i > Len(handler[c].vec)

Answer(c, code, vals) ==
    /\ handler' = [handler EXCEPT ![c] = Idle]
    /\ reply' = [reply EXCEPT ![c] = [code |-> code, vals |-> vals]]

Request(c, op, vec) ==
    /\ handler[c].op = "none"
    /\ handler' = [handler EXCEPT ![c] = [Idle EXCEPT !.op = op, !.vec = vec]]
    /\ reply' = [reply EXCEPT ![c] = NoReply]
    /\ val' = [val EXCEPT ![c] = NoVal]
    /\ UNCHANGED entry

RequestInbox(c) == \E vec \in Posts : Request(c, "inbox", vec)
RequestOutbox(c) == \E vec \in Vectors(Key) : Request(c, "outbox", vec)

(***************************************************************************)
(* handleInbox                                                             *)
(***************************************************************************)
InboxStore(c) ==
    /\ handler[c].op = "inbox" /\ ~Exhausted(c)
    /\ Current(c).val # NoVal
    /\ CacheSet(Current(c).key, Current(c).val)
    /\ handler' = [handler EXCEPT ![c].i = @ + 1]
    /\ UNCHANGED <<val, reply>>

\* A message without a value ends the request; the ones before it stay.
InboxRefuse(c) ==
    /\ handler[c].op = "inbox" /\ ~Exhausted(c)
    /\ Current(c).val = NoVal
    /\ Answer(c, 400, <<>>)
    /\ UNCHANGED <<entry, val>>

InboxDone(c) ==
    /\ handler[c].op = "inbox" /\ Exhausted(c)
    /\ Answer(c, 200, <<>>)
    /\ UNCHANGED <<entry, val>>

(***************************************************************************)
(* handleOutbox                                                            *)
(***************************************************************************)
Awake(c) == handler[c].op = "outbox" /\ ~Exhausted(c) /\ handler[c].wait = 0

\* Mutants: the answer is not appended, the previous answer is, and an
\* expired value is returned.
PollHit_NotAppended(c) ==
    /\ Awake(c) /\ Live(Current(c))
    /\ val' = [val EXCEPT ![c] = entry[Current(c)].val]
    /\ handler' = [handler EXCEPT ![c].i = @ + 1]
    /\ UNCHANGED <<entry, reply>>
PollHit_Previous(c) ==
    /\ Awake(c) /\ Live(Current(c))
    /\ val' = [val EXCEPT ![c] = entry[Current(c)].val]
    /\ handler' = [handler EXCEPT ![c].i = @ + 1, ![c].vals = Append(@, val[c])]
    /\ UNCHANGED <<entry, reply>>
PollHit_Expired(c) ==
    /\ Awake(c) /\ entry[Current(c)].val # NoVal
    /\ val' = [val EXCEPT ![c] = entry[Current(c)].val]
    /\ handler' = [handler EXCEPT ![c].i = @ + 1,
                                  ![c].vals = Append(@, entry[Current(c)].val)]
    /\ UNCHANGED <<entry, reply>>

PollHit(c) ==
    /\ Awake(c) /\ Live(Current(c))
    /\ val' = [val EXCEPT ![c] = entry[Current(c)].val]
    /\ handler' = [handler EXCEPT ![c].i = @ + 1,
                                  ![c].vals = Append(@, entry[Current(c)].val)]
    /\ UNCHANGED <<entry, reply>>

\* Mutant: the poll is slower than the expiry.
PollMiss_Slow(c) ==
    /\ Awake(c) /\ ~Live(Current(c))
    /\ handler' = [handler EXCEPT ![c].wait = TTL + PollInterval]
    /\ UNCHANGED <<entry, val, reply>>

\* Nothing yet: sleep until the timer of time.After fires.
PollMiss(c) ==
    /\ Awake(c) /\ ~Live(Current(c))
    /\ handler' = [handler EXCEPT ![c].wait = PollInterval]
    /\ UNCHANGED <<entry, val, reply>>

OutboxDone(c) ==
    /\ handler[c].op = "outbox" /\ Exhausted(c)
    /\ Answer(c, 200, handler[c].vals)
    /\ UNCHANGED <<entry, val>>

\* The client hangs up; the handler notices in its select, never elsewhere.
Disconnect(c) ==
    /\ handler[c].op = "outbox" /\ handler[c].wait > 0
    /\ handler' = [handler EXCEPT ![c] = Idle]
    /\ UNCHANGED <<entry, val, reply>>

(***************************************************************************)
(* Time.  A handler whose timer has fired looks at the cache before the    *)
(* next tick: the scheduler delays a runnable goroutine by less than the   *)
(* period of the poll.                                                     *)
(***************************************************************************)
\* Mutant: the timer of a sleeping handler is not running.
Tick_NoTimer ==
    /\ \A c \in Client : ~Awake(c)
    /\ \E k \in Key : Live(k)
    /\ entry' = [k \in Key |-> [entry[k] EXCEPT !.left = IF @ > 0 THEN @ - 1 ELSE 0]]
    /\ UNCHANGED <<handler, val, reply>>

Tick ==
    /\ \A c \in Client : ~Awake(c)
    /\ \/ \E k \in Key : Live(k)
       \/ \E c \in Client : handler[c].wait > 0
    /\ entry' = [k \in Key |-> [entry[k] EXCEPT !.left = IF @ > 0 THEN @ - 1 ELSE 0]]
    /\ handler' = [c \in Client |->
                     [handler[c] EXCEPT !.wait = IF @ > 0 THEN @ - 1 ELSE 0]]
    /\ UNCHANGED <<val, reply>>

Serve(c) ==
    InboxStore(c) \/ InboxRefuse(c) \/ InboxDone(c)
      \/ PollHit(c) \/ PollMiss(c) \/ OutboxDone(c)

Next ==
    \/ \E c \in Client :
         RequestInbox(c) \/ RequestOutbox(c) \/ Serve(c) \/ Disconnect(c)
    \/ Tick

Spec == Init /\ [][Next]_vars

\* net/http runs every handler, and the clock does not stop: that a tick
\* waits for the handlers that are awake is an assumption on their speed,
\* it never holds time up for good.
Fairness == SF_vars(Tick) /\ \A c \in Client : WF_vars(Serve(c))
FairSpec == Spec /\ Fairness

(***************************************************************************)
(* Properties                                                              *)
(***************************************************************************)
Waiting(c) == handler[c].op = "outbox" /\ ~Exhausted(c)

\* No missed wake-up: a value that arrives under the key a handler of
\* /outbox is waiting for is never dropped by the cache in front of that
\* handler, although the handler sleeps between two looks
\* (server_impl.go:162-173 against SESSION_TIMEOUT).
NeverExpiresUnseen ==
    [][\A c \in Client :
         Waiting(c) /\ Live(Current(c)) /\ handler'[c] # Idle
         /\ handler'[c].i = handler[c].i => Live(Current(c))']_vars

\* A handler of /outbox whose current key has a value moves on to the next
\* key or its client hangs up: no lost answer, no handler stuck beside its
\* value.
PollIsAnswered ==
    \A c \in Client : \A n \in 1..MaxVec :
      (Waiting(c) /\ handler[c].i = n /\ Live(Current(c)))
        ~> (handler[c].op # "outbox" \/ handler[c].i # n)

\* The answers of one handler are given to its own client: a reply of
\* /outbox has one value for every key of the query, and its last value is
\* the one the handler read last (server_impl.go:157-181).
ReplyIsComplete ==
    [][\A c \in Client :
         handler[c].op = "outbox" /\ reply'[c].code = 200 /\ reply[c].code = 0
         => /\ Len(reply'[c].vals) = Len(handler[c].vec)
            /\ reply'[c].vals[Len(handler[c].vec)] = val[c]]_vars

\* The server implements the abstract mailbox: an entry that Get does not
\* find any more is a lost value.
Abstract == INSTANCE Mailbox
              WITH Reader <- Client,
                   box <- [k \in {i \in Key : Live(i)} |-> entry[k].val],
                   seen <- val
ImplementsMailbox == Abstract!MailboxSpec
=============================================================================
