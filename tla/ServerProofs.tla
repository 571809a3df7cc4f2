---------------------------- MODULE ServerProofs ----------------------------
(***************************************************************************)
(* Proofs about the messenger server, its two parts one after the other.   *)
(* Messenger, for any clients, keys, values, lifetimes and lengths of      *)
(* requests: the handlers keep their types, lose no value in front of a    *)
(* client that waits for it, answer a query whole, and together implement  *)
(* the abstract mailbox.  SessionRegistry, for any clients, ids and bounds *)
(* of registrations: who connected was answered, and a session is logged   *)
(* as used no more often than it may.                                      *)
(***************************************************************************)
EXTENDS Messenger, SessionRegistry, FiniteSetTheorems, TLAPS

(***************************************************************************)
(* The invariant                                                           *)
(***************************************************************************)
EntryType == [val : Val \cup {NoVal}, left : 0..TTL]
HandlerType == [op : {"none", "inbox", "outbox"},
                vec : {<<>>} \cup Vectors(Message) \cup Vectors(Key),
                i : Nat, wait : 0..PollInterval, vals : Seq(Val)]
ReplyType == [code : {0, 200, 400}, vals : Seq(Val)]

Typed ==
    /\ entry \in [Key -> EntryType]
    /\ handler \in [Client -> HandlerType]
    /\ val \in [Client -> Val \cup {NoVal}]
    /\ reply \in [Client -> ReplyType]

\* A handler h is within its vector, and has read one value for each key it
\* has passed, the last of them v.
Consistent(h, v) ==
    /\ h.i \in 1..(Len(h.vec) + 1)
    /\ h.op = "inbox" => h.vec \in Vectors(Message)
    /\ h.op = "outbox" =>
         /\ h.vec \in Vectors(Key)
         /\ Len(h.vals) = h.i - 1
         /\ h.i > 1 => h.vals[h.i - 1] = v

\* What the cache returns is a value.
LiveIsValue == \A k \in Key : entry[k].left > 0 => entry[k].val \in Val

\* A value a handler waits for lives longer than the handler sleeps.
Outlives(h, e) ==
    h.op = "outbox" /\ h.i \in 1..Len(h.vec) /\ e[h.vec[h.i]].left > 0
      => h.wait < e[h.vec[h.i]].left

MInv ==
    /\ Typed /\ LiveIsValue
    /\ \A c \in Client : Consistent(handler[c], val[c]) /\ Outlives(handler[c], entry)

(***************************************************************************)
(* Vectors and handlers                                                    *)
(***************************************************************************)
\* A vector is a sequence that is not empty.
LEMMA VectorFacts ==
    ASSUME NEW S, NEW vec \in Vectors(S)
    PROVE  /\ vec \in Seq(S) /\ Len(vec) \in Nat \ {0}
           /\ \A k \in 1..Len(vec) : vec[k] \in S
<1>1. PICK n \in 1..MaxVec : vec \in [1..n -> S]
  BY DEF Vectors
<1>2. n \in Nat \ {0}
  BY <1>1
<1>3. QED BY <1>1, <1>2

\* The handler of a client, by its fields.
LEMMA HandlerFacts ==
    ASSUME MInv, NEW c \in Client
    PROVE  /\ handler[c] \in HandlerType /\ Consistent(handler[c], val[c])
           /\ Len(handler[c].vec) \in Nat /\ handler[c].i \in Nat \ {0}
           /\ handler[c].wait \in Nat /\ handler[c].vals \in Seq(Val)
           /\ handler[c].op = "inbox" /\ ~Exhausted(c) => Current(c) \in Message
           /\ handler[c].op = "outbox" /\ ~Exhausted(c) => Current(c) \in Key
<1>1. handler[c] \in HandlerType /\ Consistent(handler[c], val[c])
  BY DEF MInv, Typed
<1>2. Len(handler[c].vec) \in Nat
  <2>1. handler[c].vec \in {<<>>} \cup Vectors(Message) \cup Vectors(Key)
    BY <1>1 DEF HandlerType
  <2>2. CASE handler[c].vec = <<>>
    BY <2>2
  <2>3. QED BY <2>1, <2>2, VectorFacts
<1>3. handler[c].i \in Nat \ {0}
  BY <1>1, <1>2 DEF Consistent
<1>4. handler[c].wait \in Nat
  BY <1>1, PollAssumption DEF HandlerType
<1>5. handler[c].op = "inbox" /\ ~Exhausted(c) => Current(c) \in Message
  BY <1>1, <1>2, <1>3, VectorFacts DEF Consistent, Exhausted, Current
<1>6. handler[c].op = "outbox" /\ ~Exhausted(c) => Current(c) \in Key
  BY <1>1, <1>2, <1>3, VectorFacts DEF Consistent, Exhausted, Current
<1>7. QED BY <1>1, <1>2, <1>3, <1>4, <1>5, <1>6 DEF HandlerType

\* No request pending.
LEMMA IdleFacts ==
    /\ Idle \in HandlerType /\ Idle.op = "none"
    /\ \A v : Consistent(Idle, v)
    /\ \A e : Outlives(Idle, e)
<1>1. Idle \in HandlerType
  BY PollAssumption DEF Idle, HandlerType
<1>2. QED BY <1>1 DEF Idle, Consistent, Outlives

\* A step of one handler that leaves the cache alone.
LEMMA HandlerStep ==
    ASSUME MInv, NEW c \in Client, NEW new \in HandlerType,
           handler' = [handler EXCEPT ![c] = new], entry' = entry,
           val' \in [Client -> Val \cup {NoVal}],
           \A d \in Client : d # c => val'[d] = val[d],
           reply' \in [Client -> ReplyType],
           Consistent(new, val'[c]), Outlives(new, entry)
    PROVE  MInv'
<1>1. Typed' /\ LiveIsValue'
  BY DEF MInv, Typed, LiveIsValue
<1>2. ASSUME NEW d \in Client
      PROVE  Consistent(handler'[d], val'[d]) /\ Outlives(handler'[d], entry')
  <2>1. CASE d = c
    BY <2>1 DEF MInv, Typed
  <2>2. CASE d # c
    BY <2>2 DEF MInv, Typed
  <2>3. QED BY <2>1, <2>2
<1>3. (\A d \in Client : Consistent(handler[d], val[d]) /\ Outlives(handler[d], entry))'
  BY <1>2
<1>4. QED BY <1>1, <1>3 DEF MInv

\* An answer ends the request.
LEMMA AnswerStep ==
    ASSUME MInv, NEW c \in Client, NEW code \in {0, 200, 400}, NEW vals \in Seq(Val),
           Answer(c, code, vals), entry' = entry, val' = val
    PROVE  MInv'
<1>1. [code |-> code, vals |-> vals] \in ReplyType
  BY DEF ReplyType
<1>2. reply' \in [Client -> ReplyType] /\ val \in [Client -> Val \cup {NoVal}]
  BY <1>1 DEF Answer, MInv, Typed
<1>3. handler' = [handler EXCEPT ![c] = Idle]
  BY DEF Answer
<1>4. Consistent(Idle, val'[c]) /\ Outlives(Idle, entry) /\ Idle \in HandlerType
  BY IdleFacts
<1>5. \A d \in Client : d # c => val'[d] = val[d]
  OBVIOUS
<1>6. val' \in [Client -> Val \cup {NoVal}]
  BY <1>2
<1>7. reply' \in [Client -> ReplyType]
  BY <1>2
<1>8. QED BY <1>3, <1>4, <1>5, <1>6, <1>7, HandlerStep

(***************************************************************************)
(* The steps                                                               *)
(***************************************************************************)
\* A new request starts at its first message or key.
LEMMA RequestStep ==
    ASSUME MInv, NEW c \in Client, RequestInbox(c) \/ RequestOutbox(c)
    PROVE  MInv'
<1>1. PICK op \in {"inbox", "outbox"}, vec \in Vectors(Message) \cup Vectors(Key) :
        /\ Request(c, op, vec)
        /\ op = "inbox" => vec \in Vectors(Message)
        /\ op = "outbox" => vec \in Vectors(Key)
  <2>1. CASE RequestInbox(c)
    BY <2>1, PostsAssumption DEF RequestInbox
  <2>2. CASE RequestOutbox(c)
    BY <2>2 DEF RequestOutbox
  <2>3. QED BY <2>1, <2>2
<1> DEFINE new == [Idle EXCEPT !.op = op, !.vec = vec]
<1>2. handler' = [handler EXCEPT ![c] = new] /\ entry' = entry
  BY <1>1 DEF Request
<1>3. /\ new \in HandlerType
      /\ new.op = op /\ new.vec = vec /\ new.i = 1 /\ new.wait = 0 /\ new.vals = <<>>
  <2>1. new = [op |-> op, vec |-> vec, i |-> 1, wait |-> 0, vals |-> <<>>]
    <3> DEFINE mid == [Idle EXCEPT !.op = op]
    <3>1. mid = [op |-> op, vec |-> <<>>, i |-> 1, wait |-> 0, vals |-> <<>>]
      BY DEF Idle
    <3>2. new = [mid EXCEPT !.vec = vec]
      BY Zenon
    <3> HIDE DEF mid, new
    <3>3. QED BY <3>1, <3>2
  <2>2. 0 \in 0..PollInterval /\ <<>> \in Seq(Val)
    BY PollAssumption
  <2> HIDE DEF new
  <2>3. QED BY <1>1, <2>1, <2>2 DEF HandlerType
<1> HIDE DEF new
<1>4. Len(vec) \in Nat \ {0}
  BY <1>1, VectorFacts
<1>5. /\ val' \in [Client -> Val \cup {NoVal}]
      /\ \A d \in Client : d # c => val'[d] = val[d]
      /\ reply' \in [Client -> ReplyType]
  <2>1. NoReply \in ReplyType
    BY DEF NoReply, ReplyType
  <2>2. QED BY <1>1, <2>1 DEF Request, MInv, Typed
<1>6. Consistent(new, val'[c])
  BY <1>1, <1>3, <1>4 DEF Consistent
<1>7. Outlives(new, entry)
  <2>1. ASSUME op = "outbox" PROVE vec[1] \in Key
    BY <1>1, <1>4, <2>1, VectorFacts
  <2>2. \A k \in Key : entry[k].left \in Nat
    BY TTLAssumption DEF MInv, Typed, EntryType
  <2>3. QED BY <1>3, <2>1, <2>2 DEF Outlives
<1>8. QED BY <1>2, <1>3, <1>5, <1>6, <1>7, HandlerStep

\* A value put into the cache lives longer than any handler sleeps.
LEMMA InboxStoreStep ==
    ASSUME MInv, NEW c \in Client, InboxStore(c)
    PROVE  MInv'
<1> DEFINE new == [handler[c] EXCEPT !.i = @ + 1]
           k == Current(c).key
           e == [val |-> Current(c).val, left |-> TTL]
<1>1. /\ handler[c].op = "inbox" /\ ~Exhausted(c) /\ Current(c).val # NoVal
      /\ handler' = [handler EXCEPT ![c] = new]
      /\ entry' = [entry EXCEPT ![k] = e]
      /\ val' = val /\ reply' = reply
  BY DEF InboxStore, CacheSet
<1>2. k \in Key /\ e \in EntryType /\ e.left = TTL /\ e.val \in Val
  <2>1. Current(c) \in Message
    BY <1>1, HandlerFacts
  <2>2. QED BY <1>1, <2>1, TTLAssumption DEF Message, EntryType
<1>3. /\ new \in HandlerType /\ new.op = "inbox" /\ new.vec = handler[c].vec
      /\ new.i = handler[c].i + 1
  <2>1. handler[c] \in HandlerType /\ handler[c].i \in Nat
    BY HandlerFacts
  <2>2. QED BY <1>1, <2>1 DEF HandlerType
<1> HIDE DEF new, k, e
<1>4. entry \in [Key -> EntryType] /\ entry' \in [Key -> EntryType]
  BY <1>1, <1>2 DEF MInv, Typed
<1>5. Typed' /\ LiveIsValue'
  <2>1. Typed'
    BY <1>1, <1>3, <1>4 DEF MInv, Typed
  <2>2. LiveIsValue'
    BY <1>1, <1>2, <1>4 DEF MInv, LiveIsValue
  <2>3. QED BY <2>1, <2>2
<1>6. ASSUME NEW d \in Client, d # c
      PROVE  Consistent(handler'[d], val'[d]) /\ Outlives(handler'[d], entry')
  <2>1. handler'[d] = handler[d]
    BY <1>1, <1>6 DEF MInv, Typed
  <2>2. Consistent(handler'[d], val'[d])
    BY <1>1, <2>1, HandlerFacts
  <2> DEFINE h == handler[d] w == h.vec[h.i]
  <2>3. SUFFICES ASSUME h.op = "outbox", h.i \in 1..Len(h.vec), entry'[w].left > 0
                 PROVE  h.wait < entry'[w].left
    BY <2>1, <2>2 DEF Outlives
  <2>4. w \in Key /\ h.wait < TTL
    <3>1. Current(d) = w /\ ~Exhausted(d)
      BY <2>3, HandlerFacts DEF Current, Exhausted
    <3>2. h.wait \in 0..PollInterval
      BY HandlerFacts DEF HandlerType
    <3>3. QED BY <2>3, <3>1, <3>2, HandlerFacts, TTLAssumption, PollAssumption
  <2>5. CASE w = k
    BY <1>1, <1>2, <1>4, <2>4, <2>5
  <2>6. CASE w # k
    <3>1. entry'[w] = entry[w]
      BY <1>1, <1>4, <2>4, <2>6
    <3>2. Outlives(h, entry)
      BY DEF MInv
    <3>3. QED BY <2>3, <3>1, <3>2 DEF Outlives
  <2>7. QED BY <2>5, <2>6
<1>7. Consistent(handler'[c], val'[c]) /\ Outlives(handler'[c], entry')
  <2>1. handler'[c] = new
    BY <1>1 DEF MInv, Typed
  <2>2. new.vec \in Vectors(Message) /\ new.i \in 1..(Len(new.vec) + 1)
    BY <1>1, <1>3, HandlerFacts DEF Exhausted, Consistent
  <2>3. QED BY <1>3, <2>1, <2>2 DEF Consistent, Outlives
<1>8. QED BY <1>5, <1>6, <1>7 DEF MInv

\* A hit is appended to the answer, and the handler goes on to the next key.
LEMMA PollHitStep ==
    ASSUME MInv, NEW c \in Client, PollHit(c)
    PROVE  MInv'
<1> DEFINE v == entry[Current(c)].val
           new == [handler[c] EXCEPT !.i = @ + 1, !.vals = Append(@, v)]
<1>1. /\ handler[c].op = "outbox" /\ ~Exhausted(c) /\ handler[c].wait = 0
      /\ Live(Current(c))
      /\ val' = [val EXCEPT ![c] = v] /\ entry' = entry /\ reply' = reply
  BY DEF PollHit, Awake
<1>2. handler' = [handler EXCEPT ![c] = new]
  BY Zenon DEF PollHit
<1>3. Current(c) \in Key /\ v \in Val
  BY <1>1, HandlerFacts DEF Live, MInv, LiveIsValue
<1> HIDE DEF v
<1>4. /\ handler[c] \in HandlerType /\ handler[c].i \in Nat \ {0}
      /\ handler[c].vals \in Seq(Val) /\ Len(handler[c].vec) \in Nat
  BY HandlerFacts
<1>5. Append(handler[c].vals, v) \in Seq(Val)
  BY <1>3, <1>4
<1>6. /\ new \in HandlerType /\ new.op = "outbox" /\ new.vec = handler[c].vec
      /\ new.i = handler[c].i + 1 /\ new.wait = 0
      /\ new.vals = Append(handler[c].vals, v)
  <2> DEFINE l == Append(handler[c].vals, v) m == handler[c].i + 1
  <2>1. new = [handler[c] EXCEPT !.i = m, !.vals = l]
    OBVIOUS
  <2>2. m \in Nat /\ l \in Seq(Val)
    BY <1>4, <1>5
  <2> HIDE DEF l, m
  <2>3. [handler[c] EXCEPT !.i = m, !.vals = l]
          = [op |-> handler[c].op, vec |-> handler[c].vec, i |-> m,
             wait |-> handler[c].wait, vals |-> l]
    <3> DEFINE mid == [handler[c] EXCEPT !.i = m]
               end == [handler[c] EXCEPT !.i = m, !.vals = l]
    <3>1. mid
            = [op |-> handler[c].op, vec |-> handler[c].vec, i |-> m,
               wait |-> handler[c].wait, vals |-> handler[c].vals]
      BY <1>4 DEF HandlerType
    <3>2. end = [mid EXCEPT !.vals = l]
      BY Zenon
    <3> HIDE DEF mid, end
    <3>3. end = [op |-> handler[c].op, vec |-> handler[c].vec, i |-> m,
                 wait |-> handler[c].wait, vals |-> l]
      BY <3>1, <3>2
    <3>4. QED BY <3>3 DEF end
  <2> HIDE DEF new
  <2>4. new \in HandlerType
    BY <1>4, <2>1, <2>2, <2>3 DEF HandlerType
  <2>5. QED BY <1>1, <2>1, <2>3, <2>4 DEF l, m
<1> HIDE DEF new
<1>7. val' \in [Client -> Val \cup {NoVal}] /\ val'[c] = v
      /\ \A d \in Client : d # c => val'[d] = val[d]
  BY <1>1, <1>3 DEF MInv, Typed
<1>8. Consistent(new, val'[c])
  <2>1. /\ handler[c].vec \in Vectors(Key) /\ Len(handler[c].vals) = handler[c].i - 1
        /\ handler[c].i \in 1..Len(handler[c].vec)
    BY <1>1, <1>4, HandlerFacts DEF Consistent, Exhausted
  <2>2. /\ Len(new.vals) = new.i - 1 /\ new.vals[new.i - 1] = v
        /\ new.i \in 1..(Len(new.vec) + 1)
    <3>1. /\ Len(Append(handler[c].vals, v)) = Len(handler[c].vals) + 1
          /\ Append(handler[c].vals, v)[Len(handler[c].vals) + 1] = v
      BY <1>3, <1>4
    <3>2. new.i - 1 = Len(handler[c].vals) + 1
      BY <1>4, <1>6, <2>1
    <3>3. QED BY <1>4, <1>6, <2>1, <3>1, <3>2
  <2>3. QED BY <1>6, <1>7, <2>1, <2>2 DEF Consistent
<1>9. Outlives(new, entry)
  <2>1. ASSUME new.i \in 1..Len(new.vec) PROVE new.vec[new.i] \in Key
    BY <1>1, <1>6, <2>1, HandlerFacts, VectorFacts DEF Consistent
  <2>2. \A k \in Key : entry[k].left \in Nat
    BY TTLAssumption DEF MInv, Typed, EntryType
  <2>3. QED BY <1>6, <2>1, <2>2 DEF Outlives
<1>10. reply' \in [Client -> ReplyType]
  BY <1>1 DEF MInv, Typed
<1>11. QED BY <1>1, <1>2, <1>6, <1>7, <1>8, <1>9, <1>10, HandlerStep

\* A handler goes to sleep only if its key has no value.
LEMMA PollMissStep ==
    ASSUME MInv, NEW c \in Client, PollMiss(c)
    PROVE  MInv'
<1> DEFINE new == [handler[c] EXCEPT !.wait = PollInterval]
<1>1. /\ ~Live(Current(c)) /\ handler' = [handler EXCEPT ![c] = new]
      /\ UNCHANGED <<entry, val, reply>>
  BY DEF PollMiss
<1>2. /\ new \in HandlerType /\ new.op = handler[c].op /\ new.vec = handler[c].vec
      /\ new.i = handler[c].i /\ new.vals = handler[c].vals
  <2>1. handler[c] \in HandlerType
    BY HandlerFacts
  <2>2. QED BY <2>1, PollAssumption DEF HandlerType
<1> HIDE DEF new
<1>3. Consistent(new, val[c])
  BY <1>2, HandlerFacts DEF Consistent
<1>4. Outlives(new, entry)
  BY <1>1, <1>2 DEF Outlives, Live, Current
<1>5. QED BY <1>1, <1>2, <1>3, <1>4, HandlerStep DEF MInv, Typed

\* A tick takes one from what every value lives and every handler sleeps; a
\* handler that has slept enough holds it up.
LEMMA TickStep ==
    ASSUME MInv, Tick
    PROVE  MInv'
<1> DEFINE E(k) == [entry[k] EXCEPT !.left = IF @ > 0 THEN @ - 1 ELSE 0]
           H(c) == [handler[c] EXCEPT !.wait = IF @ > 0 THEN @ - 1 ELSE 0]
<1>1. /\ \A c \in Client : ~Awake(c)
      /\ entry' = [k \in Key |-> E(k)] /\ handler' = [c \in Client |-> H(c)]
      /\ val' = val /\ reply' = reply
  BY DEF Tick
<1>2. ASSUME NEW k \in Key
      PROVE  /\ entry[k].left \in Nat /\ E(k) \in EntryType /\ E(k).val = entry[k].val
             /\ E(k).left = IF entry[k].left > 0 THEN entry[k].left - 1 ELSE 0
  <2>1. entry[k] \in EntryType
    BY DEF MInv, Typed
  <2>2. entry[k].left \in 0..TTL
    BY <2>1 DEF EntryType
  <2> DEFINE l == IF entry[k].left > 0 THEN entry[k].left - 1 ELSE 0
  <2>3. l \in 0..TTL
    BY <2>2, TTLAssumption
  <2>4. E(k) = [entry[k] EXCEPT !.left = l]
    OBVIOUS
  <2> HIDE DEF l
  <2>5. [entry[k] EXCEPT !.left = l] \in EntryType
        /\ [entry[k] EXCEPT !.left = l].left = l
        /\ [entry[k] EXCEPT !.left = l].val = entry[k].val
    BY <2>1, <2>3 DEF EntryType
  <2>6. QED BY <2>2, <2>4, <2>5, TTLAssumption DEF l
<1>3. ASSUME NEW c \in Client
      PROVE  /\ H(c) \in HandlerType /\ H(c).op = handler[c].op /\ H(c).vec = handler[c].vec
             /\ H(c).i = handler[c].i /\ H(c).vals = handler[c].vals
             /\ H(c).wait = IF handler[c].wait > 0 THEN handler[c].wait - 1 ELSE 0
  <2>1. handler[c] \in HandlerType /\ handler[c].wait \in 0..PollInterval
    BY HandlerFacts DEF HandlerType
  <2> DEFINE l == IF handler[c].wait > 0 THEN handler[c].wait - 1 ELSE 0
  <2>2. l \in 0..PollInterval
    BY <2>1, PollAssumption
  <2>3. H(c) = [handler[c] EXCEPT !.wait = l]
    OBVIOUS
  <2> HIDE DEF l
  <2>4. /\ [handler[c] EXCEPT !.wait = l] \in HandlerType
        /\ [handler[c] EXCEPT !.wait = l].op = handler[c].op
        /\ [handler[c] EXCEPT !.wait = l].vec = handler[c].vec
        /\ [handler[c] EXCEPT !.wait = l].i = handler[c].i
        /\ [handler[c] EXCEPT !.wait = l].vals = handler[c].vals
        /\ [handler[c] EXCEPT !.wait = l].wait = l
    BY <2>1, <2>2 DEF HandlerType
  <2>5. QED BY <2>3, <2>4 DEF l
<1> HIDE DEF E, H
<1>4. Typed'
  BY <1>1, <1>2, <1>3 DEF MInv, Typed
<1>5. LiveIsValue'
  BY <1>1, <1>2 DEF MInv, LiveIsValue
<1>6. ASSUME NEW c \in Client
      PROVE  Consistent(handler'[c], val'[c]) /\ Outlives(handler'[c], entry')
  <2>1. handler'[c] = H(c)
    BY <1>1
  <2>2. Consistent(H(c), val[c])
    BY <1>3, HandlerFacts DEF Consistent
  <2> DEFINE w == handler[c].vec[handler[c].i]
  <2>3. ASSUME handler[c].op = "outbox", handler[c].i \in 1..Len(handler[c].vec),
               entry'[w].left > 0
        PROVE  H(c).wait < entry'[w].left
    <3>1. Current(c) = w /\ ~Exhausted(c)
      BY <2>3, HandlerFacts DEF Current, Exhausted
    <3>2. w \in Key /\ handler[c].wait \in Nat
      BY <2>3, <3>1, HandlerFacts
    <3>3. handler[c].wait > 0
      BY <1>1, <2>3, <3>1, <3>2 DEF Awake
    <3>4. entry[w].left > 0 /\ entry'[w].left = entry[w].left - 1
      BY <1>1, <1>2, <2>3, <3>2
    <3>5. handler[c].wait < entry[w].left
      BY <2>3, <3>4 DEF MInv, Outlives
    <3>6. QED BY <1>2, <1>3, <3>2, <3>3, <3>4, <3>5
  <2>4. Outlives(H(c), entry')
    BY <1>3, <2>3 DEF Outlives
  <2>5. QED BY <1>1, <2>1, <2>2, <2>4
<1>7. QED BY <1>4, <1>5, <1>6 DEF MInv

\* The server starts with nothing stored and no requests.
LEMMA InitInvariant == Init => MInv
<1> SUFFICES ASSUME Init PROVE MInv
  OBVIOUS
<1>1. Typed /\ LiveIsValue
  <2>1. [val |-> NoVal, left |-> 0] \in EntryType
    BY TTLAssumption DEF EntryType
  <2>2. NoReply \in ReplyType
    BY DEF NoReply, ReplyType
  <2>3. QED BY <2>1, <2>2, IdleFacts DEF Init, Typed, LiveIsValue
<1>2. QED BY <1>1, IdleFacts DEF Init, MInv

\* Every step keeps the invariant.
LEMMA NextInvariant ==
    ASSUME MInv, [Next]_vars
    PROVE  MInv'
<1>1. ASSUME NEW c \in Client, RequestInbox(c) \/ RequestOutbox(c) PROVE MInv'
  BY <1>1, RequestStep
<1>2. ASSUME NEW c \in Client, Serve(c) PROVE MInv'
  <2>1. CASE InboxRefuse(c) \/ InboxDone(c)
    <3>1. \E code \in {0, 200, 400} : Answer(c, code, <<>>)
      BY <2>1 DEF InboxRefuse, InboxDone
    <3>2. entry' = entry /\ val' = val /\ <<>> \in Seq(Val)
      BY <2>1 DEF InboxRefuse, InboxDone
    <3>3. QED BY <3>1, <3>2, AnswerStep
  <2>2. CASE OutboxDone(c)
    <3>1. handler[c].vals \in Seq(Val)
      BY HandlerFacts
    <3>2. QED BY <2>2, <3>1, AnswerStep DEF OutboxDone
  <2>3. QED BY <1>2, <2>1, <2>2, InboxStoreStep, PollHitStep, PollMissStep DEF Serve
<1>3. ASSUME NEW c \in Client, Disconnect(c) PROVE MInv'
  BY <1>3, IdleFacts, HandlerStep DEF Disconnect, MInv, Typed
<1>4. CASE UNCHANGED vars
  BY <1>4 DEF vars, MInv, Typed, LiveIsValue
<1>5. QED BY <1>1, <1>2, <1>3, <1>4, TickStep DEF Next

\* The invariant holds throughout, for any number of clients.
THEOREM MessengerInvariant == Spec => []MInv
<1>1. Init => MInv
  BY InitInvariant
<1>2. MInv /\ [Next]_vars => MInv'
  BY NextInvariant
<1>3. QED BY <1>1, <1>2, PTL DEF Spec

(***************************************************************************)
(* What follows from the invariant                                         *)
(***************************************************************************)
\* Requests stay within their vectors, and a query has read one value for
\* each key it has passed.
THEOREM MessengerTypeCorrect == Spec => []TypeOK
<1>1. MInv => TypeOK
  <2> SUFFICES ASSUME MInv PROVE TypeOK
    OBVIOUS
  <2>1. ASSUME NEW c \in Client
        PROVE  /\ handler[c].op \in {"none", "inbox", "outbox"}
               /\ handler[c].i \in 1..(Len(handler[c].vec) + 1)
               /\ handler[c].wait \in 0..PollInterval
               /\ handler[c].op = "inbox" => handler[c].vec \in Vectors(Message)
               /\ handler[c].op = "outbox" =>
                    /\ handler[c].vec \in Vectors(Key)
                    /\ Len(handler[c].vals) = handler[c].i - 1
               /\ reply[c].code \in {0, 200, 400}
    <3>1. handler[c] \in HandlerType /\ Consistent(handler[c], val[c])
      BY HandlerFacts
    <3>2. reply[c] \in ReplyType
      BY DEF MInv, Typed
    <3>3. QED BY <3>1, <3>2 DEF HandlerType, ReplyType, Consistent
  <2>2. QED BY <2>1 DEF MInv, Typed, EntryType, TypeOK
<1>2. QED BY <1>1, MessengerInvariant, PTL

\* A step that leaves a handler at its key leaves it the value of the key.
LEMMA ValueStays ==
    ASSUME MInv, [Next]_vars, NEW c \in Client, Waiting(c), Live(Current(c)),
           handler'[c] # Idle, handler'[c].i = handler[c].i
    PROVE  Live(Current(c))'
<1>1. /\ Current(c) \in Key /\ handler[c].op = "outbox" /\ ~Exhausted(c)
      /\ handler[c].i \in 1..Len(handler[c].vec)
  BY HandlerFacts DEF Waiting, Exhausted
<1>2. CASE Tick
  <2>1. handler'[c].vec = handler[c].vec /\ handler'[c].i = handler[c].i
    BY <1>2, HandlerFacts DEF Tick, HandlerType
  <2>2. Current(c)' = Current(c)
    BY <2>1 DEF Current
  <2>3. handler[c].wait > 0
    BY <1>1, <1>2, HandlerFacts DEF Tick, Awake
  <2>4. handler[c].wait < entry[Current(c)].left
    BY <1>1 DEF MInv, Outlives, Live, Current
  <2>5. entry[Current(c)] \in EntryType
    BY <1>1 DEF MInv, Typed
  <2>6. entry'[Current(c)].left = entry[Current(c)].left - 1
    BY <1>1, <1>2, <2>5 DEF Tick, Live, EntryType
  <2>7. entry[Current(c)].left \in Nat
    BY <2>5, TTLAssumption DEF EntryType
  <2>8. entry'[Current(c)].left > 0
    BY <2>3, <2>4, <2>6, <2>7, HandlerFacts
  <2>9. QED BY <2>2, <2>8 DEF Live
<1>3. CASE \E d \in Client : RequestInbox(d) \/ RequestOutbox(d) \/ Serve(d) \/ Disconnect(d)
  <2>1. PICK d \in Client :
          RequestInbox(d) \/ RequestOutbox(d) \/ Serve(d) \/ Disconnect(d)
    BY <1>3
  <2>2. \E k \in Key, v \in Val : entry' = entry \/ CacheSet(k, v)
    <3>1. CASE InboxStore(d)
      <4>1. Current(d) \in Message /\ Current(d).val # NoVal
        BY <3>1, HandlerFacts DEF InboxStore
      <4>2. QED BY <3>1, <4>1 DEF InboxStore, Message
    <3>2. CASE ~InboxStore(d)
      <4>1. entry' = entry
        BY <2>1, <3>2 DEF RequestInbox, RequestOutbox, Request, Serve, InboxRefuse,
           InboxDone, PollHit, PollMiss, OutboxDone, Disconnect
      <4>2. entry[Current(c)].val \in Val
        BY <1>1 DEF MInv, LiveIsValue, Live
      <4>3. QED BY <1>1, <4>1, <4>2
    <3>3. QED BY <3>1, <3>2
  <2>3. Live(Current(c)) => entry'[Current(c)].left > 0
    BY <1>1, <2>2, TTLAssumption DEF CacheSet, Live, MInv, Typed
  <2>4. handler'[c].vec = handler[c].vec
    <3>1. \A m \in Client : handler[m] \in HandlerType
      BY HandlerFacts
    <3>2. CASE d # c
      BY <2>1, <3>1, <3>2 DEF RequestInbox, RequestOutbox, Request, Serve, InboxStore,
         InboxRefuse, InboxDone, PollHit, PollMiss, OutboxDone, Disconnect, Answer,
         MInv, Typed
    <3>3. CASE d = c
      <4>1. PollHit(c) \/ PollMiss(c)
        BY <1>1, <2>1, <3>3 DEF RequestInbox, RequestOutbox, Request, Serve, InboxStore,
           InboxRefuse, InboxDone, OutboxDone, Disconnect, Answer, MInv, Typed
      <4>2. QED BY <3>1, <4>1 DEF PollHit, PollMiss, HandlerType, MInv, Typed
    <3>4. QED BY <3>2, <3>3
  <2>5. QED BY <2>3, <2>4 DEF Live, Current
<1>4. CASE UNCHANGED vars
  BY <1>4 DEF vars, Live, Current
<1>5. QED BY <1>2, <1>3, <1>4 DEF Next

\* While a handler of /outbox sleeps, the value that arrives under its key
\* does not expire.
THEOREM NoValueExpiresUnseen == Spec => NeverExpiresUnseen
<1>1. MInv /\ [Next]_vars =>
        \A c \in Client :
          Waiting(c) /\ Live(Current(c)) /\ handler'[c] # Idle
          /\ handler'[c].i = handler[c].i => Live(Current(c))'
  BY ValueStays
<1>2. QED BY <1>1, MessengerInvariant, PTL DEF Spec, NeverExpiresUnseen

\* Only the handler that has passed all keys of its query answers it.
LEMMA ReplyIsWhole ==
    ASSUME MInv, [Next]_vars, NEW c \in Client, handler[c].op = "outbox",
           reply'[c].code = 200, reply[c].code = 0
    PROVE  /\ Len(reply'[c].vals) = Len(handler[c].vec)
           /\ reply'[c].vals[Len(handler[c].vec)] = val[c]
<1>1. reply \in [Client -> ReplyType]
  BY DEF MInv, Typed
<1>2. OutboxDone(c)
  <2>1. reply' # reply
    OBVIOUS
  <2>2. PICK d \in Client : RequestInbox(d) \/ RequestOutbox(d) \/ InboxRefuse(d)
                            \/ InboxDone(d) \/ OutboxDone(d)
    <3>1. Next
      BY <2>1 DEF vars
    <3>2. ~Tick
      BY <2>1 DEF Tick
    <3>3. PICK d \in Client :
            RequestInbox(d) \/ RequestOutbox(d) \/ Serve(d) \/ Disconnect(d)
      BY <3>1, <3>2 DEF Next
    <3>4. ~InboxStore(d) /\ ~PollHit(d) /\ ~PollMiss(d) /\ ~Disconnect(d)
      BY <2>1 DEF InboxStore, PollHit, PollMiss, Disconnect
    <3>5. QED BY <3>3, <3>4 DEF Serve
  <2>3. d = c
    <3>1. \E r \in {NoReply} \cup {[code |-> n, vals |-> <<>>] : n \in {200, 400}}
                      \cup {[code |-> 200, vals |-> handler[d].vals]} :
            reply' = [reply EXCEPT ![d] = r]
      <4>1. CASE RequestInbox(d) \/ RequestOutbox(d)
        BY <4>1, Zenon DEF RequestInbox, RequestOutbox, Request
      <4>2. CASE InboxRefuse(d) \/ InboxDone(d) \/ OutboxDone(d)
        BY <4>2 DEF InboxRefuse, InboxDone, OutboxDone, Answer
      <4>3. QED BY <2>2, <4>1, <4>2
    <3>2. QED BY <1>1, <3>1
  <2>4. QED BY <2>2, <2>3 DEF RequestInbox, RequestOutbox, Request, InboxRefuse, InboxDone
<1>3. reply'[c].vals = handler[c].vals /\ handler[c].i > Len(handler[c].vec)
  BY <1>1, <1>2 DEF OutboxDone, Answer, Exhausted
<1>4. /\ handler[c].vec \in Vectors(Key) /\ handler[c].i \in 1..(Len(handler[c].vec) + 1)
      /\ Len(handler[c].vals) = handler[c].i - 1
      /\ handler[c].i > 1 => handler[c].vals[handler[c].i - 1] = val[c]
  BY HandlerFacts DEF Consistent
<1>5. Len(handler[c].vec) \in Nat \ {0}
  BY <1>4, VectorFacts
<1>6. handler[c].i = Len(handler[c].vec) + 1
  BY <1>3, <1>4, <1>5
<1>7. QED BY <1>3, <1>4, <1>5, <1>6

\* A query is answered with a value for each of its keys.
THEOREM QueryAnsweredWhole == Spec => ReplyIsComplete
<1>1. MInv /\ [Next]_vars =>
        \A c \in Client :
          handler[c].op = "outbox" /\ reply'[c].code = 200 /\ reply[c].code = 0
          => /\ Len(reply'[c].vals) = Len(handler[c].vec)
             /\ reply'[c].vals[Len(handler[c].vec)] = val[c]
  BY ReplyIsWhole
<1>2. QED BY <1>1, MessengerInvariant, PTL DEF Spec, ReplyIsComplete

(***************************************************************************)
(* The abstract mailbox                                                    *)
(***************************************************************************)
LiveKeys == {k \in Key : Live(k)}
Boxed == [k \in LiveKeys |-> entry[k].val]

\* Putting a value into the cache puts it into the mailbox.
LEMMA StoreIsPut ==
    ASSUME MInv, NEW c \in Client, InboxStore(c)
    PROVE  \E k \in Key, v \in Val : Abstract!Put(k, v)
<1>1. Current(c) \in Message /\ Current(c).val # NoVal
  BY HandlerFacts DEF InboxStore
<1>2. PICK k \in Key, v \in Val : CacheSet(k, v) /\ val' = val
  BY <1>1 DEF InboxStore, Message
<1>3. /\ entry \in [Key -> EntryType]
      /\ entry' = [entry EXCEPT ![k] = [val |-> v, left |-> TTL]]
  BY <1>2 DEF MInv, Typed, CacheSet
<1>4. {j \in Key : entry'[j].left > 0} = {j \in Key : entry[j].left > 0} \cup {k}
  BY <1>2, <1>3, TTLAssumption
<1>5. \A j \in Key : entry'[j].val = IF j = k THEN v ELSE entry[j].val
  BY <1>2, <1>3
<1>6. Abstract!Put(k, v)
  <2>1. LiveKeys' = LiveKeys \cup {k}
    BY <1>4 DEF LiveKeys, Live
  <2>2. DOMAIN Boxed = LiveKeys /\ \A j \in LiveKeys : Boxed[j] = entry[j].val
    BY DEF Boxed
  <2>3. \A j \in LiveKeys \cup {k} : entry'[j].val = IF j = k THEN v ELSE Boxed[j]
    BY <1>2, <1>5, <2>2 DEF LiveKeys
  <2>4. Boxed' = [j \in LiveKeys \cup {k} |-> entry'[j].val]
    BY <2>1 DEF Boxed
  <2>5. Boxed' = [j \in DOMAIN Boxed \cup {k} |-> IF j = k THEN v ELSE Boxed[j]]
    BY <2>2, <2>3, <2>4
  <2>6. Abstract!Put(k, v) <=>
          /\ Boxed' = [j \in DOMAIN Boxed \cup {k} |-> IF j = k THEN v ELSE Boxed[j]]
          /\ val' = val
    BY DEF Abstract!Put, Abstract!With, Boxed, LiveKeys
  <2>7. QED BY <1>2, <2>5, <2>6
<1>7. QED BY <1>6

\* A tick loses the values whose time is over.
LEMMA TickIsLose ==
    ASSUME MInv, Tick
    PROVE  \E K \in SUBSET Abstract!Stored : Abstract!Lose(K)
<1>0. PICK K \in SUBSET Key : K = {k \in Key : entry[k].left = 1}
  OBVIOUS
<1>1. \A k \in Key : entry[k] \in EntryType /\ entry[k].left \in Nat
  BY TTLAssumption DEF MInv, Typed, EntryType
<1>2. \A k \in Key : /\ entry'[k].val = entry[k].val
                     /\ entry'[k].left = IF entry[k].left > 0 THEN entry[k].left - 1 ELSE 0
  BY <1>1 DEF Tick, EntryType
<1>3. {j \in Key : entry'[j].left > 0} = {j \in Key : entry[j].left > 0} \ K
  BY <1>0, <1>1, <1>2
<1>4. Abstract!Stored = {j \in Key : entry[j].left > 0}
  BY DEF Abstract!Stored, Live
<1>5. K \in SUBSET Abstract!Stored
  BY <1>0, <1>1, <1>4
<1>6. Abstract!Lose(K)
  <2>1. LiveKeys' = LiveKeys \ K
    BY <1>3 DEF LiveKeys, Live
  <2>2. \A j \in LiveKeys : Boxed[j] = entry[j].val /\ entry'[j].val = entry[j].val
    BY <1>2 DEF Boxed, LiveKeys
  <2>3. Boxed' = [j \in LiveKeys \ K |-> entry'[j].val]
    BY <2>1 DEF Boxed
  <2>4. Boxed' = [j \in LiveKeys \ K |-> Boxed[j]]
    BY <2>2, <2>3
  <2>5. Abstract!Stored = LiveKeys
    BY <1>4 DEF LiveKeys, Live
  <2>6. val' = val
    BY DEF Tick
  <2>7. Abstract!Lose(K) <=>
          Boxed' = [j \in Abstract!Stored \ K |-> Boxed[j]] /\ val' = val
    BY DEF Abstract!Lose, Boxed, LiveKeys
  <2>8. QED BY <2>4, <2>5, <2>6, <2>7
<1>7. QED BY <1>5, <1>6

\* A hit fetches, a new request asks, and nothing else is seen.
LEMMA StepsToMailbox ==
    ASSUME MInv, [Next]_vars
    PROVE  [Abstract!MailboxNext]_Abstract!mailboxVars
<1>1. ASSUME NEW c \in Client, InboxStore(c) PROVE Abstract!MailboxNext
  BY <1>1, StoreIsPut DEF Abstract!MailboxNext
<1>2. ASSUME Tick PROVE Abstract!MailboxNext
  BY <1>2, TickIsLose DEF Abstract!MailboxNext
<1>3. ASSUME NEW c \in Client, RequestInbox(c) \/ RequestOutbox(c)
      PROVE  Abstract!MailboxNext
  <2>1. Abstract!Ask(c)
    BY <1>3 DEF RequestInbox, RequestOutbox, Request, Abstract!Ask, Live
  <2>2. QED BY <2>1 DEF Abstract!MailboxNext
<1>4. ASSUME NEW c \in Client, PollHit(c) PROVE Abstract!MailboxNext
  <2> DEFINE k == Current(c)
  <2>1. k \in Key /\ Live(k)
    BY <1>4, HandlerFacts DEF PollHit, Awake
  <2>2. val' = [val EXCEPT ![c] = entry[k].val] /\ entry' = entry
    BY <1>4 DEF PollHit
  <2> HIDE DEF k
  <2>3. k \in Abstract!Stored
    BY <2>1 DEF Abstract!Stored
  <2>4. Abstract!Fetch(c, k)
    BY <2>1, <2>2, <2>3 DEF Abstract!Fetch, Abstract!Stored, Live
  <2>5. QED BY <2>3, <2>4 DEF Abstract!MailboxNext
<1>5. ASSUME NEW c \in Client,
             InboxRefuse(c) \/ InboxDone(c) \/ PollMiss(c) \/ OutboxDone(c) \/ Disconnect(c)
      PROVE  UNCHANGED Abstract!mailboxVars
  BY <1>5 DEF InboxRefuse, InboxDone, PollMiss, OutboxDone, Disconnect,
     Abstract!mailboxVars, Live
<1>6. CASE UNCHANGED vars
  BY <1>6 DEF vars, Abstract!mailboxVars, Live
<1>7. QED BY <1>1, <1>2, <1>3, <1>4, <1>5, <1>6 DEF Next, Serve

\* The server implements the mailbox: what its handlers do is to put, to
\* fetch, to ask and to lose values.
THEOREM ServerImplementsMailbox == Spec => ImplementsMailbox
<1>1. Init => Abstract!MailboxInit
  BY DEF Init, Abstract!MailboxInit, Live
<1>2. MInv /\ [Next]_vars => [Abstract!MailboxNext]_Abstract!mailboxVars
  BY StepsToMailbox
<1>3. QED BY <1>1, <1>2, MessengerInvariant, PTL
          DEF Spec, ImplementsMailbox, Abstract!MailboxSpec


(***************************************************************************)
(* SessionRegistry: sets of at most one element.                           *)
(***************************************************************************)
LEMMA OptionalElement == ASSUME NEW S, NEW X \in Optional(S), NEW x \in X PROVE x \in S
BY DEF Optional
LEMMA NoneIsOptional == ASSUME NEW S PROVE {} \in Optional(S)
BY DEF Optional
LEMMA OneIsOptional == ASSUME NEW S, NEW x \in S PROVE {x} \in Optional(S)
BY DEF Optional

Lookup == [sid : Sid, read : SessionConfig]
Given == [sid : Sid, got : SessionConfig]

\* What a client was given, and can offer, is a configuration.
LEMMA OffersAreConfigs ==
    ASSUME RegistryTypeOK, NEW c \in Caller, NEW sc \in Offers(c)
    PROVE  sc \in SessionConfig
<1>1. CASE sc \in [cfg : Config, logged : {FALSE}]
  BY <1>1 DEF SessionConfig
<1>2. CASE \E a \in answer[c] : sc = a.got
  <2>1. PICK a \in answer[c] : sc = a.got
    BY <1>2
  <2>2. answer[c] \in Optional(Given)
    BY DEF RegistryTypeOK, Given
  <2>3. a \in Given
    BY <2>1, <2>2, OptionalElement
  <2>4. QED BY <2>1, <2>3 DEF Given
<1>3. QED BY <1>1, <1>2 DEF Offers

(***************************************************************************)
(* The types are kept because Connect stops at its last attempt: a client  *)
(* that still connects has one left.                                       *)
(***************************************************************************)
AttemptLeft == \A c \in Caller : conn[c].state = "connecting" => conn[c].attempt < MaxAttempt
RegistryTyped == RegistryTypeOK /\ AttemptLeft

LEMMA TypeInit == RegistryInit => RegistryTyped
<1> SUFFICES ASSUME RegistryInit PROVE RegistryTyped
  OBVIOUS
<1>1. MaxAttempt \in Nat /\ MaxAttempt > 0 /\ MaxCreate \in Nat
  BY BoundsAssumption
<1>2. RegistryTypeOK
  BY <1>1, NoneIsOptional DEF RegistryInit, RegistryTypeOK
<1>3. QED BY <1>1, <1>2 DEF RegistryInit, RegistryTyped, AttemptLeft

LEMMA PingStep ==
    ASSUME RegistryTyped, NEW c \in Caller, NEW outcome \in {"ok", "status", "network"}, Ping(c, outcome)
    PROVE  RegistryTyped'
<1> DEFINE n == conn[c].attempt + 1
           new == [state |-> AfterPing(n, outcome), attempt |-> n, last |-> outcome,
                   reached |-> conn[c].reached \/ outcome = "ok"]
<1>1. MaxAttempt \in Nat
  BY BoundsAssumption
<1>2. conn[c].attempt \in 0..MaxAttempt /\ conn[c].attempt < MaxAttempt /\ conn[c].reached \in BOOLEAN
  BY DEF Ping, RegistryTyped, RegistryTypeOK, AttemptLeft
<1>3. n \in 0..MaxAttempt
  BY <1>1, <1>2
<1>4. conn' = [conn EXCEPT ![c] = new]
  BY DEF Ping
<1>5. AfterPing(n, outcome) \in {"connecting", "connected", "failed"}
  BY DEF AfterPing
<1>6. new.reached \in BOOLEAN
  BY <1>2
<1>7. AfterPing(n, outcome) = "connecting" => n < MaxAttempt
  BY <1>1, <1>3 DEF AfterPing
<1> HIDE DEF n
<1>8. new \in [state : {"connecting", "connected", "failed"}, attempt : 0..MaxAttempt,
              last : {"none", "ok", "status", "network"}, reached : BOOLEAN]
  BY <1>3, <1>5, <1>6
<1>9. AttemptLeft'
  BY <1>4, <1>7 DEF RegistryTyped, RegistryTypeOK, AttemptLeft
<1> HIDE DEF new
<1>10. UNCHANGED <<registry, lookup, answer>>
  BY DEF Ping
<1>11. UNCHANGED <<store, created, used>>
  BY <1>10 DEF registry
<1>12. RegistryTypeOK'
  BY <1>4, <1>8, <1>10, <1>11 DEF RegistryTyped, RegistryTypeOK
<1>13. QED BY <1>9, <1>12 DEF RegistryTyped

\* A lookup's second half, with the copy it read.
MarkCopy(c, l) ==
    /\ store' = [store EXCEPT ![l.sid] = {[l.read EXCEPT !.logged = TRUE]}]
    /\ used' = [used EXCEPT ![l.sid] = @ + 1]
    /\ answer' = [answer EXCEPT ![c] = {[sid |-> l.sid, got |-> l.read]}]
    /\ lookup' = [lookup EXCEPT ![c] = {}]
    /\ UNCHANGED <<conn, created>>

LEMMA ACopyIsMarked ==
    ASSUME RegistryTypeOK, NEW c \in Caller, MarkAndAnswer(c)
    PROVE  \E l \in lookup[c] : l \in Lookup /\ MarkCopy(c, l)
<1>1. PICK l \in lookup[c] : MarkCopy(c, l)
  BY DEF MarkAndAnswer, MarkCopy
<1>2. lookup[c] \in Optional(Lookup)
  BY DEF RegistryTypeOK, Lookup
<1>3. QED BY <1>1, <1>2, OptionalElement

\* One step per action of a client or of the store.
LEMMA TypeStep == RegistryTyped /\ [RegistryNext]_rvars => RegistryTyped'
<1> SUFFICES ASSUME RegistryTyped, [RegistryNext]_rvars PROVE RegistryTyped'
  OBVIOUS
<1>t. RegistryTypeOK /\ AttemptLeft
  BY DEF RegistryTyped
<1>a. ASSUME conn' = conn, RegistryTypeOK' PROVE RegistryTyped'
  BY <1>t, <1>a DEF RegistryTyped, AttemptLeft
<1>1. ASSUME NEW c \in Caller, MarkAndAnswer(c) PROVE RegistryTyped'
  <2>1. PICK l \in lookup[c] : l \in Lookup /\ MarkCopy(c, l)
    BY <1>1, <1>t, ACopyIsMarked
  <2>2. l.sid \in Sid /\ l.read \in SessionConfig
    BY <2>1 DEF Lookup
  <2>3. {[l.read EXCEPT !.logged = TRUE]} \in Optional(SessionConfig)
    <3>1. [l.read EXCEPT !.logged = TRUE] \in SessionConfig
      BY <2>2 DEF SessionConfig
    <3>2. QED BY <3>1, OneIsOptional
  <2>4. {[sid |-> l.sid, got |-> l.read]} \in Optional(Given)
    <3>1. [sid |-> l.sid, got |-> l.read] \in Given
      BY <2>2 DEF Given
    <3>2. QED BY <3>1, OneIsOptional
  <2> DEFINE marked == {[l.read EXCEPT !.logged = TRUE]}
             given == {[sid |-> l.sid, got |-> l.read]}
  <2>5. /\ store' = [store EXCEPT ![l.sid] = marked]
        /\ answer' = [answer EXCEPT ![c] = given]
        /\ used' = [used EXCEPT ![l.sid] = used[l.sid] + 1]
        /\ lookup' = [lookup EXCEPT ![c] = {}]
        /\ UNCHANGED <<conn, created>>
    BY <2>1 DEF MarkCopy
  <2> HIDE DEF marked, given
  <2>6. store' \in [Sid -> Optional(SessionConfig)] /\ used' \in [Sid -> Nat]
    BY <1>t, <2>2, <2>3, <2>5 DEF RegistryTypeOK, marked
  <2>7. answer' \in [Caller -> Optional(Given)]
    BY <1>t, <2>4, <2>5 DEF RegistryTypeOK, Given, given
  <2>8. lookup' \in [Caller -> Optional(Lookup)]
    BY <1>t, <2>5, NoneIsOptional DEF RegistryTypeOK, Lookup
  <2>9. RegistryTypeOK'
    BY <1>t, <2>5, <2>6, <2>7, <2>8 DEF RegistryTypeOK, Lookup, Given
  <2>10. QED BY <1>a, <2>5, <2>9
<1>2. ASSUME NEW c \in Caller, NEW s \in Sid, NEW sc \in Offers(c), NEW generated \in BOOLEAN,
             NewSession(c, s, sc, generated)
      PROVE  RegistryTyped'
  <2>1. {sc} \in Optional(SessionConfig)
    <3>1. sc \in SessionConfig
      BY <1>t, OffersAreConfigs
    <3>2. QED BY <3>1, OneIsOptional
  <2>2. created[s] + 1 \in 0..MaxCreate
    BY <1>2, <1>t, BoundsAssumption DEF NewSession, RegistryTypeOK
  <2>3. RegistryTypeOK'
    BY <1>2, <1>t, <2>1, <2>2 DEF NewSession, RegistryTypeOK
  <2>4. QED BY <1>a, <1>2, <2>3 DEF NewSession
<1>3. ASSUME NEW c \in Caller, NEW s \in Sid, GetAbsent(c, s) PROVE RegistryTyped'
  <2>1. RegistryTypeOK'
    BY <1>3, <1>t, NoneIsOptional DEF GetAbsent, RegistryTypeOK, registry
  <2>2. QED BY <1>a, <1>3, <2>1 DEF GetAbsent
<1>4. ASSUME NEW c \in Caller, NEW s \in Sid, GetLogged(c, s) \/ GetUnlogged(c, s) PROVE RegistryTyped'
  <2>1. PICK sc \in store[s] :
          \/ answer' = [answer EXCEPT ![c] = {[sid |-> s, got |-> sc]}]
             /\ UNCHANGED <<conn, registry, lookup>>
          \/ lookup' = [lookup EXCEPT ![c] = {[sid |-> s, read |-> sc]}]
             /\ UNCHANGED <<conn, registry, answer>>
    BY <1>4 DEF GetLogged, GetUnlogged
  <2>2. sc \in SessionConfig
    <3>1. store[s] \in Optional(SessionConfig)
      BY <1>t DEF RegistryTypeOK
    <3>2. QED BY <2>1, <3>1, OptionalElement
  <2>3. {[sid |-> s, got |-> sc]} \in Optional(Given)
    <3>1. [sid |-> s, got |-> sc] \in Given
      BY <2>2 DEF Given
    <3>2. QED BY <3>1, OneIsOptional
  <2>4. {[sid |-> s, read |-> sc]} \in Optional(Lookup)
    <3>1. [sid |-> s, read |-> sc] \in Lookup
      BY <2>2 DEF Lookup
    <3>2. QED BY <3>1, OneIsOptional
  <2>5. RegistryTypeOK'
    BY <1>t, <2>1, <2>3, <2>4 DEF RegistryTypeOK, registry, Given, Lookup
  <2>6. QED BY <1>a, <2>1, <2>5
<1>5. ASSUME NEW s \in Sid, Expire(s) PROVE RegistryTyped'
  <2>1. RegistryTypeOK'
    BY <1>5, <1>t, NoneIsOptional DEF Expire, RegistryTypeOK
  <2>2. QED BY <1>a, <1>5, <2>1 DEF Expire
<1>6. CASE UNCHANGED rvars
  BY <1>6, <1>t DEF RegistryTyped, RegistryTypeOK, AttemptLeft, rvars, registry
<1>7. QED BY <1>1, <1>2, <1>3, <1>4, <1>5, <1>6, PingStep DEF RegistryNext

\* Type correctness of the registry and of its clients.
THEOREM RegistryTypeCorrect == RegistrySpec => []RegistryTypeOK
<1>1. RegistryTyped => RegistryTypeOK
  BY DEF RegistryTyped
<1>2. QED BY <1>1, TypeInit, TypeStep, PTL DEF RegistrySpec

(***************************************************************************)
(* Connect                                                                 *)
(***************************************************************************)
LEMMA RespondedStep ==
    RegistryTyped /\ ConnectedServerResponded /\ [RegistryNext]_rvars => ConnectedServerResponded'
<1> SUFFICES ASSUME RegistryTyped, ConnectedServerResponded, [RegistryNext]_rvars
             PROVE  ConnectedServerResponded'
  OBVIOUS
<1>1. ASSUME NEW c \in Caller, NEW outcome \in {"ok", "status", "network"}, Ping(c, outcome)
      PROVE  ConnectedServerResponded'
  <2>1. conn'[c].last = outcome /\ conn'[c].state = AfterPing(conn[c].attempt + 1, outcome)
    BY <1>1 DEF Ping, RegistryTyped, RegistryTypeOK
  <2>2. \A d \in Caller : d # c => conn'[d] = conn[d]
    BY <1>1 DEF Ping, RegistryTyped, RegistryTypeOK
  <2>3. outcome = "network" => conn'[c].state # "connected"
    BY <2>1 DEF AfterPing
  <2>4. QED BY <2>1, <2>2, <2>3 DEF ConnectedServerResponded
<1>2. ASSUME conn' = conn PROVE ConnectedServerResponded'
  BY <1>2 DEF ConnectedServerResponded
<1>3. QED
  BY <1>1, <1>2
  DEF RegistryNext, NewSession, GetAbsent, GetLogged, GetUnlogged, MarkAndAnswer, Expire, rvars

\* Connect reports no success when its last ping found no server, however
\* many pings it may send.
THEOREM ConnectSucceedsOnResponse == RegistrySpec => []ConnectedServerResponded
<1>1. RegistryInit => ConnectedServerResponded
  BY DEF RegistryInit, ConnectedServerResponded
<1>2. QED BY <1>1, TypeInit, TypeStep, RespondedStep, PTL DEF RegistrySpec

(***************************************************************************)
(* Marking and logging.  A client can still log the use of s while one of  *)
(* its lookups holds a copy of it, and any client can while the stored     *)
(* configuration is not marked.  A registration lets every client log      *)
(* once; marking a copy takes that away from the client that does it, and  *)
(* from all that hold no copy.                                             *)
(***************************************************************************)
Pending(s) == {c \in Caller : \E l \in lookup[c] : l.sid = s}
Unmarked(s) == \E sc \in store[s] : ~sc.logged
MayLog(s) == IF Unmarked(s) THEN Caller ELSE Pending(s)
Budget(s) == used[s] + Cardinality(MayLog(s)) <= created[s] * Cardinality(Caller)
LogInv == \A s \in Sid : Budget(s)

LEMMA MayLogIsFinite ==
    ASSUME NEW s \in Sid
    PROVE  /\ MayLog(s) \subseteq Caller
           /\ IsFiniteSet(MayLog(s)) /\ Cardinality(MayLog(s)) \in Nat
           /\ Cardinality(MayLog(s)) <= Cardinality(Caller) /\ Cardinality(Caller) \in Nat
<1>1. MayLog(s) \subseteq Caller
  BY DEF MayLog, Pending
<1>2. IsFiniteSet(MayLog(s)) /\ Cardinality(MayLog(s)) <= Cardinality(Caller)
  BY <1>1, CallerAssumption, FS_Subset
<1>3. QED BY <1>1, <1>2, CallerAssumption, FS_CardinalityType

LEMMA MayLogIsFinitePrime ==
    ASSUME NEW s \in Sid
    PROVE  /\ MayLog(s)' \subseteq Caller
           /\ IsFiniteSet(MayLog(s)') /\ Cardinality(MayLog(s)') \in Nat
           /\ Cardinality(MayLog(s)') <= Cardinality(Caller)
<1>1. MayLog(s)' \subseteq Caller
  BY DEF MayLog, Pending
<1>2. IsFiniteSet(MayLog(s)') /\ Cardinality(MayLog(s)') <= Cardinality(Caller)
  BY <1>1, CallerAssumption, FS_Subset
<1>3. QED BY <1>1, <1>2, FS_CardinalityType

\* A step that lets nobody else log, and neither logs nor registers.
LEMMA BudgetKept ==
    ASSUME NEW s \in Sid, Budget(s), MayLog(s)' \subseteq MayLog(s),
           RegistryTypeOK, used'[s] = used[s], created'[s] = created[s]
    PROVE  Budget(s)'
<1>1. Cardinality(MayLog(s)') <= Cardinality(MayLog(s))
  BY MayLogIsFinite, FS_Subset
<1>2. /\ used[s] \in Nat /\ Cardinality(MayLog(s)) \in Nat /\ Cardinality(MayLog(s)') \in Nat
      /\ created[s] \in Nat /\ Cardinality(Caller) \in Nat
  BY MayLogIsFinite, MayLogIsFinitePrime DEF RegistryTypeOK
<1>3. created[s] * Cardinality(Caller) \in Nat
  BY <1>2
<1> DEFINE all == created[s] * Cardinality(Caller)
<1>4. used[s] + Cardinality(MayLog(s)) <= all
  BY DEF Budget
<1> HIDE DEF all
<1>5. used[s] + Cardinality(MayLog(s)') <= all
  BY <1>1, <1>2, <1>3, <1>4 DEF all
<1>6. QED BY <1>5 DEF Budget, all

LEMMA LogInit == RegistryInit => LogInv
<1> SUFFICES ASSUME RegistryInit, NEW s \in Sid PROVE Budget(s)
  BY DEF LogInv
<1>1. MayLog(s) = {}
  BY DEF RegistryInit, MayLog, Pending, Unmarked
<1>2. Cardinality({}) = 0
  BY FS_EmptySet
<1>3. used[s] = 0 /\ created[s] = 0
  BY DEF RegistryInit
<1>4. Cardinality(Caller) \in Nat
  BY CallerAssumption, FS_CardinalityType
<1>5. QED BY <1>1, <1>2, <1>3, <1>4 DEF Budget

\* The handler that marks a copy leaves the stored configuration marked, and
\* is itself no longer pending.
LEMMA MarkLog ==
    ASSUME RegistryTyped, LogInv, NEW c \in Caller, MarkAndAnswer(c)
    PROVE  LogInv'
<1> SUFFICES ASSUME NEW s \in Sid PROVE Budget(s)'
  BY DEF LogInv
<1>t. RegistryTypeOK /\ Budget(s)
  BY DEF RegistryTyped, LogInv
<1>1. PICK l \in lookup[c] : l \in Lookup /\ MarkCopy(c, l)
  BY <1>t, ACopyIsMarked
<1>2. lookup' = [lookup EXCEPT ![c] = {}] /\ created' = created
  BY <1>1 DEF MarkCopy
<1>3. Pending(s)' \subseteq Pending(s) \ {c}
  BY <1>2, <1>t DEF Pending, RegistryTypeOK
<1>4. CASE s = l.sid
  <2>1. store'[s] = {[l.read EXCEPT !.logged = TRUE]}
    BY <1>1, <1>4, <1>t DEF MarkCopy, RegistryTypeOK
  <2>2. [l.read EXCEPT !.logged = TRUE].logged = TRUE
    BY <1>1 DEF Lookup, SessionConfig
  <2>3. ~Unmarked(s)'
    BY <2>1, <2>2 DEF Unmarked
  <2>4. MayLog(s)' \subseteq MayLog(s) \ {c}
    BY <1>3, <2>3 DEF MayLog, Pending
  <2>5. c \in MayLog(s)
    BY <1>1, <1>4 DEF MayLog, Pending
  <2>6. IsFiniteSet(MayLog(s) \ {c}) /\ Cardinality(MayLog(s) \ {c}) = Cardinality(MayLog(s)) - 1
    BY <2>5, MayLogIsFinite, FS_RemoveElement
  <2>7. Cardinality(MayLog(s)') <= Cardinality(MayLog(s)) - 1
    BY <2>4, <2>6, FS_Subset
  <2>8. used'[s] = used[s] + 1
    BY <1>1, <1>4, <1>t DEF MarkCopy, RegistryTypeOK
  <2>9. /\ used[s] \in Nat /\ Cardinality(MayLog(s)) \in Nat /\ Cardinality(MayLog(s)') \in Nat
        /\ created[s] \in Nat /\ Cardinality(Caller) \in Nat
    BY <1>t, MayLogIsFinite, MayLogIsFinitePrime DEF RegistryTypeOK
  <2> DEFINE all == created[s] * Cardinality(Caller)
  <2>10. all \in Nat
    BY <2>9
  <2>11. used[s] + Cardinality(MayLog(s)) <= all
    BY <1>t DEF Budget
  <2> HIDE DEF all
  <2>12. used'[s] + Cardinality(MayLog(s)') <= all
    BY <2>7, <2>8, <2>9, <2>10, <2>11
  <2>13. QED BY <2>12, <1>2 DEF Budget, all
<1>5. CASE s # l.sid
  <2>1. store'[s] = store[s] /\ used'[s] = used[s]
    BY <1>1, <1>5, <1>t DEF MarkCopy, RegistryTypeOK
  <2>2. MayLog(s)' \subseteq MayLog(s)
    BY <1>3, <2>1 DEF MayLog, Unmarked
  <2>3. QED BY <1>2, <1>t, <2>1, <2>2, BudgetKept
<1>6. QED BY <1>4, <1>5

\* A registration lets every client log once more.
LEMMA NewSessionLog ==
    ASSUME RegistryTyped, LogInv, NEW c \in Caller, NEW r \in Sid, NEW sc, NEW generated,
           NewSession(c, r, sc, generated)
    PROVE  LogInv'
<1> SUFFICES ASSUME NEW s \in Sid PROVE Budget(s)'
  BY DEF LogInv
<1>t. RegistryTypeOK /\ Budget(s)
  BY DEF RegistryTyped, LogInv
<1>1. used' = used /\ lookup' = lookup
  BY DEF NewSession
<1>2. CASE s = r
  <2>1. created'[s] = created[s] + 1
    BY <1>2, <1>t DEF NewSession, RegistryTypeOK
  <2>2. /\ used[s] \in Nat /\ Cardinality(MayLog(s)) \in Nat /\ Cardinality(MayLog(s)') \in Nat
        /\ created[s] \in Nat /\ Cardinality(Caller) \in Nat
    BY <1>t, MayLogIsFinite, MayLogIsFinitePrime DEF RegistryTypeOK
  <2>3. (created[s] + 1) * Cardinality(Caller) = created[s] * Cardinality(Caller) + Cardinality(Caller)
    BY <2>2
  <2> DEFINE all == created[s] * Cardinality(Caller)
  <2>4. all \in Nat
    BY <2>2
  <2>5. used[s] + Cardinality(MayLog(s)) <= all
    BY <1>t DEF Budget
  <2>6. Cardinality(MayLog(s)') <= Cardinality(Caller)
    BY MayLogIsFinitePrime
  <2> HIDE DEF all
  <2>7. used[s] + Cardinality(MayLog(s)') <= all + Cardinality(Caller)
    BY <2>2, <2>4, <2>5, <2>6
  <2>8. QED BY <1>1, <2>1, <2>3, <2>7 DEF Budget, all
<1>3. CASE s # r
  <2>1. store'[s] = store[s] /\ created'[s] = created[s]
    BY <1>3, <1>t DEF NewSession, RegistryTypeOK
  <2>2. MayLog(s)' \subseteq MayLog(s)
    BY <1>1, <2>1 DEF MayLog, Unmarked, Pending
  <2>3. QED BY <1>1, <1>t, <2>1, <2>2, BudgetKept
<1>4. QED BY <1>2, <1>3

\* A lookup that starts finds the stored configuration unmarked.
LEMMA LookupLog ==
    ASSUME RegistryTyped, LogInv, NEW c \in Caller, NEW r \in Sid, GetUnlogged(c, r)
    PROVE  LogInv'
<1> SUFFICES ASSUME NEW s \in Sid PROVE Budget(s)'
  BY DEF LogInv
<1>t. RegistryTypeOK /\ Budget(s)
  BY DEF RegistryTyped, LogInv
<1>1. PICK sc \in store[r] : /\ ~sc.logged /\ lookup[c] = {}
                            /\ lookup' = [lookup EXCEPT ![c] = {[sid |-> r, read |-> sc]}]
                            /\ UNCHANGED <<store, created, used>>
  BY DEF GetUnlogged, Ready, registry
<1>2. CASE s = r
  <2>1. Unmarked(s)
    BY <1>1, <1>2 DEF Unmarked
  <2>2. MayLog(s)' \subseteq MayLog(s)
    BY <2>1, MayLogIsFinitePrime DEF MayLog
  <2>3. QED BY <1>1, <1>t, <2>2, BudgetKept
<1>3. CASE s # r
  <2>1. \A l \in lookup'[c] : l.sid # s
    BY <1>1, <1>3, <1>t DEF RegistryTypeOK
  <2>2. \A d \in Caller : d # c => lookup'[d] = lookup[d]
    BY <1>1, <1>t DEF RegistryTypeOK
  <2>3. Pending(s)' \subseteq Pending(s)
    BY <2>1, <2>2 DEF Pending
  <2>4. MayLog(s)' \subseteq MayLog(s)
    BY <1>1, <2>3 DEF MayLog, Unmarked
  <2>5. QED BY <1>1, <1>t, <2>4, BudgetKept
<1>4. QED BY <1>2, <1>3

LEMMA ExpireLog ==
    ASSUME RegistryTyped, LogInv, NEW r \in Sid, Expire(r)
    PROVE  LogInv'
<1> SUFFICES ASSUME NEW s \in Sid PROVE Budget(s)'
  BY DEF LogInv
<1>t. RegistryTypeOK /\ Budget(s)
  BY DEF RegistryTyped, LogInv
<1>1. UNCHANGED <<created, used, lookup>> /\ store'[s] \in {{}, store[s]}
  BY <1>t DEF Expire, RegistryTypeOK
<1>2. MayLog(s)' \subseteq MayLog(s)
  BY <1>1, MayLogIsFinitePrime DEF MayLog, Unmarked, Pending
<1>3. QED BY <1>1, <1>2, <1>t, BudgetKept

LEMMA LogStep == RegistryTyped /\ LogInv /\ [RegistryNext]_rvars => LogInv'
<1> SUFFICES ASSUME RegistryTyped, LogInv, [RegistryNext]_rvars PROVE LogInv'
  OBVIOUS
<1>1. ASSUME UNCHANGED <<registry, lookup>> PROVE LogInv'
  BY <1>1 DEF registry, LogInv, Budget, MayLog, Pending, Unmarked
<1>2. ASSUME NEW c \in Caller, \/ \E outcome \in {"ok", "status", "network"} : Ping(c, outcome)
                               \/ \E s \in Sid : GetAbsent(c, s) \/ GetLogged(c, s)
      PROVE  LogInv'
  <2>1. UNCHANGED <<registry, lookup>>
    BY <1>2 DEF Ping, GetAbsent, GetLogged
  <2>2. QED BY <1>1, <2>1
<1>3. CASE UNCHANGED rvars
  BY <1>1, <1>3 DEF rvars
<1>4. QED BY <1>2, <1>3, MarkLog, NewSessionLog, LookupLog, ExpireLog DEF RegistryNext

\* However lookups overlap, one registration is logged at most once for each
\* client, for any number of clients and registrations.
THEOREM UseIsLoggedOncePerClient == RegistrySpec => []LoggedPerClient
<1>1. RegistryTyped /\ LogInv => LoggedPerClient
  <2> SUFFICES ASSUME RegistryTyped, LogInv, NEW s \in Sid
               PROVE  used[s] <= created[s] * Cardinality(Caller)
    BY DEF LoggedPerClient
  <2>1. /\ used[s] \in Nat /\ Cardinality(MayLog(s)) \in Nat
        /\ created[s] \in Nat /\ Cardinality(Caller) \in Nat
    BY MayLogIsFinite DEF RegistryTyped, RegistryTypeOK
  <2> DEFINE all == created[s] * Cardinality(Caller)
  <2>2. used[s] + Cardinality(MayLog(s)) <= all /\ all \in Nat
    BY <2>1 DEF LogInv, Budget
  <2> HIDE DEF all
  <2>3. used[s] <= all
    BY <2>1, <2>2
  <2>4. QED BY <2>3 DEF all
<1>2. QED BY <1>1, TypeInit, TypeStep, LogInit, LogStep, PTL DEF RegistrySpec

\* Once marked, a session stays marked until it is registered again or
\* expires, whatever copies overlapping lookups hold.
THEOREM MarkedUntilRegisteredAgain == RegistrySpec => MarkerIsKept
<1> DEFINE Kept == \A s \in Sid : \A old \in store[s] : \A new \in store'[s] :
                     old.logged /\ ~new.logged => created'[s] = created[s] + 1
<1>1. RegistryTyped /\ [RegistryNext]_rvars => Kept
  <2> SUFFICES ASSUME RegistryTyped, [RegistryNext]_rvars, NEW s \in Sid, NEW old \in store[s], NEW new \in store'[s],
                      old.logged, ~new.logged
               PROVE  created'[s] = created[s] + 1
    OBVIOUS
  <2>t. RegistryTypeOK
    BY DEF RegistryTyped
  <2>1. ASSUME store'[s] = store[s] PROVE FALSE
    <3>1. store[s] \in Optional(SessionConfig)
      BY <2>t DEF RegistryTypeOK
    <3>2. new = old
      BY <2>1, <3>1 DEF Optional
    <3>3. QED BY <3>2
  <2>2. ASSUME NEW c \in Caller, MarkAndAnswer(c) PROVE FALSE
    <3>1. PICK l \in lookup[c] : l \in Lookup /\ MarkCopy(c, l)
      BY <2>2, <2>t, ACopyIsMarked
    <3>2. CASE s = l.sid
      <4>1. new = [l.read EXCEPT !.logged = TRUE]
        BY <3>1, <3>2, <2>t DEF MarkCopy, RegistryTypeOK
      <4>2. new.logged = TRUE
        BY <3>1, <4>1 DEF Lookup, SessionConfig
      <4>3. QED BY <4>2
    <3>3. CASE s # l.sid
      BY <3>1, <3>3, <2>t, <2>1 DEF MarkCopy, RegistryTypeOK
    <3>4. QED BY <3>2, <3>3
  <2>3. ASSUME NEW c \in Caller, NEW r \in Sid, NEW sc \in Offers(c), NEW generated \in BOOLEAN,
               NewSession(c, r, sc, generated)
        PROVE  created'[s] = created[s] + 1
    BY <2>3, <2>t, <2>1 DEF NewSession, RegistryTypeOK
  <2>4. ASSUME NEW r \in Sid, Expire(r) PROVE FALSE
    BY <2>4, <2>t, <2>1 DEF Expire, RegistryTypeOK
  <2>5. ASSUME store' = store PROVE FALSE
    BY <2>1, <2>5
  <2>6. QED BY <2>2, <2>3, <2>4, <2>5 DEF RegistryNext, Ping, GetAbsent, GetLogged, GetUnlogged, rvars, registry
<1>2. QED BY <1>1, TypeInit, TypeStep, PTL DEF RegistrySpec, MarkerIsKept
=============================================================================
