------------------------------ MODULE Session ------------------------------
(***************************************************************************)
(* One session of the two-party computation: garbler_fn (with Garbler and  *)
(* CO.Send) and evaluator_fn (with Evaluator and CO.Receive) exchange      *)
(* numbered messages through the messenger until both know the result.     *)
(*                                                                         *)
(* A party is a sequential program, written here as the script of its      *)
(* DirectSend and DirectRecv calls; what it computes between two calls is  *)
(* part of the step that returns from the first of them.  A call is three  *)
(* steps: the party counts the message and sends its request, the          *)
(* messenger serves it, the party takes the response.  In between the      *)
(* other party moves, a call fails, a process stops, and a stored message  *)
(* expires.  A stopped party may be started again, with other arguments    *)
(* and a new session id or the old one.                                    *)
(*                                                                         *)
(* Data is kept as far as it decides who gets what: labels, keys and       *)
(* points are known by the attempt that drew them, so that pieces of       *)
(* different attempts can be told apart; module Garbling and module        *)
(* ObliviousTransfer justify what combining them yields.                   *)
(***************************************************************************)
EXTENDS Naturals, Sequences

CONSTANTS Input,       \* arguments a party can be called with
          SizeOf,      \* SizeOf[x]: what InputSizes computes for them
          Declared,    \* Declared[p]: bits of p's argument, when main says so
          Unsized,     \* the parties whose argument main leaves unspecified
          Result, F,   \* F[x][y]: the value of the circuit's outputs
          Refused,     \* results whose leading flag byte is zero
          MaxAttempt,  \* bound: times each party is started
          Faulty,      \* parties whose calls and processes may fail
          MayExpire,   \* whether stored messages may expire
          SameSid,     \* whether all attempts are called with one session id
          None         \* no value

Party == {"garbler", "evaluator"}
Peer(p) == IF p = "garbler" THEN "evaluator" ELSE "garbler"
Attempt == 1..MaxAttempt

ASSUME DataAssumption ==
    /\ SizeOf \in [Input -> Nat] /\ Declared \in [Party -> Nat]
    /\ F \in [Input -> [Input -> Result]] /\ Refused \subseteq Result
    /\ Unsized \subseteq Party /\ Faulty \subseteq Party
    /\ MayExpire \in BOOLEAN /\ SameSid \in BOOLEAN /\ MaxAttempt \in Nat \ {0}

ASSUME NoneAssumption == None \notin Nat /\ None \notin Result
ASSUME OutcomeAssumption == {"pending", "error"} \cap Result = {}

(***************************************************************************)
(* The two programs.                                                       *)
(***************************************************************************)
Send(t) == [op |-> "send", topic |-> t]
Recv(t) == [op |-> "recv", topic |-> t]

\* Mutant: the garbler waits for the OT query before it sends its labels.
GarblerScript_QueryFirst ==
    << Send("input_sizes"), Recv("input_sizes"),
       Send("ephemeral_key"), Send("garbled_gates"), Recv("ot_query"),
       Send("inputs"), Send("setup"), Recv("co_choices"),
       Send("ot_ciphertexts"), Recv("result_labels"), Send("result") >>

\* Mutant: the garbler's last message has the topic of its setup again.
GarblerScript_SetupAgain ==
    << Send("input_sizes"), Recv("input_sizes"),
       Send("ephemeral_key"), Send("garbled_gates"), Send("inputs"),
       Recv("ot_query"), Send("setup"), Recv("co_choices"),
       Send("ot_ciphertexts"), Recv("result_labels"), Send("setup") >>

GarblerScript ==
    << Send("input_sizes"), Recv("input_sizes"),
       Send("ephemeral_key"), Send("garbled_gates"), Send("inputs"),
       Recv("ot_query"), Send("setup"), Recv("co_choices"),
       Send("ot_ciphertexts"), Recv("result_labels"), Send("result") >>

EvaluatorScript ==
    << Send("input_sizes"), Recv("input_sizes"),
       Recv("ephemeral_key"), Recv("garbled_gates"), Recv("inputs"),
       Send("ot_query"), Recv("setup"), Send("co_choices"),
       Recv("ot_ciphertexts"), Send("result_labels"), Recv("result") >>

Script(p) == IF p = "garbler" THEN GarblerScript ELSE EvaluatorScript
Last == 11

Topic == {"input_sizes", "ephemeral_key", "garbled_gates", "inputs",
          "ot_query", "setup", "co_choices", "ot_ciphertexts",
          "result_labels", "result"}

(***************************************************************************)
(* What the messages say.                                                  *)
(***************************************************************************)
Circuit == [n0 : Nat, n1 : Nat]
NoCircuit == [n0 |-> None, n1 |-> None]

\* Labels of a run of wires: of one garbling and carrying a value, or bits
\* that belong to no garbling.
Labels(S) == [garbling : Attempt, value : S]
Garbage == [garbling |-> 0, value |-> None]

Choices == [setup : Attempt, scalars : Attempt, value : Input]

Payload(t) ==
    CASE t = "input_sizes"    -> Nat
      [] t = "ephemeral_key"  -> Attempt
      [] t = "garbled_gates"  -> [garbling : Attempt, circuit : Circuit]
      [] t = "inputs"         -> Labels(Input)
      [] t = "ot_query"       -> Circuit
      [] t = "setup"    -> Attempt
      [] t = "co_choices"     -> Choices
      [] t = "ot_ciphertexts" -> [garbling : Attempt, choices : Choices]
      [] t = "result_labels"  -> Labels(Result) \cup {Garbage}
      [] t = "result"         -> Result

\* What PrimaryKey hashes; the destination is the source's peer.
Key == [sid : Attempt, src : Party, topic : Topic, seq : Nat]
Message == UNION {Payload(t) : t \in Topic}

VARIABLES
    input,    \* input[p][n]: the arguments of p's n-th call
    attempt,  \* how often it was started
    status,   \* "running", "done" (returned a result), "failed" (an error)
    pc,       \* the call of its script it is at
    rpc,      \* "idle", "sent" or "answered": how far that call is
    nsend, nrecv,  \* the counters of its Conn
    got,      \* got[p][t]: what it received under topic t, for the topics so far
    circ,     \* the circuit it compiled
    result,   \* what it returned
    wire,     \* inbox requests on their way to the messenger
    lost,     \* history: a message was gone before the peer could read it
    box, seen \* the messenger

party == <<input, attempt, status, pc, rpc, nsend, nrecv, got, circ, result>>
vars == <<party, wire, lost, box, seen>>

M == INSTANCE Mailbox WITH Val <- Message, NoVal <- None, Reader <- Party

NothingYet == [t \in {} |-> None]
Step(p) == Script(p)[pc[p]]
\* Mutant: a party run again computes with the arguments of its first call.
Own_First(p) == input[p][1]
Own(p) == input[p][attempt[p]]
\* Mutant: a Conn without its session id.
Session_Unset(p) == 0
Session(p) == IF SameSid THEN 1 ELSE attempt[p]
\* Mutant: the direction is left out of the key.
KeyOf_NoDirection(p, src, n) ==
    [sid |-> Session(p), src |-> "garbler", topic |-> Step(p).topic, seq |-> n]
KeyOf(p, src, n) == [sid |-> Session(p), src |-> src, topic |-> Step(p).topic, seq |-> n]
AtSend(p) == status[p] = "running" /\ Step(p).op = "send"
AtRecv(p) == status[p] = "running" /\ Step(p).op = "recv"

(***************************************************************************)
(* loadCircuit with the sizes of the two arguments.  An argument of main   *)
(* without a size takes the one it is given; None stands for a nil list.   *)
(***************************************************************************)
GarblerSizes(peerSizes) == <<peerSizes, None>>
EvaluatorSizes(peerSizes, own) == <<peerSizes, own>>

Compile(sizes) ==
    LET bits(p, i) == IF p \in Unsized THEN sizes[i] ELSE Declared[p]
        c == [n0 |-> bits("garbler", 1), n1 |-> bits("evaluator", 2)]
    IN  IF None \in {c.n0, c.n1} THEN NoCircuit ELSE c

CompiledBy(p, peerSizes) ==
    Compile(IF p = "garbler" THEN GarblerSizes(peerSizes)
            ELSE EvaluatorSizes(peerSizes, SizeOf[Own(p)]))

(***************************************************************************)
(* The contents of each message, from what its sender knows.               *)
(***************************************************************************)
\* DecryptCOCiphertexts: the labels of the chosen bits, if the ciphertexts
\* were made for these choices by the owner of the setup point they use.
ChosenLabels(choices, ct) ==
    IF ct.choices = choices /\ ct.garbling = choices.setup
    THEN [garbling |-> ct.garbling, value |-> choices.value]
    ELSE Garbage

\* Circuit.Eval: labels of the outputs, if everything is of one garbling.
EvalLabels(key, gates, mine, xLabels, yLabels) ==
    IF /\ key = yLabels.garbling /\ key = xLabels.garbling
       /\ key = gates.garbling /\ gates.circuit = mine
    THEN [garbling |-> key, value |-> F[xLabels.value][yLabels.value]]
    ELSE Garbage

CoChoices(p) == [setup |-> got[p]["setup"], scalars |-> attempt[p],
                 value |-> Own(p)]

OwnLabels(p) == [garbling |-> attempt[p], value |-> Own(p)]

\* The bits of the output labels, BitFromLabel for each of them.
Decoded(p) == got[p]["result_labels"].value

Content(p, t) ==
    CASE t = "input_sizes"    -> SizeOf[Own(p)]
      [] t = "ephemeral_key"  -> attempt[p]
      [] t = "garbled_gates"  -> [garbling |-> attempt[p], circuit |-> circ[p]]
      [] t = "inputs"         -> OwnLabels(p)
      [] t = "ot_query"       -> circ[p]
      [] t = "setup"    -> attempt[p]
      [] t = "co_choices"     -> CoChoices(p)
      [] t = "ot_ciphertexts" -> [garbling |-> attempt[p],
                                  choices |-> got[p]["co_choices"]]
      [] t = "result_labels"  -> EvalLabels(got[p]["ephemeral_key"],
                                   got[p]["garbled_gates"], circ[p],
                                   got[p]["inputs"],
                                   ChosenLabels(CoChoices(p), got[p]["ot_ciphertexts"]))
      [] t = "result"         -> Decoded(p)

\* Mutant: output labels are not looked up.
Accepts_AnyLabel(p, t, v) ==
    CASE t = "input_sizes" -> CompiledBy(p, v) # NoCircuit
      [] t = "ot_query"    -> v = circ[p]
      [] OTHER             -> TRUE

\* What a received message is checked for: the OT query asks for the wires
\* of the evaluator's argument, output labels are known (BitFromLabel), and
\* compilation succeeds.
Accepts(p, t, v) ==
    CASE t = "input_sizes"   -> CompiledBy(p, v) # NoCircuit
      [] t = "ot_query"      -> v = circ[p]
      [] t = "result_labels" -> v.garbling = attempt[p]
      [] OTHER               -> TRUE

Init ==
    /\ input \in [Party -> [Attempt -> Input]]
    /\ attempt = [p \in Party |-> 1]
    /\ status = [p \in Party |-> "running"]
    /\ pc = [p \in Party |-> 1]
    /\ rpc = [p \in Party |-> "idle"]
    /\ nsend = [p \in Party |-> 0]
    /\ nrecv = [p \in Party |-> 0]
    /\ got = [p \in Party |-> NothingYet]
    /\ circ = [p \in Party |-> NoCircuit]
    /\ result = [p \in Party |-> None]
    /\ wire = {}
    /\ lost = FALSE
    /\ M!MailboxInit

(***************************************************************************)
(* Returning from a call, and from the last one.                           *)
(***************************************************************************)
\* Mutant: the leading byte is not looked at.
Return_NoFlag(p, v) ==
    /\ status' = [status EXCEPT ![p] = "done"]
    /\ result' = [result EXCEPT ![p] = v]
    /\ UNCHANGED pc

\* getResult: the leading byte of the outputs says whether the program
\* itself succeeded.
Return(p, v) ==
    /\ status' = [status EXCEPT ![p] = IF v \in Refused THEN "failed" ELSE "done"]
    /\ result' = [result EXCEPT ![p] = IF v \in Refused THEN None ELSE v]
    /\ UNCHANGED pc

Continue(p) ==
    /\ pc' = [pc EXCEPT ![p] = @ + 1]
    /\ UNCHANGED <<status, result>>

Abort(p) ==
    /\ status' = [status EXCEPT ![p] = "failed"]
    /\ UNCHANGED <<pc, result>>

(***************************************************************************)
(* DirectSend: the counter moves before the request is made.               *)
(***************************************************************************)
SendCall(p) ==
    /\ AtSend(p) /\ rpc[p] = "idle"
    /\ nsend' = [nsend EXCEPT ![p] = @ + 1]
    /\ wire' = wire \cup {[key |-> KeyOf(p, p, nsend[p] + 1),
                           val |-> Content(p, Step(p).topic)]}
    /\ rpc' = [rpc EXCEPT ![p] = "sent"]
    /\ UNCHANGED <<input, attempt, status, pc, nrecv, got, circ, result,
                   lost, box, seen>>

\* The request p is waiting for.
Pending(p) == [key |-> KeyOf(p, p, nsend[p]), val |-> Content(p, Step(p).topic)]
IsPending(p, m) == AtSend(p) /\ rpc[p] = "sent" /\ m = Pending(p)

\* The messenger stores a message, also one whose sender is gone.
Inbox(m) ==
    /\ m \in wire
    /\ M!Put(m.key, m.val)
    /\ wire' = wire \ {m}
    /\ rpc' = [p \in Party |-> IF IsPending(p, m) THEN "answered" ELSE rpc[p]]
    /\ UNCHANGED <<input, attempt, status, pc, nsend, nrecv, got, circ, result, lost>>

SendReturn(p) ==
    /\ AtSend(p) /\ rpc[p] = "answered"
    /\ rpc' = [rpc EXCEPT ![p] = "idle"]
    /\ IF pc[p] = Last THEN Return(p, Content(p, Step(p).topic)) ELSE Continue(p)
    /\ UNCHANGED <<input, attempt, nsend, nrecv, got, circ, wire, lost, box, seen>>

\* A request that is not answered is dropped on the way or still under way.
Unanswered(p) == wire' \in {wire} \cup {wire \ {m} : m \in {n \in wire : IsPending(p, n)}}

\* Garbler drops the error of sending its input labels (garbler.go:88-90)
\* and goes on to wait for the OT query.
SwallowError(p) ==
    /\ p \in Faulty
    /\ AtSend(p) /\ rpc[p] # "idle" /\ Step(p).topic = "inputs"
    /\ Unanswered(p)
    /\ rpc' = [rpc EXCEPT ![p] = "idle"]
    /\ lost' = (lost \/ rpc[p] = "sent")
    /\ Continue(p)
    /\ UNCHANGED <<input, attempt, nsend, nrecv, got, circ, box, seen>>

(***************************************************************************)
(* DirectRecv                                                              *)
(***************************************************************************)
\* Mutant: the counter does not move.
RecvCall_NotCounted(p) ==
    /\ AtRecv(p) /\ rpc[p] = "idle"
    /\ rpc' = [rpc EXCEPT ![p] = "sent"]
    /\ M!Ask(p)
    /\ UNCHANGED <<input, attempt, status, pc, nsend, nrecv, got, circ, result,
                   wire, lost>>

RecvCall(p) ==
    /\ AtRecv(p) /\ rpc[p] = "idle"
    /\ nrecv' = [nrecv EXCEPT ![p] = @ + 1]
    /\ rpc' = [rpc EXCEPT ![p] = "sent"]
    /\ M!Ask(p)
    /\ UNCHANGED <<input, attempt, status, pc, nsend, got, circ, result, wire, lost>>

Outbox(p) ==
    /\ AtRecv(p) /\ rpc[p] = "sent"
    /\ M!Fetch(p, KeyOf(p, Peer(p), nrecv[p]))
    /\ rpc' = [rpc EXCEPT ![p] = "answered"]
    /\ UNCHANGED <<input, attempt, status, pc, nsend, nrecv, got, circ, result,
                   wire, lost>>

RecvReturn(p) ==
    LET t == Step(p).topic
        v == seen[p]
    IN  /\ AtRecv(p) /\ rpc[p] = "answered"
        /\ rpc' = [rpc EXCEPT ![p] = "idle"]
        /\ got' = [got EXCEPT ![p] = M!With(@, t, v)]
        /\ circ' = IF t = "input_sizes"
                   THEN [circ EXCEPT ![p] = CompiledBy(p, v)] ELSE circ
        /\ IF ~Accepts(p, t, v) THEN Abort(p)
           ELSE IF pc[p] = Last THEN Return(p, v) ELSE Continue(p)
        /\ UNCHANGED <<input, attempt, nsend, nrecv, wire, lost, box, seen>>

(***************************************************************************)
(* Failures.                                                               *)
(***************************************************************************)
\* A call returns an error, or the process ends.
Fail(p) ==
    /\ p \in Faulty /\ status[p] = "running"
    /\ Unanswered(p)
    /\ Abort(p)
    /\ rpc' = [rpc EXCEPT ![p] = "idle"]
    /\ UNCHANGED <<input, attempt, nsend, nrecv, got, circ, lost, box, seen>>

\* The caller runs a stopped party again: a new Conn counts from zero.
Restart(p) ==
    /\ status[p] # "running" /\ attempt[p] < MaxAttempt
    /\ attempt' = [attempt EXCEPT ![p] = @ + 1]
    /\ status' = [status EXCEPT ![p] = "running"]
    /\ pc' = [pc EXCEPT ![p] = 1]
    /\ nsend' = [nsend EXCEPT ![p] = 0]
    /\ nrecv' = [nrecv EXCEPT ![p] = 0]
    /\ got' = [got EXCEPT ![p] = NothingYet]
    /\ circ' = [circ EXCEPT ![p] = NoCircuit]
    /\ result' = [result EXCEPT ![p] = None]
    /\ UNCHANGED <<input, rpc, wire, lost, box, seen>>

\* The peer has yet to begin the session of the message under k, or is in it
\* and not past reading that message.
Unread(k) ==
    LET q == Peer(k.src)
    IN  \/ Session(q) < k.sid
        \/ /\ Session(q) = k.sid /\ k.topic \notin DOMAIN got[q]
           /\ ~(AtRecv(q) /\ rpc[q] = "answered" /\ Step(q).topic = k.topic)

\* SESSION_TIMEOUT after it was stored, read or not.
Expire(k) ==
    /\ MayExpire
    /\ M!Lose({k})
    /\ lost' = (lost \/ Unread(k))
    /\ UNCHANGED <<party, wire>>

Move(p) == SendCall(p) \/ SendReturn(p) \/ RecvCall(p) \/ RecvReturn(p)

Next ==
    \/ \E p \in Party :
         Move(p) \/ Outbox(p) \/ SwallowError(p) \/ Fail(p) \/ Restart(p)
    \/ \E m \in wire : Inbox(m)
    \/ \E k \in DOMAIN box : Expire(k)

Spec == Init /\ [][Next]_vars

\* A running party goes on, and the messenger serves the requests of
\* running parties.  Requests of a party that is gone may never be served.
Fairness ==
    \A p \in Party :
      /\ WF_vars(Move(p))
      /\ WF_vars(Outbox(p))
      /\ WF_vars(\E m \in wire : IsPending(p, m) /\ Inbox(m))

FairSpec == Spec /\ Fairness

(***************************************************************************)
(* Properties                                                              *)
(***************************************************************************)
TypeOK ==
    /\ input \in [Party -> [Attempt -> Input]]
    /\ attempt \in [Party -> Attempt]
    /\ status \in [Party -> {"running", "done", "failed"}]
    /\ pc \in [Party -> 1..Last]
    /\ rpc \in [Party -> {"idle", "sent", "answered"}]
    /\ nsend \in [Party -> Nat] /\ nrecv \in [Party -> Nat]
    /\ DOMAIN got = Party /\ \A p \in Party : DOMAIN got[p] \subseteq Topic
    /\ \A p \in Party : \A t \in DOMAIN got[p] : got[p][t] \in Payload(t)
    /\ circ \in [Party -> Circuit \cup {NoCircuit}]
    /\ result \in [Party -> Result \cup {None}]
    /\ \A m \in wire : m.key \in Key /\ m.val \in Payload(m.key.topic)
    /\ DOMAIN seen = Party
    /\ DOMAIN box \subseteq Key /\ \A k \in DOMAIN box : box[k] \in Payload(k.topic)
    /\ lost \in BOOLEAN

\* The value both programs compute for the n-th session.
Expected(n) == F[input["garbler"][n]][input["evaluator"][n]]

\* A party that returns a result returns the circuit's value on the two
\* inputs of its session: no fault, lost or delayed message of this or of
\* an earlier session makes it return anything else.  (Sessions have ids of
\* their own.)
Correct ==
    \A p \in Party : status[p] = "done" => result[p] = Expected(attempt[p])

\* Even when attempts share a session id, and old messages of both parties
\* are still stored, the garbler returns the value for its own current
\* input and for the choices its oblivious transfer answered: labels of
\* another garbling are not decoded (garbler.go:128-141).
GarblerDecodesOwnLabels ==
    status["garbler"] = "done" =>
      result["garbler"] = F[Own("garbler")][got["garbler"]["co_choices"].value]

\* Messages of one attempt never replace one another (PrimaryKey and the
\* counters of Conn keep all of them apart).
NoOverwrite ==
    [][\A k \in DOMAIN box \cap DOMAIN box' : box'[k] = box[k]]_vars

\* The key a receiving party asks for, and that nothing is stored under it.
Wanted(p) == KeyOf(p, Peer(p), nrecv[p])
Waiting(p) == AtRecv(p) /\ rpc[p] = "sent" /\ Wanted(p) \notin DOMAIN box

\* The parties of a session wait for each other, and neither's message is
\* under way, only when a message is gone.
NeverBothWaiting ==
    /\ attempt["garbler"] = attempt["evaluator"]
    /\ \A p \in Party : Waiting(p) /\ \A m \in wire : m.key # Wanted(p)
    => lost

\* A party does not wait forever unless the other one stopped with an
\* error or a message is gone.
WaitHasCause ==
    \A p \in Party :
      Waiting(p) ~> (~Waiting(p) \/ status[Peer(p)] = "failed" \/ lost)

\* Both parties return in the end, unless one of them failed or a message is
\* gone: the two programs ask for exactly what the other one sends.
BothReturn ==
    <>(lost \/ \A p \in Party : status[p] # "running" \/ status[Peer(p)] = "failed")

\* InputSizes "is used for parametrized main() when the program is
\* instantiated based on input sizes" (circuit/ioarg.go:199-201): once the
\* sizes are exchanged both parties have instantiated the same program.
SameProgram ==
    (\A p \in Party : "input_sizes" \in DOMAIN got[p])
      => circ["garbler"] = circ["evaluator"]

\* The session implements the ideal functionality: each party is told the
\* value of F on the inputs of its session, or gets an error.
Ideal == INSTANCE JointFunction
           WITH outcome <- [p \in Party |->
                  IF status[p] = "running" THEN "pending"
                  ELSE IF status[p] = "done" THEN result[p] ELSE "error"]
ImplementsIdeal == Ideal!IdealSpec
=============================================================================
