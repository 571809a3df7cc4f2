--------------------------- MODULE SessionProofs ---------------------------
(***************************************************************************)
(* Theorems about Session, for all inputs, functions, bounds and faults.   *)
(***************************************************************************)
EXTENDS Session, TLAPS

(***************************************************************************)
(* The scripts, step by step.                                              *)
(***************************************************************************)
LEMMA GarblerSteps ==
    /\ Script("garbler")[1].op = "send" /\ Script("garbler")[1].topic = "input_sizes"
    /\ Script("garbler")[2].op = "recv" /\ Script("garbler")[2].topic = "input_sizes"
    /\ Script("garbler")[3].op = "send" /\ Script("garbler")[3].topic = "ephemeral_key"
    /\ Script("garbler")[4].op = "send" /\ Script("garbler")[4].topic = "garbled_gates"
    /\ Script("garbler")[5].op = "send" /\ Script("garbler")[5].topic = "inputs"
    /\ Script("garbler")[6].op = "recv" /\ Script("garbler")[6].topic = "ot_query"
    /\ Script("garbler")[7].op = "send" /\ Script("garbler")[7].topic = "setup"
    /\ Script("garbler")[8].op = "recv" /\ Script("garbler")[8].topic = "co_choices"
    /\ Script("garbler")[9].op = "send" /\ Script("garbler")[9].topic = "ot_ciphertexts"
    /\ Script("garbler")[10].op = "recv" /\ Script("garbler")[10].topic = "result_labels"
    /\ Script("garbler")[11].op = "send" /\ Script("garbler")[11].topic = "result"
BY DEF Script, GarblerScript, Send, Recv

\* The evaluator's program, step by step.
LEMMA EvaluatorSteps ==
    /\ Script("evaluator")[1].op = "send" /\ Script("evaluator")[1].topic = "input_sizes"
    /\ Script("evaluator")[2].op = "recv" /\ Script("evaluator")[2].topic = "input_sizes"
    /\ Script("evaluator")[3].op = "recv" /\ Script("evaluator")[3].topic = "ephemeral_key"
    /\ Script("evaluator")[4].op = "recv" /\ Script("evaluator")[4].topic = "garbled_gates"
    /\ Script("evaluator")[5].op = "recv" /\ Script("evaluator")[5].topic = "inputs"
    /\ Script("evaluator")[6].op = "send" /\ Script("evaluator")[6].topic = "ot_query"
    /\ Script("evaluator")[7].op = "recv" /\ Script("evaluator")[7].topic = "setup"
    /\ Script("evaluator")[8].op = "send" /\ Script("evaluator")[8].topic = "co_choices"
    /\ Script("evaluator")[9].op = "recv" /\ Script("evaluator")[9].topic = "ot_ciphertexts"
    /\ Script("evaluator")[10].op = "send" /\ Script("evaluator")[10].topic = "result_labels"
    /\ Script("evaluator")[11].op = "recv" /\ Script("evaluator")[11].topic = "result"
BY DEF Script, EvaluatorScript, Send, Recv

Positions == {1, 2, 3, 4, 5, 6, 7, 8, 9, 10, 11}

\* The positions of a program, listed.
LEMMA PositionsAreAll == 1..Last = Positions
BY DEF Last, Positions

\* Every step of a script is a send or a receive of a topic.
LEMMA StepKinds ==
    ASSUME NEW p \in Party, NEW i \in 1..Last
    PROVE  /\ Script(p)[i].op \in {"send", "recv"}
           /\ Script(p)[i].topic \in Topic
<1>1. i \in Positions
  BY PositionsAreAll
<1>2. CASE p = "garbler"
  BY <1>1, <1>2, GarblerSteps DEF Positions, Topic
<1>3. CASE p = "evaluator"
  BY <1>1, <1>3, EvaluatorSteps DEF Positions, Topic
<1>4. QED BY <1>2, <1>3 DEF Party

\* Who sends what, and at which step.
SendStep(p, i, t) ==
    \/ i = 1 /\ t = "input_sizes"
    \/ p = "garbler" /\ i = 3 /\ t = "ephemeral_key"
    \/ p = "garbler" /\ i = 4 /\ t = "garbled_gates"
    \/ p = "garbler" /\ i = 5 /\ t = "inputs"
    \/ p = "evaluator" /\ i = 6 /\ t = "ot_query"
    \/ p = "garbler" /\ i = 7 /\ t = "setup"
    \/ p = "evaluator" /\ i = 8 /\ t = "co_choices"
    \/ p = "garbler" /\ i = 9 /\ t = "ot_ciphertexts"
    \/ p = "evaluator" /\ i = 10 /\ t = "result_labels"
    \/ p = "garbler" /\ i = 11 /\ t = "result"

\* Every sending step of a program is one of those listed.
LEMMA SendSteps ==
    ASSUME NEW p \in Party, NEW i \in 1..Last, Script(p)[i].op = "send"
    PROVE  SendStep(p, i, Script(p)[i].topic)
<1>1. i \in Positions
  BY PositionsAreAll
<1>2. CASE p = "garbler"
  BY <1>1, <1>2, GarblerSteps DEF Positions, SendStep
<1>3. CASE p = "evaluator"
  BY <1>1, <1>3, EvaluatorSteps DEF Positions, SendStep
<1>4. QED BY <1>2, <1>3 DEF Party

\* The two receives whose messages are checked or compiled, and the last.
LEMMA RecvSteps ==
    ASSUME NEW p \in Party, NEW i \in 1..Last, Script(p)[i].op = "recv"
    PROVE  /\ Script(p)[i].topic = "input_sizes" <=> i = 2
           /\ p = "garbler" => i # Last
           /\ p = "garbler" /\ i = 10 => Script(p)[i].topic = "result_labels"
           /\ i = Last => Script(p)[i].topic = "result"
           /\ i # 1
<1>1. i \in Positions
  BY PositionsAreAll
<1>2. CASE p = "garbler"
  BY <1>1, <1>2, GarblerSteps DEF Positions, Last
<1>3. CASE p = "evaluator"
  BY <1>1, <1>3, EvaluatorSteps DEF Positions, Last
<1>4. QED BY <1>2, <1>3 DEF Party

\* The type of each topic's message.
LEMMA Payloads ==
    /\ Payload("input_sizes") = Nat
    /\ Payload("ephemeral_key") = Attempt
    /\ Payload("garbled_gates") = [garbling : Attempt, circuit : Circuit]
    /\ Payload("inputs") = Labels(Input)
    /\ Payload("ot_query") = Circuit
    /\ Payload("setup") = Attempt
    /\ Payload("co_choices") = Choices
    /\ Payload("ot_ciphertexts") = [garbling : Attempt, choices : Choices]
    /\ Payload("result_labels") = Labels(Result) \cup {Garbage}
    /\ Payload("result") = Result
BY DEF Payload

\* What a party puts in a message of each topic.
LEMMA Contents ==
    ASSUME NEW p \in Party
    PROVE  /\ Content(p, "input_sizes") = SizeOf[Own(p)]
           /\ Content(p, "ephemeral_key") = attempt[p]
           /\ Content(p, "garbled_gates") = [garbling |-> attempt[p], circuit |-> circ[p]]
           /\ Content(p, "inputs") = OwnLabels(p)
           /\ Content(p, "ot_query") = circ[p]
           /\ Content(p, "setup") = attempt[p]
           /\ Content(p, "co_choices") = CoChoices(p)
           /\ Content(p, "ot_ciphertexts")
                = [garbling |-> attempt[p], choices |-> got[p]["co_choices"]]
           /\ Content(p, "result_labels")
                = EvalLabels(got[p]["ephemeral_key"], got[p]["garbled_gates"],
                             circ[p], got[p]["inputs"],
                             ChosenLabels(CoChoices(p), got[p]["ot_ciphertexts"]))
           /\ Content(p, "result") = Decoded(p)
BY DEF Content

(***************************************************************************)
(* Types.                                                                  *)
(***************************************************************************)
\* What a party has received when it is at a step of its script.
Received(p) ==
    \A i \in 1..Last : i < pc[p] /\ Script(p)[i].op = "recv"
                         => Script(p)[i].topic \in DOMAIN got[p]

\* The type invariant with what makes it inductive: the messages of all
\* steps before the present one are there, compilation succeeded, and the
\* garbler knows the labels it decodes.
TypeInv ==
    /\ TypeOK
    /\ \A p \in Party : Received(p)
    /\ \A p \in Party : pc[p] > 2 => circ[p] \in Circuit
    /\ pc["garbler"] > 10
         => got["garbler"]["result_labels"].garbling = attempt["garbler"]
    /\ \A p \in Party : AtRecv(p) /\ rpc[p] = "answered"
                          => seen[p] \in Payload(Step(p).topic)

\* Attempts are numbers, zero is none of them.
LEMMA AttemptIsNat == Attempt \subseteq Nat /\ 0 \notin Attempt /\ 1 \in Attempt
BY DataAssumption DEF Attempt

\* A message received at an earlier step is at hand.
LEMMA HasReceived ==
    ASSUME TypeInv, NEW p \in Party, NEW i \in 1..Last,
           Script(p)[i].op = "recv", i < pc[p]
    PROVE  /\ Script(p)[i].topic \in DOMAIN got[p]
           /\ got[p][Script(p)[i].topic] \in Payload(Script(p)[i].topic)
<1>1. Script(p)[i].topic \in DOMAIN got[p]
  BY DEF TypeInv, Received
<1>2. QED BY <1>1 DEF TypeInv, TypeOK

\* What the garbler has received, by its position.
LEMMA GarblerHas ==
    ASSUME TypeInv
    PROVE  /\ pc["garbler"] > 8 => got["garbler"]["co_choices"] \in Choices
           /\ pc["garbler"] > 10 =>
                got["garbler"]["result_labels"] \in Labels(Result) \cup {Garbage}
<1>1. "garbler" \in Party /\ pc["garbler"] \in 1..Last /\ 8 \in 1..Last /\ 10 \in 1..Last
  BY DEF TypeInv, TypeOK, Party, Last
<1>2. pc["garbler"] > 8 => got["garbler"]["co_choices"] \in Choices
  BY <1>1, GarblerSteps, HasReceived, Payloads
<1>3. pc["garbler"] > 10 => got["garbler"]["result_labels"] \in Labels(Result) \cup {Garbage}
  BY <1>1, GarblerSteps, HasReceived, Payloads
<1>4. QED BY <1>2, <1>3

\* What the evaluator has received, by its position.
LEMMA EvaluatorHas ==
    ASSUME TypeInv
    PROVE  /\ pc["evaluator"] > 3 => got["evaluator"]["ephemeral_key"] \in Attempt
           /\ pc["evaluator"] > 4 =>
                got["evaluator"]["garbled_gates"] \in [garbling : Attempt, circuit : Circuit]
           /\ pc["evaluator"] > 5 => got["evaluator"]["inputs"] \in Labels(Input)
           /\ pc["evaluator"] > 7 => got["evaluator"]["setup"] \in Attempt
           /\ pc["evaluator"] > 9 =>
                got["evaluator"]["ot_ciphertexts"] \in [garbling : Attempt, choices : Choices]
<1>1. "evaluator" \in Party /\ pc["evaluator"] \in 1..Last
  BY DEF TypeInv, TypeOK, Party, Last
<1>2. 3 \in 1..Last /\ 4 \in 1..Last /\ 5 \in 1..Last /\ 7 \in 1..Last /\ 9 \in 1..Last
  BY DEF Last
<1>3. pc["evaluator"] > 3 => got["evaluator"]["ephemeral_key"] \in Attempt
  BY <1>1, <1>2, EvaluatorSteps, HasReceived, Payloads
<1>4. pc["evaluator"] > 4 =>
        got["evaluator"]["garbled_gates"] \in [garbling : Attempt, circuit : Circuit]
  BY <1>1, <1>2, EvaluatorSteps, HasReceived, Payloads
<1>5. pc["evaluator"] > 5 => got["evaluator"]["inputs"] \in Labels(Input)
  BY <1>1, <1>2, EvaluatorSteps, HasReceived, Payloads
<1>6. pc["evaluator"] > 7 => got["evaluator"]["setup"] \in Attempt
  BY <1>1, <1>2, EvaluatorSteps, HasReceived, Payloads
<1>7. pc["evaluator"] > 9 =>
        got["evaluator"]["ot_ciphertexts"] \in [garbling : Attempt, choices : Choices]
  BY <1>1, <1>2, EvaluatorSteps, HasReceived, Payloads
<1>8. QED BY <1>3, <1>4, <1>5, <1>6, <1>7

\* A party's input and its size have their types.
LEMMA OwnTyped ==
    ASSUME TypeInv, NEW p \in Party
    PROVE  attempt[p] \in Attempt /\ Own(p) \in Input /\ SizeOf[Own(p)] \in Nat
<1>1. attempt[p] \in Attempt /\ input[p] \in [Attempt -> Input]
  BY DEF TypeInv, TypeOK
<1>2. Own(p) \in Input
  BY <1>1 DEF Own
<1>3. QED BY <1>1, <1>2, DataAssumption

\* Labels from matching pieces are labels of a result, others are garbage.
LEMMA EvalTyped ==
    ASSUME NEW key \in Attempt, NEW gates \in [garbling : Attempt, circuit : Circuit],
           NEW mine, NEW x \in Labels(Input), NEW choices \in Choices,
           NEW ct \in [garbling : Attempt, choices : Choices]
    PROVE  EvalLabels(key, gates, mine, x, ChosenLabels(choices, ct))
             \in Labels(Result) \cup {Garbage}
<1>1. PICK y : y = ChosenLabels(choices, ct)
  OBVIOUS
<1>2. CASE /\ key = y.garbling /\ key = x.garbling
           /\ key = gates.garbling /\ gates.circuit = mine
  <2>1. y.garbling # 0
    BY <1>2, AttemptIsNat
  <2>2. y.value \in Input
    BY <1>1, <2>1 DEF ChosenLabels, Garbage, Choices
  <2>3. F[x.value][y.value] \in Result
    BY <2>2, DataAssumption DEF Labels
  <2>4. EvalLabels(key, gates, mine, x, y) = [garbling |-> key, value |-> F[x.value][y.value]]
    BY <1>2 DEF EvalLabels
  <2>5. QED BY <1>1, <2>3, <2>4 DEF Labels
<1>3. CASE ~(/\ key = y.garbling /\ key = x.garbling
             /\ key = gates.garbling /\ gates.circuit = mine)
  BY <1>1, <1>3 DEF EvalLabels
<1>4. QED BY <1>2, <1>3

\* What a party sends has the type of its topic.
LEMMA ContentTyped ==
    ASSUME TypeInv, NEW p \in Party, AtSend(p)
    PROVE  Content(p, Step(p).topic) \in Payload(Step(p).topic)
<1>1. pc[p] \in 1..Last
  BY DEF TypeInv, TypeOK
<1>2. SendStep(p, pc[p], Step(p).topic)
  BY <1>1, SendSteps DEF AtSend, Step
<1>3. attempt[p] \in Attempt /\ Own(p) \in Input /\ SizeOf[Own(p)] \in Nat
  BY OwnTyped
<1>4. pc[p] > 2 => circ[p] \in Circuit
  BY DEF TypeInv
<1>5. OwnLabels(p) \in Labels(Input)
  BY <1>3 DEF OwnLabels, Labels
<1>6. CASE Step(p).topic = "input_sizes"
  BY <1>3, <1>6, Contents, Payloads
<1>7. CASE Step(p).topic \in {"ephemeral_key", "setup"}
  BY <1>3, <1>7, Contents, Payloads
<1>8. CASE pc[p] = 4 /\ Step(p).topic = "garbled_gates"
  <2>1. [garbling |-> attempt[p], circuit |-> circ[p]] \in Payload("garbled_gates")
    <3>1. circ[p] \in Circuit
      BY <1>4, <1>8
    <3>2. QED BY <1>3, <3>1, Payloads
  <2>2. QED BY <1>8, <2>1, Contents
<1>9. CASE Step(p).topic = "inputs"
  BY <1>5, <1>9, Contents, Payloads
<1>10. CASE pc[p] = 6 /\ Step(p).topic = "ot_query"
  BY <1>4, <1>10, Contents, Payloads
<1>11. p = "evaluator" /\ pc[p] > 7 => CoChoices(p) \in Choices
  BY <1>3, EvaluatorHas DEF CoChoices, Choices
<1>12. CASE p = "evaluator" /\ pc[p] = 8 /\ Step(p).topic = "co_choices"
  BY <1>11, <1>12, Contents, Payloads
<1>13. CASE p = "garbler" /\ pc[p] = 9 /\ Step(p).topic = "ot_ciphertexts"
  <2>1. got[p]["co_choices"] \in Choices
    BY <1>13, GarblerHas
  <2>2. [garbling |-> attempt[p], choices |-> got[p]["co_choices"]]
          \in Payload("ot_ciphertexts")
    BY <1>3, <2>1, Payloads
  <2>3. QED BY <1>13, <2>2, Contents
<1>14. CASE p = "evaluator" /\ pc[p] = 10 /\ Step(p).topic = "result_labels"
  <2>1. /\ got[p]["ephemeral_key"] \in Attempt
        /\ got[p]["garbled_gates"] \in [garbling : Attempt, circuit : Circuit]
        /\ got[p]["inputs"] \in Labels(Input)
        /\ got[p]["ot_ciphertexts"] \in [garbling : Attempt, choices : Choices]
    BY <1>14, EvaluatorHas
  <2>2. CoChoices(p) \in Choices
    BY <1>11, <1>14
  <2>3. Content(p, "result_labels") \in Labels(Result) \cup {Garbage}
    BY <2>1, <2>2, EvalTyped, Contents
  <2>4. QED BY <1>14, <2>3, Payloads
<1>15. CASE p = "garbler" /\ pc[p] = 11 /\ Step(p).topic = "result"
  <2>1. got[p]["result_labels"] \in Labels(Result) \cup {Garbage}
    BY <1>15, GarblerHas
  <2>2. got[p]["result_labels"].garbling # 0
    BY <1>3, <1>15, AttemptIsNat DEF TypeInv
  <2>3. Decoded(p) \in Result
    BY <2>1, <2>2 DEF Decoded, Labels, Garbage
  <2>4. QED BY <1>15, <2>3, Contents, Payloads
<1>16. QED
  BY <1>2, <1>6, <1>7, <1>8, <1>9, <1>10, <1>12, <1>13, <1>14, <1>15 DEF SendStep

\* A step's topic is a topic, and its keys are keys.
LEMMA StepTyped ==
    ASSUME TypeInv, NEW p \in Party
    PROVE  /\ Step(p).op \in {"send", "recv"}
           /\ Step(p).topic \in Topic
           /\ \A src \in Party, n \in Nat : KeyOf(p, src, n) \in Key
<1>1. pc[p] \in 1..Last /\ attempt[p] \in Attempt
  BY DEF TypeInv, TypeOK
<1>2. Step(p).op \in {"send", "recv"} /\ Step(p).topic \in Topic
  BY <1>1, StepKinds DEF Step
<1>3. Session(p) \in Attempt
  BY <1>1, AttemptIsNat DEF Session
<1>4. QED BY <1>2, <1>3 DEF KeyOf, Key

\* A party compiles a circuit or none.
LEMMA CompileTyped ==
    ASSUME TypeInv, NEW p \in Party, NEW n \in Nat
    PROVE  CompiledBy(p, n) \in Circuit \cup {NoCircuit}
<1>1. SizeOf[Own(p)] \in Nat
  BY OwnTyped
<1>2. Declared["garbler"] \in Nat /\ Declared["evaluator"] \in Nat
  BY DataAssumption DEF Party
<1>3. GarblerSizes(n)[1] = n /\ GarblerSizes(n)[2] = None
  BY DEF GarblerSizes
<1>4. EvaluatorSizes(n, SizeOf[Own(p)])[1] = n
      /\ EvaluatorSizes(n, SizeOf[Own(p)])[2] = SizeOf[Own(p)]
  BY DEF EvaluatorSizes
<1>5. \A s : s[1] \in Nat \cup {None} /\ s[2] \in Nat \cup {None}
              => Compile(s) \in Circuit \cup {NoCircuit}
  BY <1>2, NoneAssumption DEF Compile, Circuit
<1>6. QED BY <1>1, <1>3, <1>4, <1>5 DEF CompiledBy

(***************************************************************************)
(* Each action preserves the type invariant.                               *)
(***************************************************************************)
LEMMA TypeInit == Init => TypeInv
<1> SUFFICES ASSUME Init PROVE TypeInv
  OBVIOUS
<1>1. TypeOK
  <2>1. DOMAIN got = Party /\ \A q \in Party : DOMAIN got[q] = {}
    BY DEF Init, NothingYet
  <2>2. DOMAIN seen = Party /\ DOMAIN box = {}
    BY DEF Init, M!MailboxInit
  <2>3. attempt \in [Party -> Attempt]
    BY AttemptIsNat DEF Init
  <2>4. /\ input \in [Party -> [Attempt -> Input]]
        /\ status \in [Party -> {"running", "done", "failed"}]
        /\ pc \in [Party -> 1..Last]
        /\ rpc \in [Party -> {"idle", "sent", "answered"}]
        /\ nsend \in [Party -> Nat] /\ nrecv \in [Party -> Nat]
    BY DEF Init, Last
  <2>5. /\ circ \in [Party -> Circuit \cup {NoCircuit}]
        /\ result \in [Party -> Result \cup {None}]
        /\ wire = {} /\ lost \in BOOLEAN
    BY DEF Init
  <2>6. QED BY <2>1, <2>2, <2>3, <2>4, <2>5 DEF TypeOK
<1>2. \A p \in Party : Received(p)
  BY DEF Init, Received
<1>3. \A p \in Party : pc[p] = 1 /\ rpc[p] = "idle"
  BY DEF Init
<1>4. QED BY <1>1, <1>2, <1>3 DEF TypeInv, Party

\* The call of DirectSend keeps the types.
LEMMA TypeSendCall ==
    ASSUME TypeInv, NEW p \in Party, SendCall(p)
    PROVE  TypeInv'
<1>1. /\ KeyOf(p, p, nsend[p] + 1) \in Key
      /\ KeyOf(p, p, nsend[p] + 1).topic = Step(p).topic
  <2>1. nsend[p] + 1 \in Nat
    BY DEF TypeInv, TypeOK
  <2>2. QED BY <2>1, StepTyped DEF KeyOf
<1>2. Content(p, Step(p).topic) \in Payload(Step(p).topic)
  BY ContentTyped DEF SendCall
<1>3. TypeOK'
  BY <1>1, <1>2 DEF TypeInv, TypeOK, SendCall
<1>4. \A q \in Party : Received(q)'
  BY DEF TypeInv, Received, SendCall
<1>5. \A q \in Party : (AtRecv(q) /\ rpc[q] = "answered")' => AtRecv(q) /\ rpc[q] = "answered"
  BY DEF TypeInv, TypeOK, AtRecv, Step, SendCall
<1>6. QED BY <1>3, <1>4, <1>5 DEF TypeInv, SendCall, Step

\* The service of a post keeps the types.
LEMMA TypeInbox ==
    ASSUME TypeInv, NEW m \in wire, Inbox(m)
    PROVE  TypeInv'
<1>1. m.key \in Key /\ m.val \in Payload(m.key.topic)
  BY DEF TypeInv, TypeOK
<1>2. /\ DOMAIN box' = DOMAIN box \cup {m.key}
      /\ \A k \in DOMAIN box' : box'[k] = IF k = m.key THEN m.val ELSE box[k]
      /\ seen' = seen
  BY DEF Inbox, M!Put, M!With
<1>3. rpc' \in [Party -> {"idle", "sent", "answered"}]
  BY DEF Inbox, TypeInv, TypeOK
<1>4. TypeOK'
  BY <1>1, <1>2, <1>3 DEF TypeInv, TypeOK, Inbox
<1>5. \A q \in Party : Received(q)'
  BY DEF TypeInv, Received, Inbox
<1>6. \A q \in Party : (AtRecv(q) /\ rpc[q] = "answered")' => AtRecv(q) /\ rpc[q] = "answered"
  BY DEF AtRecv, Step, Inbox, IsPending, AtSend
<1>7. QED BY <1>2, <1>4, <1>5, <1>6 DEF TypeInv, Inbox, Step

\* Moving on from a send, or after a failure, receives nothing.
LEMMA TypeSendOver ==
    ASSUME TypeInv, NEW p \in Party, AtSend(p),
           rpc' = [rpc EXCEPT ![p] = "idle"],
           wire' \subseteq wire, lost' \in BOOLEAN,
           UNCHANGED <<input, attempt, nsend, nrecv, got, circ, box, seen>>,
           status' \in [Party -> {"running", "done", "failed"}],
           \A q \in Party : q # p => status'[q] = status[q],
           result' \in [Party -> Result \cup {None}],
           pc[p] < Last, pc' = [pc EXCEPT ![p] = @ + 1]
    PROVE  TypeInv'
<1>0. pc \in [Party -> 1..11] /\ p \in Party
  BY DEF TypeInv, TypeOK, Last
<1>1. pc' \in [Party -> 1..Last]
  BY <1>0 DEF Last
<1>2. TypeOK'
  BY <1>1 DEF TypeInv, TypeOK
<1>3. ASSUME NEW q \in Party PROVE Received(q)'
  <2>1. SUFFICES ASSUME NEW i \in 1..Last, i < pc'[q], Script(q)[i].op = "recv"
                 PROVE  Script(q)[i].topic \in DOMAIN got[q]
    BY DEF Received
  <2>2. CASE q = p
    <3>1. i # pc[p]
      BY <2>1, <2>2 DEF AtSend, Step
    <3>2. i < pc[p]
      BY <1>0, <2>1, <2>2, <3>1 DEF Last
    <3>3. QED BY <2>1, <2>2, <3>2 DEF TypeInv, Received
  <2>3. CASE q # p
    BY <2>1, <2>3 DEF TypeInv, TypeOK, Received
  <2>4. QED BY <2>2, <2>3
<1>4. \A q \in Party : pc'[q] > 2 => circ[q] \in Circuit
  <2>1. pc[p] = 2 => Step(p).op = "recv"
    BY GarblerSteps, EvaluatorSteps DEF Step, Party
  <2>2. pc[p] # 2
    BY <2>1 DEF AtSend
  <2>3. \A q \in Party : pc'[q] > 2 => pc[q] > 2
    BY <1>0, <2>2
  <2>4. QED BY <2>3 DEF TypeInv
<1>5. pc'["garbler"] > 10 => pc["garbler"] > 10
  <2>1. p = "garbler" /\ pc[p] = 10 => Step(p).op = "recv"
    BY GarblerSteps DEF Step
  <2>2. p = "garbler" => pc[p] # 10
    BY <2>1 DEF AtSend
  <2>3. QED BY <1>0, <2>2 DEF Party
<1>6. \A q \in Party : (AtRecv(q) /\ rpc[q] = "answered")' =>
        AtRecv(q) /\ rpc[q] = "answered" /\ Step(q)' = Step(q)
  <2>1. SUFFICES ASSUME NEW q \in Party, AtRecv(q)', rpc'[q] = "answered"
                 PROVE  AtRecv(q) /\ rpc[q] = "answered" /\ Step(q)' = Step(q)
    OBVIOUS
  <2>2. q # p /\ rpc[q] = "answered"
    BY <2>1 DEF TypeInv, TypeOK
  <2>3. Step(q)' = Step(q) /\ status'[q] = status[q]
    BY <2>2 DEF Step, TypeInv, TypeOK
  <2>4. QED BY <2>1, <2>2, <2>3 DEF AtRecv
<1>7. QED BY <1>2, <1>3, <1>4, <1>5, <1>6 DEF TypeInv

\* The return of DirectSend keeps the types.
LEMMA TypeSendReturn ==
    ASSUME TypeInv, NEW p \in Party, SendReturn(p)
    PROVE  TypeInv'
<1>1. CASE pc[p] # Last
  <2>1. pc[p] < Last
    BY <1>1 DEF TypeInv, TypeOK, Last
  <2>2. Continue(p)
    BY <1>1 DEF SendReturn
  <2>3. /\ AtSend(p) /\ rpc' = [rpc EXCEPT ![p] = "idle"] /\ wire' = wire /\ lost' = lost
        /\ UNCHANGED <<input, attempt, nsend, nrecv, got, circ, box, seen>>
        /\ status' = status /\ result' = result /\ pc' = [pc EXCEPT ![p] = @ + 1]
    BY <2>2 DEF SendReturn, Continue
  <2>4. lost \in BOOLEAN /\ status \in [Party -> {"running", "done", "failed"}]
        /\ result \in [Party -> Result \cup {None}]
    BY DEF TypeInv, TypeOK
  <2>5. QED BY <2>1, <2>3, <2>4, TypeSendOver
<1>2. CASE pc[p] = Last
  <2>1. AtSend(p) /\ Content(p, Step(p).topic) \in Payload(Step(p).topic)
    BY ContentTyped DEF SendReturn
  <2>2. Step(p).topic = "result"
    BY <1>2, <2>1, GarblerSteps, EvaluatorSteps DEF AtSend, Step, Party, Last
  <2>3. Content(p, Step(p).topic) \in Result
    BY <2>1, <2>2, Payloads
  <2>4. Return(p, Content(p, Step(p).topic))
    BY <1>2 DEF SendReturn
  <2>5. /\ result' \in [Party -> Result \cup {None}]
        /\ status' \in [Party -> {"running", "done", "failed"}]
        /\ \A q \in Party : q # p => status'[q] = status[q]
        /\ pc' = pc /\ status'[p] # "running"
    BY <2>3, <2>4 DEF Return, TypeInv, TypeOK
  <2>6. TypeOK'
    BY <2>5 DEF SendReturn, TypeInv, TypeOK
  <2>7. \A q \in Party : Received(q)'
    BY <2>5 DEF SendReturn, TypeInv, Received
  <2>8. \A q \in Party : (AtRecv(q) /\ rpc[q] = "answered")' =>
          AtRecv(q) /\ rpc[q] = "answered" /\ Step(q)' = Step(q)
    BY <2>5 DEF SendReturn, AtRecv, Step, TypeInv, TypeOK
  <2>9. QED BY <2>5, <2>6, <2>7, <2>8 DEF SendReturn, TypeInv
<1>3. QED BY <1>1, <1>2

\* A send whose error is dropped keeps the types.
LEMMA TypeSwallowError ==
    ASSUME TypeInv, NEW p \in Party, SwallowError(p)
    PROVE  TypeInv'
<1>1. AtSend(p) /\ Step(p).topic = "inputs" /\ Continue(p) /\ Unanswered(p)
  BY DEF SwallowError
<1>2. pc[p] < Last
  <2>1. pc[p] = Last => Step(p).topic = "result"
    BY GarblerSteps, EvaluatorSteps DEF Step, Party, Last
  <2>2. pc[p] \in 1..11 /\ pc[p] # Last
    BY <1>1, <2>1 DEF TypeInv, TypeOK, Last
  <2>3. QED BY <2>2 DEF Last
<1>3. /\ status' = status /\ result' = result /\ pc' = [pc EXCEPT ![p] = @ + 1]
      /\ UNCHANGED <<input, attempt, nsend, nrecv, got, circ, box, seen>>
      /\ rpc' = [rpc EXCEPT ![p] = "idle"]
  BY <1>1 DEF Continue, SwallowError
<1>4. wire' \subseteq wire
  BY <1>1 DEF Unanswered
<1>5. lost' \in BOOLEAN
  BY DEF SwallowError, TypeInv, TypeOK
<1>6. status \in [Party -> {"running", "done", "failed"}]
      /\ result \in [Party -> Result \cup {None}]
  BY DEF TypeInv, TypeOK
<1>7. QED BY <1>1, <1>2, <1>3, <1>4, <1>5, <1>6, TypeSendOver

\* The call of DirectRecv keeps the types.
LEMMA TypeRecvCall ==
    ASSUME TypeInv, NEW p \in Party, RecvCall(p)
    PROVE  TypeInv'
<1>1. DOMAIN seen' = Party /\ \A q \in Party : q # p => seen'[q] = seen[q]
  BY DEF RecvCall, M!Ask, TypeInv, TypeOK
<1>2. box' = box /\ rpc' = [rpc EXCEPT ![p] = "sent"]
  BY DEF RecvCall, M!Ask
<1>3. TypeOK'
  BY <1>1, <1>2 DEF RecvCall, TypeInv, TypeOK
<1>4. \A q \in Party : Received(q)'
  BY DEF TypeInv, Received, RecvCall
<1>5. ASSUME NEW q \in Party, AtRecv(q)', rpc'[q] = "answered"
      PROVE  seen'[q] \in Payload(Step(q).topic)'
  <2>1. q # p /\ rpc[q] = "answered"
    BY <1>2, <1>5 DEF TypeInv, TypeOK
  <2>2. AtRecv(q) /\ Step(q)' = Step(q)
    BY <1>5 DEF AtRecv, Step, RecvCall
  <2>3. QED BY <1>1, <2>1, <2>2 DEF TypeInv
<1>6. QED BY <1>3, <1>4, <1>5 DEF TypeInv, RecvCall

\* The service of a query keeps the types.
LEMMA TypeOutbox ==
    ASSUME TypeInv, NEW p \in Party, Outbox(p)
    PROVE  TypeInv'
<1> DEFINE k == KeyOf(p, Peer(p), nrecv[p])
<1>1. k.topic = Step(p).topic /\ k \in DOMAIN box
  BY DEF KeyOf, Outbox, M!Fetch, M!Stored
<1>2. box[k] \in Payload(Step(p).topic)
  BY <1>1 DEF TypeInv, TypeOK
<1>3. /\ DOMAIN seen' = Party /\ seen'[p] = box[k]
      /\ \A q \in Party : q # p => seen'[q] = seen[q]
  BY DEF Outbox, M!Fetch, TypeInv, TypeOK
<1>4. box' = box /\ rpc' = [rpc EXCEPT ![p] = "answered"]
  BY DEF Outbox, M!Fetch
<1>5. TypeOK'
  BY <1>3, <1>4 DEF Outbox, TypeInv, TypeOK
<1>6. \A q \in Party : Received(q)'
  BY DEF TypeInv, Received, Outbox
<1>7. ASSUME NEW q \in Party, AtRecv(q)', rpc'[q] = "answered"
      PROVE  seen'[q] \in Payload(Step(q).topic)'
  <2>1. Step(q)' = Step(q) /\ (AtRecv(q)' <=> AtRecv(q))
    BY DEF AtRecv, Step, Outbox
  <2>2. CASE q = p
    BY <1>2, <1>3, <2>1, <2>2
  <2>3. CASE q # p
    <3>1. rpc[q] = "answered"
      BY <1>4, <1>7, <2>3 DEF TypeInv, TypeOK
    <3>2. QED BY <1>3, <1>7, <2>1, <2>3, <3>1 DEF TypeInv
  <2>4. QED BY <2>2, <2>3
<1>8. QED BY <1>5, <1>6, <1>7 DEF TypeInv, Outbox

\* The return of DirectRecv keeps the types.
LEMMA TypeRecvReturn ==
    ASSUME TypeInv, NEW p \in Party, RecvReturn(p)
    PROVE  TypeInv'
<1> DEFINE t == Step(p).topic
           v == seen[p]
<1>0. pc \in [Party -> 1..11] /\ pc[p] \in 1..Last
  BY DEF TypeInv, TypeOK, Last
<1>1. v \in Payload(t) /\ t \in Topic /\ Step(p).op = "recv"
  BY StepTyped DEF RecvReturn, TypeInv, AtRecv
<1>2. /\ DOMAIN got' = Party
      /\ DOMAIN got'[p] = DOMAIN got[p] \cup {t} /\ got'[p][t] = v
      /\ \A u \in DOMAIN got[p] : u # t => got'[p][u] = got[p][u]
      /\ \A q \in Party : q # p => got'[q] = got[q]
  BY DEF RecvReturn, M!With, TypeInv, TypeOK
<1>3. /\ t = "input_sizes" <=> pc[p] = 2
      /\ p = "garbler" => pc[p] # Last
      /\ p = "garbler" /\ pc[p] = 10 => t = "result_labels"
      /\ pc[p] = Last => t = "result"
  BY <1>0, <1>1, RecvSteps DEF Step
<1>4. /\ circ' \in [Party -> Circuit \cup {NoCircuit}]
      /\ \A q \in Party : q # p => circ'[q] = circ[q]
      /\ t # "input_sizes" => circ' = circ
      /\ t = "input_sizes" => circ'[p] = CompiledBy(p, v)
  <2>1. t = "input_sizes" => CompiledBy(p, v) \in Circuit \cup {NoCircuit}
    BY <1>1, CompileTyped, Payloads
  <2>2. QED BY <2>1 DEF RecvReturn, TypeInv, TypeOK
<1>5. \/ Abort(p)
      \/ Accepts(p, t, v) /\ pc[p] = Last /\ Return(p, v)
      \/ Accepts(p, t, v) /\ pc[p] # Last /\ Continue(p)
  BY DEF RecvReturn
<1>6. /\ status' \in [Party -> {"running", "done", "failed"}]
      /\ \A q \in Party : q # p => status'[q] = status[q]
  BY <1>5 DEF Abort, Return, Continue, TypeInv, TypeOK
<1>7. result' \in [Party -> Result \cup {None}]
  <2>1. CASE pc[p] = Last /\ Return(p, v)
    <3>1. v \in Result
      BY <1>1, <1>3, <2>1, Payloads
    <3>2. QED BY <2>1, <3>1 DEF Return, TypeInv, TypeOK
  <2>2. CASE ~(pc[p] = Last /\ Return(p, v))
    BY <1>5, <2>2 DEF Abort, Continue, TypeInv, TypeOK
  <2>3. QED BY <2>1, <2>2
<1>8. /\ pc' \in [Party -> 1..Last]
      /\ \A q \in Party : q # p => pc'[q] = pc[q]
      /\ pc'[p] = pc[p] \/ (pc'[p] = pc[p] + 1 /\ Accepts(p, t, v))
  BY <1>0, <1>5 DEF Abort, Return, Continue, Last
<1>9. TypeOK'
  <2>1. /\ DOMAIN got' = Party
        /\ \A q \in Party : DOMAIN got'[q] \subseteq Topic
        /\ \A q \in Party : \A u \in DOMAIN got'[q] : got'[q][u] \in Payload(u)
    BY <1>1, <1>2 DEF TypeInv, TypeOK
  <2>2. /\ rpc' \in [Party -> {"idle", "sent", "answered"}]
        /\ UNCHANGED <<input, attempt, nsend, nrecv, wire, lost, box, seen>>
    BY DEF RecvReturn, TypeInv, TypeOK
  <2>3. QED BY <1>4, <1>6, <1>7, <1>8, <2>1, <2>2 DEF TypeInv, TypeOK
<1>10. ASSUME NEW q \in Party PROVE Received(q)'
  <2>1. SUFFICES ASSUME NEW i \in 1..Last, i < pc'[q], Script(q)[i].op = "recv"
                 PROVE  Script(q)[i].topic \in DOMAIN got'[q]
    BY DEF Received
  <2>2. CASE q = p /\ i = pc[p]
    BY <1>2, <2>2 DEF Step
  <2>3. CASE ~(q = p /\ i = pc[p])
    <3>1. i < pc[q]
      BY <1>0, <1>8, <2>1, <2>3
    <3>2. Script(q)[i].topic \in DOMAIN got[q]
      BY <2>1, <3>1 DEF TypeInv, Received
    <3>3. QED BY <1>2, <3>2
  <2>4. QED BY <2>2, <2>3
<1>11. ASSUME NEW q \in Party, pc'[q] > 2 PROVE circ'[q] \in Circuit
  <2>1. CASE q = p /\ pc[p] = 2
    <3>1. Accepts(p, t, v) /\ t = "input_sizes"
      BY <1>0, <1>3, <1>8, <1>11, <2>1
    <3>2. CompiledBy(p, v) # NoCircuit
      BY <3>1 DEF Accepts
    <3>3. QED BY <1>4, <2>1, <3>1, <3>2
  <2>2. CASE ~(q = p /\ pc[p] = 2)
    <3>1. pc[q] > 2
      BY <1>0, <1>8, <1>11, <2>2
    <3>2. circ[q] \in Circuit
      BY <3>1 DEF TypeInv
    <3>3. QED BY <1>3, <1>4, <2>2, <3>2
  <2>3. QED BY <2>1, <2>2
<1>12. ASSUME pc'["garbler"] > 10
       PROVE  got'["garbler"]["result_labels"].garbling = attempt["garbler"]
  <2>1. CASE p = "garbler"
    <3>1. pc[p] = 10 /\ Accepts(p, t, v) /\ t = "result_labels"
      BY <1>0, <1>3, <1>8, <1>12, <2>1 DEF Last
    <3>2. v.garbling = attempt[p]
      BY <3>1 DEF Accepts
    <3>3. QED BY <1>2, <2>1, <3>1, <3>2
  <2>2. CASE p # "garbler"
    BY <1>2, <1>8, <1>12, <2>2 DEF TypeInv, Party
  <2>3. QED BY <2>1, <2>2
<1>13. ASSUME NEW q \in Party, AtRecv(q)', rpc'[q] = "answered"
       PROVE  seen'[q] \in Payload(Step(q).topic)'
  <2>1. q # p /\ rpc[q] = "answered" /\ seen' = seen
    BY <1>13 DEF RecvReturn, TypeInv, TypeOK
  <2>2. AtRecv(q) /\ Step(q)' = Step(q)
    BY <1>6, <1>8, <1>13, <2>1 DEF AtRecv, Step
  <2>3. QED BY <2>1, <2>2 DEF TypeInv
<1>14. attempt' = attempt
  BY DEF RecvReturn
<1>15. QED BY <1>9, <1>10, <1>11, <1>12, <1>13, <1>14 DEF TypeInv

\* A failure keeps the types.
LEMMA TypeFail ==
    ASSUME TypeInv, NEW p \in Party, Fail(p)
    PROVE  TypeInv'
<1>1. wire' \subseteq wire
  BY DEF Fail, Unanswered
<1>2. /\ status' = [status EXCEPT ![p] = "failed"] /\ rpc' = [rpc EXCEPT ![p] = "idle"]
      /\ UNCHANGED <<input, attempt, pc, nsend, nrecv, got, circ, result, lost, box, seen>>
  BY DEF Fail, Abort
<1>3. TypeOK'
  BY <1>1, <1>2 DEF TypeInv, TypeOK
<1>4. \A q \in Party : Received(q)'
  BY <1>2 DEF TypeInv, Received
<1>5. \A q \in Party : (AtRecv(q) /\ rpc[q] = "answered")' =>
        AtRecv(q) /\ rpc[q] = "answered" /\ Step(q)' = Step(q)
  BY <1>2 DEF AtRecv, Step, TypeInv, TypeOK
<1>6. QED BY <1>2, <1>3, <1>4, <1>5 DEF TypeInv

\* A restart keeps the types.
LEMMA TypeRestart ==
    ASSUME TypeInv, NEW p \in Party, Restart(p)
    PROVE  TypeInv'
<1>1. /\ pc \in [Party -> 1..11] /\ pc' = [pc EXCEPT ![p] = 1]
      /\ UNCHANGED <<input, rpc, wire, lost, box, seen>>
  BY DEF Restart, TypeInv, TypeOK, Last
<1>2. attempt' \in [Party -> Attempt]
  BY DataAssumption DEF Restart, TypeInv, TypeOK, Attempt
<1>3. /\ DOMAIN got' = Party /\ DOMAIN got'[p] = {}
      /\ \A q \in Party : q # p => got'[q] = got[q]
  BY DEF Restart, NothingYet, TypeInv, TypeOK
<1>4. /\ status' \in [Party -> {"running", "done", "failed"}]
      /\ pc' \in [Party -> 1..Last]
      /\ nsend' \in [Party -> Nat] /\ nrecv' \in [Party -> Nat]
      /\ circ' \in [Party -> Circuit \cup {NoCircuit}]
      /\ result' \in [Party -> Result \cup {None}]
  BY <1>1 DEF Restart, TypeInv, TypeOK, Last
<1>5. TypeOK'
  <2>1. /\ \A q \in Party : DOMAIN got'[q] \subseteq Topic
        /\ \A q \in Party : \A u \in DOMAIN got'[q] : got'[q][u] \in Payload(u)
    BY <1>3 DEF TypeInv, TypeOK
  <2>2. QED BY <1>1, <1>2, <1>3, <1>4, <2>1 DEF TypeInv, TypeOK
<1>6. ASSUME NEW q \in Party PROVE Received(q)'
  <2>1. CASE q = p
    BY <1>1, <2>1 DEF Received, Last
  <2>2. CASE q # p
    BY <1>1, <1>3, <2>2 DEF TypeInv, Received
  <2>3. QED BY <2>1, <2>2
<1>7. \A q \in Party : pc'[q] > 2 => q # p /\ circ'[q] = circ[q] /\ pc[q] > 2
  BY <1>1 DEF Restart, TypeInv, TypeOK
<1>8. pc'["garbler"] > 10 => p # "garbler" /\ attempt'["garbler"] = attempt["garbler"]
  BY <1>1 DEF Restart, TypeInv, TypeOK, Party
<1>9. ASSUME NEW q \in Party, AtRecv(q)', rpc'[q] = "answered"
      PROVE  AtRecv(q) /\ rpc[q] = "answered" /\ Step(q)' = Step(q)
  <2>1. q # p
    <3>1. pc'[p] = 1 /\ Script(p)[1].op = "send"
      BY <1>1, GarblerSteps, EvaluatorSteps DEF Party
    <3>2. Step(p)'.op = "send"
      BY <3>1 DEF Step
    <3>3. QED BY <1>9, <3>2 DEF AtRecv
  <2>2. Step(q)' = Step(q) /\ status'[q] = status[q]
    BY <1>1, <2>1 DEF Step, Restart, TypeInv, TypeOK
  <2>3. QED BY <1>1, <1>9, <2>2 DEF AtRecv
<1>10. QED
  <2>1. \A q \in Party : pc'[q] > 2 => circ'[q] \in Circuit
    BY <1>7 DEF TypeInv
  <2>2. pc'["garbler"] > 10
          => got'["garbler"]["result_labels"].garbling = attempt'["garbler"]
    BY <1>1, <1>3, <1>8 DEF TypeInv, Party
  <2>3. \A q \in Party : (AtRecv(q) /\ rpc[q] = "answered")'
                             => seen'[q] \in Payload(Step(q).topic)'
    BY <1>1, <1>9 DEF TypeInv
  <2>4. QED BY <1>5, <1>6, <2>1, <2>2, <2>3 DEF TypeInv

\* Expiry keeps the types.
LEMMA TypeExpire ==
    ASSUME TypeInv, NEW k \in DOMAIN box, Expire(k)
    PROVE  TypeInv'
<1>1. /\ DOMAIN box' \subseteq DOMAIN box /\ seen' = seen
      /\ \A j \in DOMAIN box' : box'[j] = box[j]
  BY DEF Expire, M!Lose, M!Stored
<1>2. UNCHANGED party /\ wire' = wire /\ lost' \in BOOLEAN
  BY DEF Expire, TypeInv, TypeOK
<1>3. TypeOK'
  BY <1>1, <1>2 DEF party, TypeInv, TypeOK
<1>4. QED BY <1>1, <1>2, <1>3 DEF party, TypeInv, Received, AtRecv, Step

\* A step that changes nothing keeps the types.
LEMMA TypeStutter ==
    ASSUME TypeInv, UNCHANGED vars
    PROVE  TypeInv'
<1>1. TypeOK'
  BY DEF vars, party, TypeInv, TypeOK
<1>2. QED BY <1>1 DEF vars, party, TypeInv, Received, AtRecv, Step

\* Every step keeps the types.
LEMMA TypeNext == TypeInv /\ [Next]_vars => TypeInv'
<1> SUFFICES ASSUME TypeInv, [Next]_vars PROVE TypeInv'
  OBVIOUS
<1>1. CASE \E p \in Party : SendCall(p)
  BY <1>1, TypeSendCall
<1>2. CASE \E p \in Party : SendReturn(p)
  BY <1>2, TypeSendReturn
<1>3. CASE \E p \in Party : RecvCall(p)
  BY <1>3, TypeRecvCall
<1>4. CASE \E p \in Party : RecvReturn(p)
  BY <1>4, TypeRecvReturn
<1>5. CASE \E p \in Party : Outbox(p)
  BY <1>5, TypeOutbox
<1>6. CASE \E p \in Party : SwallowError(p)
  BY <1>6, TypeSwallowError
<1>7. CASE \E p \in Party : Fail(p)
  BY <1>7, TypeFail
<1>8. CASE \E p \in Party : Restart(p)
  BY <1>8, TypeRestart
<1>9. CASE \E m \in wire : Inbox(m)
  BY <1>9, TypeInbox
<1>10. CASE \E k \in DOMAIN box : Expire(k)
  BY <1>10, TypeExpire
<1>11. CASE UNCHANGED vars
  BY <1>11, TypeStutter
<1>12. QED
  BY <1>1, <1>2, <1>3, <1>4, <1>5, <1>6, <1>7, <1>8, <1>9, <1>10, <1>11
     DEF Next, Move

\* Whatever is lost, delayed, repeated or restarted, and whether sessions
\* share an id or not: every stored and every received message has the type
\* its reader decodes, and every value a party works with is the kind of
\* value the code expects at that step.
THEOREM TypeCorrect == Spec => []TypeOK
<1>1. Spec => []TypeInv
  BY TypeInit, TypeNext, PTL DEF Spec
<1>2. TypeInv => TypeOK
  BY DEF TypeInv
<1>3. QED BY <1>1, <1>2, PTL

(***************************************************************************)
(* Correctness, when every attempt has a session id of its own.  Then what *)
(* a message says is a function of its sender, its session, its topic and  *)
(* the two inputs, whoever stores, delays or reads it.                     *)
(***************************************************************************)
Compiled(p, n) ==
    LET peerSizes == SizeOf[input[Peer(p)][n]]
    IN  Compile(IF p = "garbler" THEN GarblerSizes(peerSizes)
                ELSE EvaluatorSizes(peerSizes, SizeOf[input[p][n]]))

\* The choices, and the labels of the outputs, of session n.
Choose(n) == [setup |-> n, scalars |-> n, value |-> input["evaluator"][n]]

OutputLabels(n) ==
    IF Compiled("garbler", n) = Compiled("evaluator", n)
    THEN [garbling |-> n, value |-> Expected(n)] ELSE Garbage

\* What p says under topic t in session n.
Says(p, n, t) ==
    CASE t = "input_sizes"    -> SizeOf[input[p][n]]
      [] t = "ephemeral_key"  -> n
      [] t = "garbled_gates"  -> [garbling |-> n, circuit |-> Compiled(p, n)]
      [] t = "inputs"         -> [garbling |-> n, value |-> input[p][n]]
      [] t = "ot_query"       -> Compiled(p, n)
      [] t = "setup"          -> n
      [] t = "co_choices"     -> Choose(n)
      [] t = "ot_ciphertexts" -> [garbling |-> n, choices |-> Choose(n)]
      [] t = "result_labels"  -> OutputLabels(n)
      [] t = "result"         -> Expected(n)

\* Everything stored, under way or received is what its sender says, and the
\* results are right.
SaysInv ==
    /\ \A m \in wire : m.val = Says(m.key.src, m.key.sid, m.key.topic)
    /\ \A k \in DOMAIN box : box[k] = Says(k.src, k.sid, k.topic)
    /\ \A p \in Party : \A t \in DOMAIN got[p] : got[p][t] = Says(Peer(p), attempt[p], t)
    /\ \A p \in Party : pc[p] > 2 => circ[p] = Compiled(p, attempt[p])
    /\ \A p \in Party : AtRecv(p) /\ rpc[p] = "answered"
                          => seen[p] = Says(Peer(p), attempt[p], Step(p).topic)
    /\ Correct

\* What a party says in an attempt, topic by topic.
LEMMA SaysWhat ==
    ASSUME NEW p \in Party, NEW n
    PROVE  /\ Says(p, n, "input_sizes") = SizeOf[input[p][n]]
           /\ Says(p, n, "ephemeral_key") = n
           /\ Says(p, n, "garbled_gates") = [garbling |-> n, circuit |-> Compiled(p, n)]
           /\ Says(p, n, "inputs") = [garbling |-> n, value |-> input[p][n]]
           /\ Says(p, n, "ot_query") = Compiled(p, n)
           /\ Says(p, n, "setup") = n
           /\ Says(p, n, "co_choices") = Choose(n)
           /\ Says(p, n, "ot_ciphertexts") = [garbling |-> n, choices |-> Choose(n)]
           /\ Says(p, n, "result_labels") = OutputLabels(n)
           /\ Says(p, n, "result") = Expected(n)
BY DEF Says

\* What is said depends on the inputs only.
LEMMA SaysStable ==
    ASSUME input' = input
    PROVE  /\ \A p, n, t : Says(p, n, t)' = Says(p, n, t)
           /\ \A p, n : Compiled(p, n)' = Compiled(p, n)
           /\ \A n : Expected(n)' = Expected(n)
<1>1. \A p, n : Compiled(p, n)' = Compiled(p, n)
  BY DEF Compiled
<1>2. \A n : Expected(n)' = Expected(n)
  BY DEF Expected
<1>3. \A n : Choose(n)' = Choose(n)
  BY DEF Choose
<1>4. \A n : OutputLabels(n)' = OutputLabels(n)
  BY <1>1, <1>2 DEF OutputLabels
<1>5. \A p, n, t : Says(p, n, t)' = Says(p, n, t)
  BY <1>1, <1>2, <1>3, <1>4 DEF Says
<1>6. QED BY <1>1, <1>2, <1>5

\* What an earlier step received is what the peer says in this session.
LEMMA HeldSays ==
    ASSUME TypeInv, SaysInv, NEW p \in Party, NEW i \in 1..Last,
           Script(p)[i].op = "recv", i < pc[p]
    PROVE  got[p][Script(p)[i].topic] = Says(Peer(p), attempt[p], Script(p)[i].topic)
BY HasReceived DEF SaysInv

\* What a party sends is what it says in its session.
LEMMA ContentSays ==
    ASSUME TypeInv, SaysInv, NEW p \in Party, AtSend(p)
    PROVE  Content(p, Step(p).topic) = Says(p, attempt[p], Step(p).topic)
<1> DEFINE n == attempt[p]
<1>1. pc[p] \in 1..Last /\ n \in Attempt
  BY DEF TypeInv, TypeOK
<1>2. SendStep(p, pc[p], Step(p).topic)
  BY <1>1, SendSteps DEF AtSend, Step
<1>3. Own(p) = input[p][n] /\ Peer("garbler") = "evaluator" /\ Peer("evaluator") = "garbler"
  BY DEF Own, Peer
<1>4. "garbler" \in Party /\ "evaluator" \in Party
  BY DEF Party
<1>5. pc[p] > 2 => circ[p] = Compiled(p, n)
  BY DEF SaysInv
<1>6. CASE Step(p).topic = "input_sizes"
  BY <1>3, <1>6, Contents, SaysWhat
<1>7. CASE Step(p).topic \in {"ephemeral_key", "setup"}
  BY <1>7, Contents, SaysWhat
<1>8. CASE pc[p] = 4 /\ Step(p).topic = "garbled_gates"
  <2>1. circ[p] = Compiled(p, n)
    BY <1>5, <1>8
  <2>2. QED BY <1>8, <2>1, Contents, SaysWhat
<1>9. CASE Step(p).topic = "inputs"
  BY <1>3, <1>9, Contents, SaysWhat DEF OwnLabels
<1>10. CASE pc[p] = 6 /\ Step(p).topic = "ot_query"
  BY <1>5, <1>10, Contents, SaysWhat
<1>11. ASSUME p = "evaluator", pc[p] > 7 PROVE CoChoices(p) = Choose(n)
  <2>1. 7 \in 1..Last /\ Script(p)[7].op = "recv" /\ Script(p)[7].topic = "setup"
    BY <1>11, EvaluatorSteps DEF Last
  <2>2. got[p]["setup"] = n
    BY <1>3, <1>4, <1>11, <2>1, HeldSays, SaysWhat
  <2>3. QED BY <1>3, <1>11, <2>2 DEF CoChoices, Choose
<1>12. CASE p = "evaluator" /\ pc[p] = 8 /\ Step(p).topic = "co_choices"
  BY <1>11, <1>12, Contents, SaysWhat
<1>13. CASE p = "garbler" /\ pc[p] = 9 /\ Step(p).topic = "ot_ciphertexts"
  <2>1. 8 \in 1..Last /\ Script(p)[8].op = "recv" /\ Script(p)[8].topic = "co_choices"
    BY <1>13, GarblerSteps DEF Last
  <2>2. got[p]["co_choices"] = Choose(n)
    BY <1>3, <1>4, <1>13, <2>1, HeldSays, SaysWhat
  <2>3. QED BY <1>13, <2>2, Contents, SaysWhat
<1>14. CASE p = "evaluator" /\ pc[p] = 10 /\ Step(p).topic = "result_labels"
  <2>1. 3 \in 1..Last /\ 4 \in 1..Last /\ 5 \in 1..Last /\ 9 \in 1..Last
    BY DEF Last
  <2>2. got[p]["ephemeral_key"] = n
    BY <1>3, <1>4, <1>14, <2>1, EvaluatorSteps, HeldSays, SaysWhat
  <2>3. got[p]["garbled_gates"] = [garbling |-> n, circuit |-> Compiled("garbler", n)]
    BY <1>3, <1>4, <1>14, <2>1, EvaluatorSteps, HeldSays, SaysWhat
  <2>4. got[p]["inputs"] = [garbling |-> n, value |-> input["garbler"][n]]
    BY <1>3, <1>4, <1>14, <2>1, EvaluatorSteps, HeldSays, SaysWhat
  <2>5. got[p]["ot_ciphertexts"] = [garbling |-> n, choices |-> Choose(n)]
    BY <1>3, <1>4, <1>14, <2>1, EvaluatorSteps, HeldSays, SaysWhat
  <2>6. CoChoices(p) = Choose(n) /\ circ[p] = Compiled("evaluator", n)
    BY <1>5, <1>11, <1>14
  <2>7. ChosenLabels(Choose(n), [garbling |-> n, choices |-> Choose(n)])
          = [garbling |-> n, value |-> input["evaluator"][n]]
    BY DEF ChosenLabels, Choose
  <2>8. EvalLabels(n, [garbling |-> n, circuit |-> Compiled("garbler", n)],
                   Compiled("evaluator", n),
                   [garbling |-> n, value |-> input["garbler"][n]],
                   [garbling |-> n, value |-> input["evaluator"][n]])
          = OutputLabels(n)
    BY DEF EvalLabels, OutputLabels, Expected
  <2>9. Content(p, "result_labels") = OutputLabels(n)
    BY <2>2, <2>3, <2>4, <2>5, <2>6, <2>7, <2>8, Contents
  <2>10. QED BY <1>14, <2>9, SaysWhat
<1>15. CASE p = "garbler" /\ pc[p] = 11 /\ Step(p).topic = "result"
  <2>1. 10 \in 1..Last /\ Script(p)[10].op = "recv" /\ Script(p)[10].topic = "result_labels"
    BY <1>15, GarblerSteps DEF Last
  <2>2. got[p]["result_labels"] = OutputLabels(n)
    BY <1>3, <1>4, <1>15, <2>1, HeldSays, SaysWhat
  <2>3. got[p]["result_labels"].garbling # 0
    BY <1>1, <1>15, AttemptIsNat DEF TypeInv
  <2>4. Decoded(p) = Expected(n)
    BY <2>2, <2>3 DEF Decoded, OutputLabels, Garbage
  <2>5. QED BY <1>15, <2>4, Contents, SaysWhat
<1>16. QED
  BY <1>2, <1>6, <1>7, <1>8, <1>9, <1>10, <1>12, <1>13, <1>14, <1>15 DEF SendStep

(***************************************************************************)
(* Each action preserves what is said and returned.                        *)
(***************************************************************************)
LEMMA SaysInit == Init => SaysInv
<1> SUFFICES ASSUME Init PROVE SaysInv
  OBVIOUS
<1>1. wire = {} /\ DOMAIN box = {} /\ \A p \in Party : DOMAIN got[p] = {}
  BY DEF Init, M!MailboxInit, NothingYet
<1>2. \A p \in Party : pc[p] = 1 /\ rpc[p] = "idle" /\ status[p] = "running"
  BY DEF Init
<1>3. QED BY <1>1, <1>2 DEF SaysInv, Correct

\* The call of DirectSend keeps what the invariant says of messages.
LEMMA SaysSendCall ==
    ASSUME ~SameSid, TypeInv, SaysInv, NEW p \in Party, SendCall(p)
    PROVE  SaysInv'
<1> DEFINE k == KeyOf(p, p, nsend[p] + 1)
           m == [key |-> k, val |-> Content(p, Step(p).topic)]
<1>1. k.sid = attempt[p] /\ k.src = p /\ k.topic = Step(p).topic
  BY DEF KeyOf, Session
<1>2. Content(p, Step(p).topic) = Says(p, attempt[p], Step(p).topic)
  BY ContentSays DEF SendCall
<1>3. m.val = Says(m.key.src, m.key.sid, m.key.topic)
  BY <1>1, <1>2
<1>4. wire' = wire \cup {m}
  BY DEF SendCall
<1>5. \A w \in wire' : w.val = Says(w.key.src, w.key.sid, w.key.topic)
  BY <1>3, <1>4 DEF SaysInv
<1>6. /\ UNCHANGED <<input, attempt, status, pc, nrecv, got, circ, result, lost, box, seen>>
      /\ rpc' = [rpc EXCEPT ![p] = "sent"]
  BY DEF SendCall
<1>7. \A q \in Party : (AtRecv(q) /\ rpc[q] = "answered")' =>
        AtRecv(q) /\ rpc[q] = "answered" /\ Step(q)' = Step(q)
  BY <1>6 DEF TypeInv, TypeOK, AtRecv, Step
<1>8. input' = input
  BY <1>6
<1>9. QED BY <1>5, <1>6, <1>7, <1>8, SaysStable DEF SaysInv, Correct

\* The service of a post keeps what the invariant says of messages.
LEMMA SaysInbox ==
    ASSUME ~SameSid, TypeInv, SaysInv, NEW m \in wire, Inbox(m)
    PROVE  SaysInv'
<1>1. m.val = Says(m.key.src, m.key.sid, m.key.topic)
  BY DEF SaysInv
<1>2. /\ DOMAIN box' = DOMAIN box \cup {m.key}
      /\ \A k \in DOMAIN box' : box'[k] = IF k = m.key THEN m.val ELSE box[k]
      /\ seen' = seen
  BY DEF Inbox, M!Put, M!With
<1>3. \A k \in DOMAIN box' : box'[k] = Says(k.src, k.sid, k.topic)
  BY <1>1, <1>2 DEF SaysInv
<1>4. /\ UNCHANGED <<input, attempt, status, pc, nrecv, got, circ, result>>
      /\ wire' \subseteq wire
  BY DEF Inbox
<1>5. \A q \in Party : (AtRecv(q) /\ rpc[q] = "answered")' =>
        AtRecv(q) /\ rpc[q] = "answered" /\ Step(q)' = Step(q)
  BY DEF AtRecv, Step, Inbox, IsPending, AtSend
<1>6. input' = input
  BY <1>4
<1>7. QED BY <1>2, <1>3, <1>4, <1>5, <1>6, SaysStable DEF SaysInv, Correct

\* Steps that receive nothing, keep what was computed and return at most
\* the expected value.
LEMMA SaysQuiet ==
    ASSUME TypeInv, SaysInv, NEW p \in Party,
           UNCHANGED <<input, attempt, got, circ, box, seen>>,
           wire' \subseteq wire,
           \A q \in Party : pc'[q] > 2 => pc[q] > 2,
           \A q \in Party : (AtRecv(q) /\ rpc[q] = "answered")' =>
              AtRecv(q) /\ rpc[q] = "answered" /\ Step(q)' = Step(q),
           \A q \in Party : status'[q] = "done" =>
              \/ status[q] = "done" /\ result'[q] = result[q]
              \/ result'[q] = Expected(attempt[q])
    PROVE  SaysInv'
<1>1. input' = input /\ attempt' = attempt
  OBVIOUS
<1>2. Correct'
  BY <1>1, SaysStable DEF SaysInv, Correct
<1>3. QED BY <1>1, <1>2, SaysStable DEF SaysInv

\* The return of DirectSend keeps what the invariant says of messages.
LEMMA SaysSendReturn ==
    ASSUME ~SameSid, TypeInv, SaysInv, NEW p \in Party, SendReturn(p)
    PROVE  SaysInv'
<1>0. /\ pc \in [Party -> 1..11] /\ Step(p).op = "send" /\ AtSend(p)
      /\ rpc' = [rpc EXCEPT ![p] = "idle"] /\ rpc \in [Party -> {"idle", "sent", "answered"}]
      /\ status \in [Party -> {"running", "done", "failed"}]
  BY DEF SendReturn, AtSend, TypeInv, TypeOK, Last
<1>1. /\ UNCHANGED <<input, attempt, got, circ, box, seen>> /\ wire' \subseteq wire
  BY DEF SendReturn
<1>2. \/ pc[p] = Last /\ Return(p, Content(p, Step(p).topic))
      \/ Continue(p)
  BY DEF SendReturn
<1>3. pc[p] # 2
  BY <1>0, GarblerSteps, EvaluatorSteps DEF Step, Party
<1>4. /\ \A q \in Party : q # p => pc'[q] = pc[q] /\ status'[q] = status[q]
      /\ pc'[p] > 2 => pc[p] > 2
  BY <1>0, <1>2, <1>3 DEF Return, Continue
<1>5. ASSUME NEW q \in Party, AtRecv(q)', rpc'[q] = "answered"
      PROVE  AtRecv(q) /\ rpc[q] = "answered" /\ Step(q)' = Step(q)
  <2>1. q # p /\ rpc[q] = "answered"
    BY <1>0, <1>5
  <2>2. Step(q)' = Step(q)
    BY <1>4, <2>1 DEF Step
  <2>3. QED BY <1>4, <1>5, <2>1, <2>2 DEF AtRecv
<1>6. ASSUME NEW q \in Party, status'[q] = "done"
      PROVE  \/ status[q] = "done" /\ result'[q] = result[q]
             \/ result'[q] = Expected(attempt[q])
  <2>1. CASE pc[p] = Last /\ Return(p, Content(p, Step(p).topic))
    <3>1. Step(p).topic = "result"
      BY <1>0, <2>1, GarblerSteps, EvaluatorSteps DEF Step, Party, Last
    <3>2. Content(p, Step(p).topic) = Expected(attempt[p])
      BY <1>0, <3>1, ContentSays, SaysWhat
    <3>3. QED BY <1>6, <2>1, <3>2 DEF Return, TypeInv, TypeOK
  <2>2. CASE Continue(p)
    BY <1>0, <1>6, <2>2 DEF Continue, AtSend
  <2>3. QED BY <1>2, <2>1, <2>2
<1>7. \A q \in Party : pc'[q] > 2 => pc[q] > 2
  BY <1>4
<1>8. QED BY <1>1, <1>5, <1>6, <1>7, SaysQuiet

\* A send whose error is dropped keeps what the invariant says of messages.
LEMMA SaysSwallowError ==
    ASSUME ~SameSid, TypeInv, SaysInv, NEW p \in Party, SwallowError(p)
    PROVE  SaysInv'
<1>0. /\ pc \in [Party -> 1..11] /\ Step(p).op = "send" /\ status[p] = "running"
      /\ rpc' = [rpc EXCEPT ![p] = "idle"] /\ rpc \in [Party -> {"idle", "sent", "answered"}]
  BY DEF SwallowError, AtSend, TypeInv, TypeOK, Last
<1>1. /\ UNCHANGED <<input, attempt, got, circ, box, seen>> /\ wire' \subseteq wire
      /\ status' = status /\ result' = result /\ pc' = [pc EXCEPT ![p] = @ + 1]
  BY DEF SwallowError, Unanswered, Continue
<1>2. pc[p] # 2
  BY <1>0, GarblerSteps, EvaluatorSteps DEF Step, Party
<1>3. \A q \in Party : pc'[q] > 2 => pc[q] > 2
  BY <1>0, <1>1, <1>2
<1>4. ASSUME NEW q \in Party, AtRecv(q)', rpc'[q] = "answered"
      PROVE  AtRecv(q) /\ rpc[q] = "answered" /\ Step(q)' = Step(q)
  <2>1. q # p /\ rpc[q] = "answered"
    BY <1>0, <1>4
  <2>2. Step(q)' = Step(q)
    BY <1>0, <1>1, <2>1 DEF Step
  <2>3. QED BY <1>1, <1>4, <2>1, <2>2 DEF AtRecv
<1>5. QED BY <1>1, <1>3, <1>4, SaysQuiet

\* The call of DirectRecv keeps what the invariant says of messages.
LEMMA SaysRecvCall ==
    ASSUME ~SameSid, TypeInv, SaysInv, NEW p \in Party, RecvCall(p)
    PROVE  SaysInv'
<1>1. /\ \A q \in Party : q # p => seen'[q] = seen[q]
      /\ box' = box /\ rpc' = [rpc EXCEPT ![p] = "sent"]
      /\ UNCHANGED <<input, attempt, status, pc, got, circ, result, wire>>
  BY DEF RecvCall, M!Ask, TypeInv, TypeOK
<1>2. ASSUME NEW q \in Party, AtRecv(q)', rpc'[q] = "answered"
      PROVE  AtRecv(q) /\ rpc[q] = "answered" /\ Step(q)' = Step(q) /\ q # p
  <2>1. q # p /\ rpc[q] = "answered"
    BY <1>1, <1>2 DEF TypeInv, TypeOK
  <2>2. QED BY <1>1, <1>2, <2>1 DEF AtRecv, Step
<1>3. input' = input
  BY <1>1
<1>4. QED BY <1>1, <1>2, <1>3, SaysStable DEF SaysInv, Correct

\* The service of a query keeps what the invariant says of messages.
LEMMA SaysOutbox ==
    ASSUME ~SameSid, TypeInv, SaysInv, NEW p \in Party, Outbox(p)
    PROVE  SaysInv'
<1> DEFINE k == KeyOf(p, Peer(p), nrecv[p])
<1>1. /\ k.sid = attempt[p] /\ k.src = Peer(p) /\ k.topic = Step(p).topic
      /\ k \in DOMAIN box
  BY DEF KeyOf, Session, Outbox, M!Fetch, M!Stored
<1>2. box[k] = Says(Peer(p), attempt[p], Step(p).topic)
  BY <1>1 DEF SaysInv
<1>3. seen'[p] = box[k] /\ \A q \in Party : q # p => seen'[q] = seen[q]
  BY DEF Outbox, M!Fetch, TypeInv, TypeOK
<1>4. /\ box' = box /\ rpc' = [rpc EXCEPT ![p] = "answered"]
      /\ UNCHANGED <<input, attempt, status, pc, got, circ, result, wire>>
  BY DEF Outbox, M!Fetch
<1>5. input' = input
  BY <1>4
<1>6. ASSUME NEW q \in Party, AtRecv(q)', rpc'[q] = "answered"
      PROVE  seen'[q] = Says(Peer(q), attempt[q], Step(q).topic) /\ Step(q)' = Step(q)
  <2>1. Step(q)' = Step(q) /\ AtRecv(q)
    BY <1>4, <1>6 DEF AtRecv, Step
  <2>2. CASE q = p
    BY <1>2, <1>3, <2>1, <2>2
  <2>3. CASE q # p
    <3>1. rpc[q] = "answered"
      BY <1>4, <1>6, <2>3 DEF TypeInv, TypeOK
    <3>2. QED BY <1>3, <2>1, <2>3, <3>1 DEF SaysInv
  <2>4. QED BY <2>2, <2>3
<1>7. QED BY <1>4, <1>5, <1>6, SaysStable DEF SaysInv, Correct

\* The return of DirectRecv keeps what the invariant says of messages.
LEMMA SaysRecvReturn ==
    ASSUME ~SameSid, TypeInv, SaysInv, NEW p \in Party, RecvReturn(p)
    PROVE  SaysInv'
<1> DEFINE t == Step(p).topic
           v == seen[p]
           n == attempt[p]
<1>0. /\ pc \in [Party -> 1..11] /\ pc[p] \in 1..Last
      /\ status \in [Party -> {"running", "done", "failed"}]
      /\ rpc \in [Party -> {"idle", "sent", "answered"}]
  BY DEF TypeInv, TypeOK, Last
<1>1. v = Says(Peer(p), n, t) /\ Step(p).op = "recv" /\ status[p] = "running"
  BY DEF RecvReturn, SaysInv, AtRecv
<1>2. Peer(p) \in Party
  BY DEF Peer, Party
<1>3. /\ t = "input_sizes" <=> pc[p] = 2
      /\ pc[p] = Last => t = "result"
  BY <1>0, <1>1, RecvSteps DEF Step
<1>4. /\ rpc' = [rpc EXCEPT ![p] = "idle"]
      /\ UNCHANGED <<input, attempt, wire, box, seen>>
  BY DEF RecvReturn
<1>5. \/ Abort(p)
      \/ pc[p] = Last /\ Return(p, v)
      \/ Continue(p)
  BY DEF RecvReturn
<1>6. /\ \A q \in Party : q # p => pc'[q] = pc[q] /\ status'[q] = status[q]
      /\ \A q \in Party : q # p => result'[q] = result[q]
      /\ pc'[p] = pc[p] \/ pc'[p] = pc[p] + 1
  BY <1>0, <1>5 DEF Abort, Return, Continue, TypeInv, TypeOK
<1>7. \A q \in Party : \A u \in DOMAIN got'[q] : got'[q][u] = Says(Peer(q), attempt[q], u)
  <2>1. /\ DOMAIN got'[p] = DOMAIN got[p] \cup {t} /\ got'[p][t] = v
        /\ \A u \in DOMAIN got[p] : u # t => got'[p][u] = got[p][u]
        /\ \A q \in Party : q # p => got'[q] = got[q]
    BY DEF RecvReturn, M!With, TypeInv, TypeOK
  <2>2. QED BY <1>1, <2>1 DEF SaysInv
<1>8. ASSUME NEW q \in Party, pc'[q] > 2 PROVE circ'[q] = Compiled(q, attempt[q])
  <2>1. CASE q = p /\ pc[p] = 2
    <3>1. v = SizeOf[input[Peer(p)][n]] /\ t = "input_sizes"
      BY <1>1, <1>2, <1>3, <2>1, SaysWhat
    <3>2. circ'[p] = CompiledBy(p, v)
      BY <3>1 DEF RecvReturn, TypeInv, TypeOK
    <3>3. CompiledBy(p, v) = Compiled(p, n)
      BY <3>1 DEF CompiledBy, Compiled, Own
    <3>4. QED BY <2>1, <3>2, <3>3
  <2>2. CASE ~(q = p /\ pc[p] = 2)
    <3>1. pc[q] > 2
      BY <1>0, <1>6, <1>8, <2>2
    <3>2. circ'[q] = circ[q]
      BY <1>3, <2>2 DEF RecvReturn, TypeInv, TypeOK
    <3>3. QED BY <3>1, <3>2 DEF SaysInv
  <2>3. QED BY <2>1, <2>2
<1>9. ASSUME NEW q \in Party, AtRecv(q)', rpc'[q] = "answered"
      PROVE  seen'[q] = Says(Peer(q), attempt[q], Step(q)'.topic)
  <2>1. q # p /\ rpc[q] = "answered"
    BY <1>0, <1>4, <1>9
  <2>2. AtRecv(q) /\ Step(q)' = Step(q)
    BY <1>6, <1>9, <2>1 DEF AtRecv, Step
  <2>3. QED BY <1>4, <2>1, <2>2 DEF SaysInv
<1>10. ASSUME NEW q \in Party, status'[q] = "done"
       PROVE  result'[q] = Expected(attempt[q])
  <2>1. CASE q # p
    BY <1>6, <1>10, <2>1 DEF SaysInv, Correct
  <2>2. CASE q = p
    <3>1. pc[p] = Last /\ Return(p, v)
      BY <1>0, <1>1, <1>5, <1>10, <2>2 DEF Abort, Continue
    <3>2. v = Expected(n)
      BY <1>1, <1>2, <1>3, <3>1, SaysWhat
    <3>3. QED BY <1>10, <2>2, <3>1, <3>2 DEF Return, TypeInv, TypeOK
  <2>3. QED BY <2>1, <2>2
<1>11. input' = input /\ attempt' = attempt /\ wire' = wire /\ box' = box
  BY <1>4
<1>12. QED BY <1>7, <1>8, <1>9, <1>10, <1>11, SaysStable DEF SaysInv, Correct

\* A failure keeps what the invariant says of messages.
LEMMA SaysFail ==
    ASSUME ~SameSid, TypeInv, SaysInv, NEW p \in Party, Fail(p)
    PROVE  SaysInv'
<1>1. /\ UNCHANGED <<input, attempt, got, circ, box, seen>> /\ wire' \subseteq wire
      /\ status' = [status EXCEPT ![p] = "failed"] /\ pc' = pc /\ result' = result
      /\ rpc' = [rpc EXCEPT ![p] = "idle"]
  BY DEF Fail, Unanswered, Abort
<1>2. \A q \in Party : pc'[q] > 2 => pc[q] > 2
  BY <1>1
<1>3. \A q \in Party : (AtRecv(q) /\ rpc[q] = "answered")' =>
        AtRecv(q) /\ rpc[q] = "answered" /\ Step(q)' = Step(q)
  BY <1>1 DEF AtRecv, Step, TypeInv, TypeOK
<1>4. \A q \in Party : status'[q] = "done" => status[q] = "done" /\ result'[q] = result[q]
  BY <1>1 DEF TypeInv, TypeOK
<1>5. QED BY <1>1, <1>2, <1>3, <1>4, SaysQuiet

\* A restart keeps what the invariant says of messages.
LEMMA SaysRestart ==
    ASSUME ~SameSid, TypeInv, SaysInv, NEW p \in Party, Restart(p)
    PROVE  SaysInv'
<1>1. /\ pc' = [pc EXCEPT ![p] = 1] /\ status' = [status EXCEPT ![p] = "running"]
      /\ UNCHANGED <<input, rpc, wire, lost, box, seen>>
  BY DEF Restart
<1>2. /\ DOMAIN got'[p] = {}
      /\ \A q \in Party : q # p =>
           /\ got'[q] = got[q] /\ attempt'[q] = attempt[q] /\ pc'[q] = pc[q]
           /\ circ'[q] = circ[q] /\ result'[q] = result[q] /\ status'[q] = status[q]
      /\ pc'[p] = 1 /\ status'[p] = "running"
  BY DEF Restart, NothingYet, TypeInv, TypeOK
<1>3. input' = input
  BY <1>1
<1>4. \A q \in Party : \A u \in DOMAIN got'[q] : got'[q][u] = Says(Peer(q), attempt'[q], u)
  BY <1>2 DEF SaysInv
<1>5. \A q \in Party : pc'[q] > 2 => circ'[q] = Compiled(q, attempt'[q])
  BY <1>2 DEF SaysInv
<1>6. ASSUME NEW q \in Party, AtRecv(q)', rpc'[q] = "answered"
      PROVE  seen'[q] = Says(Peer(q), attempt'[q], Step(q)'.topic)
  <2>1. q # p
    <3>1. Script(p)[1].op = "send"
      BY GarblerSteps, EvaluatorSteps DEF Party
    <3>2. Step(p)'.op = "send"
      BY <1>2, <3>1 DEF Step
    <3>3. QED BY <1>6, <3>2 DEF AtRecv
  <2>2. AtRecv(q) /\ rpc[q] = "answered" /\ Step(q)' = Step(q)
    BY <1>1, <1>2, <1>6, <2>1 DEF AtRecv, Step
  <2>3. QED BY <1>1, <1>2, <2>1, <2>2 DEF SaysInv
<1>7. \A q \in Party : status'[q] = "done" => result'[q] = Expected(attempt'[q])
  BY <1>2 DEF SaysInv, Correct
<1>8. QED BY <1>1, <1>3, <1>4, <1>5, <1>6, <1>7, SaysStable DEF SaysInv, Correct

\* Expiry keeps what the invariant says of messages.
LEMMA SaysExpire ==
    ASSUME ~SameSid, TypeInv, SaysInv, NEW k \in DOMAIN box, Expire(k)
    PROVE  SaysInv'
<1>1. /\ DOMAIN box' \subseteq DOMAIN box /\ seen' = seen
      /\ \A j \in DOMAIN box' : box'[j] = box[j]
  BY DEF Expire, M!Lose, M!Stored
<1>2. /\ UNCHANGED <<input, attempt, status, pc, rpc, got, circ, result>> /\ wire' = wire
  BY DEF Expire, party
<1>3. input' = input
  BY <1>2
<1>4. QED BY <1>1, <1>2, <1>3, SaysStable DEF SaysInv, Correct, AtRecv, Step

\* A step that changes nothing keeps what the invariant says of messages.
LEMMA SaysStutter ==
    ASSUME SaysInv, UNCHANGED vars
    PROVE  SaysInv'
<1>1. UNCHANGED <<input, attempt, status, pc, rpc, got, circ, result, wire, box, seen>>
  BY DEF vars, party
<1>2. input' = input
  BY <1>1
<1>3. QED BY <1>1, <1>2, SaysStable DEF SaysInv, Correct, AtRecv, Step

\* Every step keeps what the invariant says of messages.
LEMMA SaysNext ==
    ASSUME ~SameSid
    PROVE  TypeInv /\ SaysInv /\ [Next]_vars => SaysInv'
<1> SUFFICES ASSUME TypeInv, SaysInv, [Next]_vars PROVE SaysInv'
  OBVIOUS
<1>1. CASE \E p \in Party : SendCall(p)
  BY <1>1, SaysSendCall
<1>2. CASE \E p \in Party : SendReturn(p)
  BY <1>2, SaysSendReturn
<1>3. CASE \E p \in Party : RecvCall(p)
  BY <1>3, SaysRecvCall
<1>4. CASE \E p \in Party : RecvReturn(p)
  BY <1>4, SaysRecvReturn
<1>5. CASE \E p \in Party : Outbox(p)
  BY <1>5, SaysOutbox
<1>6. CASE \E p \in Party : SwallowError(p)
  BY <1>6, SaysSwallowError
<1>7. CASE \E p \in Party : Fail(p)
  BY <1>7, SaysFail
<1>8. CASE \E p \in Party : Restart(p)
  BY <1>8, SaysRestart
<1>9. CASE \E m \in wire : Inbox(m)
  BY <1>9, SaysInbox
<1>10. CASE \E k \in DOMAIN box : Expire(k)
  BY <1>10, SaysExpire
<1>11. CASE UNCHANGED vars
  BY <1>11, SaysStutter
<1>12. QED
  BY <1>1, <1>2, <1>3, <1>4, <1>5, <1>6, <1>7, <1>8, <1>9, <1>10, <1>11
     DEF Next, Move

\* Together, for every set of inputs, every function, any number of
\* attempts and every pattern of failures and expiry.
LEMMA Invariants ==
    ASSUME ~SameSid
    PROVE  Spec => [](TypeInv /\ SaysInv)
<1>1. Init => TypeInv /\ SaysInv
  BY TypeInit, SaysInit
<1>2. TypeInv /\ SaysInv /\ [Next]_vars => (TypeInv /\ SaysInv)'
  BY TypeNext, SaysNext
<1>3. QED BY <1>1, <1>2, PTL DEF Spec

\* When every attempt has a session id of its own, a party that returns a
\* result returns the circuit's value on the two inputs of its session.
THEOREM SessionCorrect ==
    ASSUME ~SameSid
    PROVE  Spec => []Correct
<1>1. Spec => [](TypeInv /\ SaysInv)
  BY Invariants
<1>2. TypeInv /\ SaysInv => Correct
  BY DEF SaysInv
<1>3. QED BY <1>1, <1>2, PTL

(***************************************************************************)
(* The session implements the ideal functionality.                         *)
(***************************************************************************)
Outcome == [p \in Party |-> IF status[p] = "running" THEN "pending"
                            ELSE IF status[p] = "done" THEN result[p] ELSE "error"]

\* The expected value is a result.
LEMMA ExpectedTyped ==
    ASSUME TypeInv, NEW p \in Party
    PROVE  /\ Expected(attempt[p]) \in Result
           /\ Expected(attempt[p]) # "pending"
<1>1. /\ attempt[p] \in Attempt
      /\ input["garbler"] \in [Attempt -> Input] /\ input["evaluator"] \in [Attempt -> Input]
  BY DEF TypeInv, TypeOK, Party
<1>2. Expected(attempt[p]) \in Result
  BY <1>1, DataAssumption DEF Expected
<1>3. QED BY <1>2, OutcomeAssumption

\* The initial states are initial for the ideal functionality.
LEMMA IdealStart == Init => Ideal!IdealInit
<1> SUFFICES ASSUME Init PROVE Ideal!IdealInit
  OBVIOUS
<1>1. input \in [Party -> [1..MaxAttempt -> Input]] /\ attempt = [p \in Party |-> 1]
  BY DEF Init, Attempt
<1>2. Outcome = [p \in Party |-> "pending"]
  BY DEF Init, Outcome
<1>3. QED BY <1>1, <1>2 DEF Ideal!IdealInit, Outcome

\* A step that stops nobody and restarts nobody is not seen.
LEMMA IdealUnseen ==
    ASSUME UNCHANGED <<input, attempt, status, result>>
    PROVE  UNCHANGED Ideal!idealVars
BY DEF Ideal!idealVars

\* A party that fails has given up.
LEMMA IdealGiveUp ==
    ASSUME TypeInv, NEW p \in Party, status[p] = "running",
           status' = [status EXCEPT ![p] = "failed"], UNCHANGED <<input, attempt>>,
           \A q \in Party : q # p => result'[q] = result[q]
    PROVE  Ideal!IdealNext
<1>1. status \in [Party -> {"running", "done", "failed"}]
  BY DEF TypeInv, TypeOK
<1>2. Outcome[p] = "pending"
  BY DEF Outcome
<1>3. Outcome' = [Outcome EXCEPT ![p] = "error"]
  BY <1>1 DEF Outcome
<1>4. Ideal!GiveUp(p)
  BY <1>2, <1>3 DEF Ideal!GiveUp, Outcome
<1>5. QED BY <1>4 DEF Ideal!IdealNext

\* A party that returns was told the value.
LEMMA IdealReturn ==
    ASSUME TypeInv, Correct', NEW p \in Party, NEW v, status[p] = "running",
           Return(p, v), UNCHANGED <<input, attempt>>
    PROVE  Ideal!IdealNext
<1>1. /\ status \in [Party -> {"running", "done", "failed"}]
      /\ result \in [Party -> Result \cup {None}]
  BY DEF TypeInv, TypeOK
<1>2. CASE v \in Refused
  BY <1>1, <1>2, IdealGiveUp DEF Return
<1>3. CASE v \notin Refused
  <2>1. /\ status' = [status EXCEPT ![p] = "done"] /\ result' = [result EXCEPT ![p] = v]
    BY <1>3 DEF Return
  <2>2. v = Expected(attempt[p])
    BY <1>1, <2>1, SaysStable DEF Correct
  <2>3. Ideal!Value(attempt[p]) = v
    BY <2>2 DEF Ideal!Value, Expected
  <2>4. Outcome[p] = "pending" /\ Outcome' = [Outcome EXCEPT ![p] = v]
    BY <1>1, <2>1 DEF Outcome
  <2>5. Ideal!Tell(p)
    BY <1>3, <2>3, <2>4 DEF Ideal!Tell, Outcome
  <2>6. QED BY <2>5 DEF Ideal!IdealNext
<1>4. QED BY <1>2, <1>3

\* A party that starts again calls again.
LEMMA IdealRestart ==
    ASSUME TypeInv, Correct, NEW p \in Party, Restart(p)
    PROVE  Ideal!IdealNext
<1>1. /\ status \in [Party -> {"running", "done", "failed"}]
      /\ result \in [Party -> Result \cup {None}]
  BY DEF TypeInv, TypeOK
<1>2. Outcome[p] # "pending"
  BY <1>1, ExpectedTyped DEF Restart, Outcome, Correct
<1>3. Outcome' = [Outcome EXCEPT ![p] = "pending"]
  BY <1>1 DEF Restart, Outcome
<1>4. /\ attempt[p] < MaxAttempt /\ attempt' = [attempt EXCEPT ![p] = @ + 1]
      /\ input' = input
  BY DEF Restart
<1>5. Ideal!CallAgain(p)
  BY <1>2, <1>3, <1>4 DEF Ideal!CallAgain, Outcome
<1>6. QED BY <1>5 DEF Ideal!IdealNext

\* Every step is a step of the ideal functionality or a stutter.
LEMMA IdealStep ==
    TypeInv /\ SaysInv /\ SaysInv' /\ [Next]_vars => [Ideal!IdealNext]_(Ideal!idealVars)
<1> SUFFICES ASSUME TypeInv, SaysInv, SaysInv', [Next]_vars
             PROVE  Ideal!IdealNext \/ UNCHANGED Ideal!idealVars
  OBVIOUS
<1>1. Correct /\ Correct'
  BY DEF SaysInv
<1>2. CASE \E p \in Party : SendCall(p) \/ RecvCall(p) \/ Outbox(p) \/ SwallowError(p)
  BY <1>2, IdealUnseen DEF SendCall, RecvCall, Outbox, SwallowError, Continue
<1>3. ASSUME NEW p \in Party, SendReturn(p)
      PROVE  Ideal!IdealNext \/ UNCHANGED Ideal!idealVars
  <2>1. status[p] = "running" /\ UNCHANGED <<input, attempt>>
    BY <1>3 DEF SendReturn, AtSend
  <2>2. CASE Return(p, Content(p, Step(p).topic))
    BY <1>1, <2>1, <2>2, IdealReturn
  <2>3. CASE Continue(p)
    BY <2>1, <2>3, IdealUnseen DEF Continue
  <2>4. QED BY <1>3, <2>2, <2>3 DEF SendReturn
<1>4. ASSUME NEW p \in Party, RecvReturn(p)
      PROVE  Ideal!IdealNext \/ UNCHANGED Ideal!idealVars
  <2>1. status[p] = "running" /\ UNCHANGED <<input, attempt>>
    BY <1>4 DEF RecvReturn, AtRecv
  <2>2. CASE Return(p, seen[p])
    BY <1>1, <2>1, <2>2, IdealReturn
  <2>3. CASE Continue(p)
    BY <2>1, <2>3, IdealUnseen DEF Continue
  <2>4. CASE Abort(p)
    BY <2>1, <2>4, IdealGiveUp DEF Abort
  <2>5. QED BY <1>4, <2>2, <2>3, <2>4 DEF RecvReturn
<1>5. CASE \E p \in Party : Fail(p)
  BY <1>5, IdealGiveUp DEF Fail, Abort
<1>6. CASE \E p \in Party : Restart(p)
  BY <1>1, <1>6, IdealRestart
<1>7. CASE \E m \in wire : Inbox(m)
  BY <1>7, IdealUnseen DEF Inbox
<1>8. CASE \E k \in DOMAIN box : Expire(k)
  BY <1>8, IdealUnseen DEF Expire, party
<1>9. CASE UNCHANGED vars
  BY <1>9, IdealUnseen DEF vars, party
<1>10. QED
  BY <1>2, <1>3, <1>4, <1>5, <1>6, <1>7, <1>8, <1>9 DEF Next, Move

\* The session implements the ideal functionality: what the two callers see
\* of the eleven calls, the messenger, the failures and the restarts is
\* that each is told the value of F for its session, or gets an error.
THEOREM SessionImplementsIdeal ==
    ASSUME ~SameSid
    PROVE  Spec => ImplementsIdeal
<1>1. Spec => [](TypeInv /\ SaysInv)
  BY Invariants
<1>2. QED
  BY <1>1, IdealStart, IdealStep, PTL DEF Spec, ImplementsIdeal, Ideal!IdealSpec

(***************************************************************************)
(* Attempts that share a session id.  Messages of other attempts are taken *)
(* for those of this one, but what names the garbler's present garbling    *)
(* was made from its present input and the choices its transfer answered.  *)
(***************************************************************************)
Latest == attempt["garbler"]
HasChosen == pc["garbler"] > 8
Chosen == got["garbler"]["co_choices"]

\* What a value under a topic may say of the garbler's latest garbling.
Tells(t, v) ==
    /\ t = "inputs" => v.value = input["garbler"][v.garbling]
    /\ t = "ot_ciphertexts" =>
         v.garbling <= Latest /\ (v.garbling = Latest => HasChosen /\ v.choices = Chosen)
    /\ t = "result_labels" =>
         /\ v.garbling <= Latest
         /\ v.garbling = Latest => HasChosen /\ v.value = F[Own("garbler")][Chosen.value]

\* All messages, and the garbler's result, agree with the latest garbling.
TellsInv ==
    /\ \A m \in wire : Tells(m.key.topic, m.val)
    /\ \A k \in DOMAIN box : Tells(k.topic, box[k])
    /\ \A p \in Party : \A t \in DOMAIN got[p] : Tells(t, got[p][t])
    /\ \A p \in Party : AtRecv(p) /\ rpc[p] = "answered" => Tells(Step(p).topic, seen[p])
    /\ GarblerDecodesOwnLabels

\* While the garbler neither starts again nor is given other choices, what a
\* value tells stays so.
LEMMA TellsStable ==
    ASSUME input' = input, Latest' = Latest, HasChosen => HasChosen' /\ Chosen' = Chosen,
           NEW t, NEW v, Tells(t, v)
    PROVE  Tells(t, v)'
<1>1. Own("garbler")' = Own("garbler")
  BY DEF Own, Latest
<1>2. QED BY <1>1 DEF Tells

\* A garbler that starts again draws labels nobody has.
LEMMA TellsAfresh ==
    ASSUME TypeInv, NEW p \in Party, Restart(p), NEW t, NEW v \in Payload(t), Tells(t, v)
    PROVE  Tells(t, v)'
<1>1. input' = input /\ attempt' = [attempt EXCEPT ![p] = @ + 1] /\ attempt \in [Party -> Attempt]
  BY DEF Restart, TypeInv, TypeOK
<1>2. CASE p = "garbler"
  <2>1. Latest' = Latest + 1 /\ Latest \in Nat
    BY <1>1, <1>2, AttemptIsNat DEF Latest
  <2>2. t \in {"ot_ciphertexts", "result_labels"} => v.garbling \in Nat
    <3>1. ASSUME t = "ot_ciphertexts" PROVE v.garbling \in Attempt
      <4>1. v \in Payload("ot_ciphertexts")
        BY <3>1
      <4>2. v \in [garbling : Attempt, choices : Choices]
        BY <4>1, Payloads
      <4>3. QED BY <4>2
    <3>2. ASSUME t = "result_labels" PROVE v.garbling \in Attempt \cup {0}
      <4>1. v \in Payload("result_labels")
        BY <3>2
      <4>2. v \in Labels(Result) \/ v = Garbage
        BY <4>1, Payloads
      <4>3. CASE v \in Labels(Result)
        <5>1. v \in [garbling : Attempt, value : Result]
          BY <4>3 DEF Labels
        <5>2. QED BY <5>1
      <4>4. CASE v = Garbage
        <5>1. v.garbling = 0
          BY <4>4 DEF Garbage
        <5>2. QED BY <5>1
      <4>5. QED BY <4>2, <4>3, <4>4
    <3>3. Attempt \cup {0} \subseteq Nat
      BY AttemptIsNat
    <3>4. t = "ot_ciphertexts" => v.garbling \in Nat
      BY <3>1, <3>3
    <3>5. t = "result_labels" => v.garbling \in Nat
      BY <3>2, <3>3
    <3>6. QED BY <3>4, <3>5
  <2>3. QED BY <1>1, <2>1, <2>2 DEF Tells
<1>3. CASE p = "evaluator"
  <2>1. attempt'["garbler"] = attempt["garbler"] /\ pc'["garbler"] = pc["garbler"]
        /\ got'["garbler"] = got["garbler"]
    BY <1>3 DEF Restart, TypeInv, TypeOK, Party
  <2>2. QED BY <1>1, <2>1, TellsStable DEF Latest, HasChosen, Chosen
<1>4. QED BY <1>2, <1>3 DEF Party

\* What a party sends tells the truth.
LEMMA TellsContent ==
    ASSUME TypeInv, TellsInv, NEW p \in Party, AtSend(p)
    PROVE  Tells(Step(p).topic, Content(p, Step(p).topic))
<1> DEFINE t == Step(p).topic
<1>1. pc[p] \in 1..Last /\ attempt \in [Party -> Attempt] /\ Latest \in Nat /\ Latest # 0
  BY AttemptIsNat DEF TypeInv, TypeOK, Latest, Party
<1>2. SendStep(p, pc[p], t)
  BY <1>1, SendSteps DEF AtSend, Step
<1>3. CASE t \notin {"inputs", "ot_ciphertexts", "result_labels"}
  BY <1>3 DEF Tells
<1>4. CASE t = "inputs"
  <2>1. p = "garbler"
    BY <1>2, <1>4 DEF SendStep
  <2>2. Content(p, t) = [garbling |-> attempt[p], value |-> input[p][attempt[p]]]
    BY <1>4, Contents DEF OwnLabels, Own
  <2>3. QED BY <1>4, <2>1, <2>2 DEF Tells
<1>5. CASE t = "ot_ciphertexts"
  <2>1. p = "garbler" /\ pc[p] = 9
    BY <1>2, <1>5 DEF SendStep
  <2>2. Content(p, t) = [garbling |-> Latest, choices |-> Chosen]
    BY <1>5, <2>1, Contents DEF Latest, Chosen
  <2>3. HasChosen
    BY <2>1 DEF HasChosen
  <2>4. QED BY <1>1, <1>5, <2>2, <2>3 DEF Tells
<1>6. CASE t = "result_labels"
  <2>1. p = "evaluator" /\ pc[p] = 10
    BY <1>2, <1>6 DEF SendStep
  <2> DEFINE key == got[p]["ephemeral_key"]
             gates == got[p]["garbled_gates"]
             x == got[p]["inputs"]
             ct == got[p]["ot_ciphertexts"]
             y == ChosenLabels(CoChoices(p), ct)
  <2>2. Content(p, t) = EvalLabels(key, gates, circ[p], x, y)
    BY <1>6, Contents
  <2>3. "inputs" \in DOMAIN got[p] /\ "ot_ciphertexts" \in DOMAIN got[p]
    <3>1. 5 \in 1..Last /\ 9 \in 1..Last
      BY DEF Last
    <3>2. QED BY <2>1, <3>1, EvaluatorSteps, HasReceived
  <2>4. Tells("inputs", x) /\ Tells("ot_ciphertexts", ct)
    BY <2>3 DEF TellsInv
  <2>5. CASE key = y.garbling /\ key = x.garbling /\ key = gates.garbling /\ gates.circuit = circ[p]
    <3>1. Content(p, t) = [garbling |-> key, value |-> F[x.value][y.value]]
      BY <2>2, <2>5 DEF EvalLabels
    <3>2. key \in Attempt
      BY <2>1, EvaluatorHas
    <3>3. y.garbling # 0
      BY <2>5, <3>2, AttemptIsNat
    <3>4. y = [garbling |-> ct.garbling, value |-> ct.choices.value]
      BY <3>3 DEF ChosenLabels, Garbage
    <3> HIDE DEF y, ct, x, key
    <3>9. key = ct.garbling /\ key = x.garbling /\ y.value = ct.choices.value
      BY <2>5, <3>4
    <3>5. key <= Latest
      BY <2>4, <3>9 DEF Tells
    <3>6. ASSUME key = Latest PROVE HasChosen /\ F[x.value][y.value] = F[Own("garbler")][Chosen.value]
      <4>1. HasChosen /\ ct.choices = Chosen
        BY <2>4, <3>9, <3>6 DEF Tells
      <4>2. x.value = Own("garbler")
        BY <2>4, <3>9, <3>6 DEF Tells, Own, Latest
      <4>3. QED BY <3>9, <4>1, <4>2
    <3>7. QED BY <1>6, <3>1, <3>5, <3>6 DEF Tells
  <2>6. CASE ~(key = y.garbling /\ key = x.garbling /\ key = gates.garbling /\ gates.circuit = circ[p])
    <3>1. Content(p, t).garbling = 0
      BY <2>2, <2>6 DEF EvalLabels, Garbage
    <3>2. QED BY <1>1, <1>6, <3>1 DEF Tells
  <2>7. QED BY <2>5, <2>6
<1>7. QED BY <1>3, <1>4, <1>5, <1>6

\* Steps that give nobody a message, and after which the garbler returned
\* what it should.
LEMMA TellsQuiet ==
    ASSUME TellsInv, UNCHANGED <<input, attempt, got>>,
           HasChosen => HasChosen',
           \A m \in wire' : m \in wire \/ Tells(m.key.topic, m.val),
           \A k \in DOMAIN box' : Tells(k.topic, box'[k]),
           \A q \in Party : AtRecv(q)' /\ rpc'[q] = "answered" =>
              Step(q)' = Step(q) /\ Tells(Step(q).topic, seen'[q]),
           GarblerDecodesOwnLabels'
    PROVE  TellsInv'
<1>1. Latest' = Latest /\ Chosen' = Chosen /\ input' = input
  BY DEF Latest, Chosen
<1>2. \A t, v : Tells(t, v) => Tells(t, v)'
  BY <1>1, TellsStable
<1>3. \A m \in wire' : Tells(m.key.topic, m.val)'
  BY <1>2 DEF TellsInv
<1>4. \A p \in Party : \A t \in DOMAIN got'[p] : Tells(t, got[p][t])' /\ got'[p] = got[p]
  BY <1>2 DEF TellsInv
<1>5. QED BY <1>2, <1>3, <1>4 DEF TellsInv

\* A garbler that is stopped, or whose result and choices stay.
LEMMA DecodesStable ==
    ASSUME GarblerDecodesOwnLabels, UNCHANGED <<input, attempt, got, result>>,
           status'["garbler"] = "done" => status["garbler"] = "done"
    PROVE  GarblerDecodesOwnLabels'
<1>1. Own("garbler")' = Own("garbler")
  BY DEF Own
<1>2. QED BY <1>1 DEF GarblerDecodesOwnLabels

\* Answers that stay at hand while nothing else changes for their party.
LEMMA AnswersKept ==
    ASSUME TellsInv, UNCHANGED <<status, pc, seen>>,
           \A q \in Party : rpc'[q] = "answered" /\ AtRecv(q) => rpc[q] = "answered"
    PROVE  \A q \in Party : AtRecv(q)' /\ rpc'[q] = "answered" =>
              Step(q)' = Step(q) /\ Tells(Step(q).topic, seen'[q])
BY DEF TellsInv, AtRecv, Step

\* Nothing is told at first.
LEMMA TellsInit == Init => TellsInv
<1> SUFFICES ASSUME Init PROVE TellsInv
  OBVIOUS
<1>1. wire = {} /\ DOMAIN box = {} /\ \A p \in Party : DOMAIN got[p] = {}
  BY DEF Init, M!MailboxInit, NothingYet
<1>2. \A p \in Party : rpc[p] = "idle" /\ status[p] = "running"
  BY DEF Init
<1>3. QED BY <1>1, <1>2 DEF TellsInv, GarblerDecodesOwnLabels, Party

\* A message that is sent tells of the latest garbling what is so.
LEMMA TellsSendCall ==
    ASSUME TypeInv, TellsInv, NEW p \in Party, SendCall(p)
    PROVE  TellsInv'
<1> DEFINE m == [key |-> KeyOf(p, p, nsend[p] + 1), val |-> Content(p, Step(p).topic)]
<1>1. m.key.topic = Step(p).topic /\ wire' = wire \cup {m}
  BY DEF KeyOf, SendCall
<1>2. Tells(m.key.topic, m.val)
  BY <1>1, TellsContent DEF SendCall
<1>3. /\ UNCHANGED <<input, attempt, status, pc, nrecv, got, circ, result, lost, box, seen>>
      /\ rpc' = [rpc EXCEPT ![p] = "sent"] /\ rpc \in [Party -> {"idle", "sent", "answered"}]
  BY DEF SendCall, TypeInv, TypeOK
<1>4. \A q \in Party : AtRecv(q)' /\ rpc'[q] = "answered" =>
        Step(q)' = Step(q) /\ Tells(Step(q).topic, seen'[q])
  BY <1>3, AnswersKept
<1>5. GarblerDecodesOwnLabels' /\ (HasChosen => HasChosen')
  BY <1>3, DecodesStable DEF TellsInv, HasChosen
<1>6. \A k \in DOMAIN box' : Tells(k.topic, box'[k])
  BY <1>3 DEF TellsInv
<1>7. \A w \in wire' : w \in wire \/ Tells(w.key.topic, w.val)
  BY <1>1, <1>2
<1>8. QED BY <1>3, <1>4, <1>5, <1>6, <1>7, TellsQuiet

\* The service of a post stores what was told.
LEMMA TellsInbox ==
    ASSUME TypeInv, TellsInv, NEW m \in wire, Inbox(m)
    PROVE  TellsInv'
<1>1. /\ \A k \in DOMAIN box' : k \in DOMAIN box \cup {m.key}
      /\ \A k \in DOMAIN box' : box'[k] = IF k = m.key THEN m.val ELSE box[k]
      /\ seen' = seen
  BY DEF Inbox, M!Put, M!With
<1>2. \A k \in DOMAIN box' : Tells(k.topic, box'[k])
  BY <1>1 DEF TellsInv
<1>3. /\ UNCHANGED <<input, attempt, status, pc, nrecv, got, circ, result>>
      /\ wire' \subseteq wire
  BY DEF Inbox
<1>4. \A q \in Party : rpc'[q] = "answered" /\ AtRecv(q) => rpc[q] = "answered"
  BY DEF AtRecv, Inbox, IsPending, AtSend
<1>5. \A q \in Party : AtRecv(q)' /\ rpc'[q] = "answered" =>
        Step(q)' = Step(q) /\ Tells(Step(q).topic, seen'[q])
  BY <1>1, <1>3, <1>4, AnswersKept
<1>6. GarblerDecodesOwnLabels' /\ (HasChosen => HasChosen')
  BY <1>3, DecodesStable DEF TellsInv, HasChosen
<1>7. \A w \in wire' : w \in wire
  BY <1>3
<1>8. QED BY <1>2, <1>3, <1>5, <1>6, <1>7, TellsQuiet

\* The garbler returns what the labels of its own garbling decode to.
LEMMA TellsSendReturn ==
    ASSUME TypeInv, TellsInv, NEW p \in Party, SendReturn(p)
    PROVE  TellsInv'
<1>0. /\ pc \in [Party -> 1..11] /\ Step(p).op = "send" /\ AtSend(p) /\ status[p] = "running"
      /\ rpc' = [rpc EXCEPT ![p] = "idle"] /\ rpc \in [Party -> {"idle", "sent", "answered"}]
      /\ status \in [Party -> {"running", "done", "failed"}] /\ DOMAIN result = Party
  BY DEF SendReturn, AtSend, TypeInv, TypeOK, Last
<1>1. UNCHANGED <<input, attempt, got, wire, box, seen>>
  BY DEF SendReturn
<1>2. \/ pc[p] = Last /\ Return(p, Content(p, Step(p).topic))
      \/ Continue(p)
  BY DEF SendReturn
<1>3. /\ \A q \in Party : q # p => pc'[q] = pc[q] /\ status'[q] = status[q] /\ result'[q] = result[q]
      /\ pc'[p] = pc[p] \/ pc'[p] = pc[p] + 1
  BY <1>0, <1>2 DEF Return, Continue
<1>4. HasChosen => HasChosen'
  BY <1>0, <1>3 DEF HasChosen, Party
<1>5. ASSUME NEW q \in Party, AtRecv(q)', rpc'[q] = "answered"
      PROVE  Step(q)' = Step(q) /\ Tells(Step(q).topic, seen'[q])
  <2>1. q # p /\ rpc[q] = "answered"
    BY <1>0, <1>5
  <2>2. Step(q)' = Step(q) /\ AtRecv(q)
    BY <1>3, <1>5, <2>1 DEF Step, AtRecv
  <2>3. QED BY <1>1, <2>1, <2>2 DEF TellsInv
<1>6. GarblerDecodesOwnLabels'
  <2>1. CASE Continue(p) \/ p # "garbler"
    <3>1. status'["garbler"] = "done" => status["garbler"] = "done" /\ result'["garbler"] = result["garbler"]
      BY <1>0, <1>3, <2>1 DEF Continue, Party
    <3>2. Own("garbler")' = Own("garbler")
      BY <1>1 DEF Own
    <3>3. QED BY <1>1, <3>1, <3>2 DEF TellsInv, GarblerDecodesOwnLabels
  <2>2. CASE p = "garbler" /\ pc[p] = Last /\ Return(p, Content(p, Step(p).topic))
    <3>1. Step(p).topic = "result" /\ pc[p] = 11 /\ 10 \in 1..Last
      BY <2>2, GarblerSteps DEF Step, Last
    <3>2. "result_labels" \in DOMAIN got[p]
      BY <2>2, <3>1, GarblerSteps, HasReceived
    <3>3. Tells("result_labels", got[p]["result_labels"])
      BY <3>2 DEF TellsInv
    <3>4. got[p]["result_labels"].garbling = Latest
      BY <2>2, <3>1 DEF TypeInv, Latest
    <3>5. Content(p, Step(p).topic) = F[Own("garbler")][Chosen.value]
      BY <3>1, <3>3, <3>4, Contents DEF Tells, Decoded
    <3>6. status'[p] = "done" => result'[p] = F[Own("garbler")][Chosen.value]
      BY <1>0, <2>2, <3>5 DEF Return
    <3>7. Own("garbler")' = Own("garbler") /\ Chosen' = Chosen
      BY <1>1 DEF Own, Chosen
    <3>8. QED BY <2>2, <3>6, <3>7 DEF GarblerDecodesOwnLabels, Chosen
  <2>3. QED BY <1>2, <2>1, <2>2
<1>7. \A k \in DOMAIN box' : Tells(k.topic, box'[k])
  BY <1>1 DEF TellsInv
<1>8. QED BY <1>1, <1>4, <1>5, <1>6, <1>7, TellsQuiet

\* Dropping the error of a send tells nothing new.
LEMMA TellsSwallowError ==
    ASSUME TypeInv, TellsInv, NEW p \in Party, SwallowError(p)
    PROVE  TellsInv'
<1>0. /\ pc \in [Party -> 1..11] /\ rpc' = [rpc EXCEPT ![p] = "idle"]
      /\ rpc \in [Party -> {"idle", "sent", "answered"}]
  BY DEF SwallowError, TypeInv, TypeOK, Last
<1>1. /\ UNCHANGED <<input, attempt, got, circ, box, seen, status, result>> /\ wire' \subseteq wire
      /\ pc' = [pc EXCEPT ![p] = @ + 1]
  BY DEF SwallowError, Unanswered, Continue
<1>2. HasChosen => HasChosen'
  BY <1>0, <1>1 DEF HasChosen, Party
<1>3. ASSUME NEW q \in Party, AtRecv(q)', rpc'[q] = "answered"
      PROVE  Step(q)' = Step(q) /\ Tells(Step(q).topic, seen'[q])
  <2>1. q # p /\ rpc[q] = "answered"
    BY <1>0, <1>3
  <2>2. Step(q)' = Step(q) /\ AtRecv(q)
    BY <1>0, <1>1, <1>3, <2>1 DEF Step, AtRecv
  <2>3. QED BY <1>1, <2>1, <2>2 DEF TellsInv
<1>4. GarblerDecodesOwnLabels'
  BY <1>1, DecodesStable DEF TellsInv
<1>5. (\A k \in DOMAIN box' : Tells(k.topic, box'[k])) /\ (\A w \in wire' : w \in wire)
  BY <1>1 DEF TellsInv
<1>6. QED BY <1>1, <1>2, <1>3, <1>4, <1>5, TellsQuiet

\* The call of DirectRecv tells nothing new.
LEMMA TellsRecvCall ==
    ASSUME TypeInv, TellsInv, NEW p \in Party, RecvCall(p)
    PROVE  TellsInv'
<1>1. /\ \A q \in Party : q # p => seen'[q] = seen[q]
      /\ box' = box /\ rpc' = [rpc EXCEPT ![p] = "sent"] /\ rpc \in [Party -> {"idle", "sent", "answered"}]
      /\ UNCHANGED <<input, attempt, status, pc, got, circ, result, wire>>
  BY DEF RecvCall, M!Ask, TypeInv, TypeOK
<1>2. ASSUME NEW q \in Party, AtRecv(q)', rpc'[q] = "answered"
      PROVE  Step(q)' = Step(q) /\ Tells(Step(q).topic, seen'[q])
  <2>1. q # p /\ rpc[q] = "answered"
    BY <1>1, <1>2
  <2>2. Step(q)' = Step(q) /\ AtRecv(q)
    BY <1>1, <1>2 DEF AtRecv, Step
  <2>3. QED BY <1>1, <2>1, <2>2 DEF TellsInv
<1>3. GarblerDecodesOwnLabels' /\ (HasChosen => HasChosen')
  BY <1>1, DecodesStable DEF TellsInv, HasChosen
<1>4. (\A k \in DOMAIN box' : Tells(k.topic, box'[k])) /\ (\A w \in wire' : w \in wire)
  BY <1>1 DEF TellsInv
<1>5. QED BY <1>1, <1>2, <1>3, <1>4, TellsQuiet

\* The service of a query hands out what was told.
LEMMA TellsOutbox ==
    ASSUME TypeInv, TellsInv, NEW p \in Party, Outbox(p)
    PROVE  TellsInv'
<1> DEFINE k == KeyOf(p, Peer(p), nrecv[p])
<1>1. k.topic = Step(p).topic /\ k \in DOMAIN box
  BY DEF KeyOf, Outbox, M!Fetch, M!Stored
<1>2. Tells(Step(p).topic, box[k])
  BY <1>1 DEF TellsInv
<1>3. seen'[p] = box[k] /\ \A q \in Party : q # p => seen'[q] = seen[q]
  BY DEF Outbox, M!Fetch, TypeInv, TypeOK
<1>4. /\ box' = box /\ rpc' = [rpc EXCEPT ![p] = "answered"]
      /\ UNCHANGED <<input, attempt, status, pc, got, circ, result, wire>>
  BY DEF Outbox, M!Fetch
<1>5. ASSUME NEW q \in Party, AtRecv(q)', rpc'[q] = "answered"
      PROVE  Step(q)' = Step(q) /\ Tells(Step(q).topic, seen'[q])
  <2>1. Step(q)' = Step(q) /\ AtRecv(q)
    BY <1>4, <1>5 DEF AtRecv, Step
  <2>2. CASE q = p
    BY <1>2, <1>3, <2>1, <2>2
  <2>3. CASE q # p
    <3>1. rpc[q] = "answered"
      BY <1>4, <1>5, <2>3 DEF TypeInv, TypeOK
    <3>2. QED BY <1>3, <2>1, <2>3, <3>1 DEF TellsInv
  <2>4. QED BY <2>2, <2>3
<1>6. GarblerDecodesOwnLabels' /\ (HasChosen => HasChosen')
  BY <1>4, DecodesStable DEF TellsInv, HasChosen
<1>7. (\A j \in DOMAIN box' : Tells(j.topic, box'[j])) /\ (\A w \in wire' : w \in wire)
  BY <1>4 DEF TellsInv
<1>8. QED BY <1>4, <1>5, <1>6, <1>7, TellsQuiet

\* The choices are received once: the garbler has none before.
LEMMA TellsRecvReturn ==
    ASSUME TypeInv, TellsInv, NEW p \in Party, RecvReturn(p)
    PROVE  TellsInv'
<1> DEFINE t == Step(p).topic
           v == seen[p]
<1>0. /\ pc \in [Party -> 1..11] /\ pc[p] \in 1..Last
      /\ status \in [Party -> {"running", "done", "failed"}] /\ DOMAIN result = Party
      /\ rpc \in [Party -> {"idle", "sent", "answered"}]
  BY DEF TypeInv, TypeOK, Last
<1>1. Tells(t, v) /\ Step(p).op = "recv" /\ status[p] = "running"
  BY DEF RecvReturn, TellsInv, AtRecv
<1>2. /\ rpc' = [rpc EXCEPT ![p] = "idle"]
      /\ UNCHANGED <<input, attempt, wire, box, seen>>
  BY DEF RecvReturn
<1>3. \/ Abort(p)
      \/ pc[p] = Last /\ Return(p, v)
      \/ Continue(p)
  BY DEF RecvReturn
<1>4. /\ \A q \in Party : q # p => pc'[q] = pc[q] /\ status'[q] = status[q] /\ result'[q] = result[q]
      /\ pc'[p] = pc[p] \/ pc'[p] = pc[p] + 1
  BY <1>0, <1>3 DEF Abort, Return, Continue
<1>5. /\ DOMAIN got'[p] = DOMAIN got[p] \cup {t} /\ got'[p][t] = v
      /\ \A u \in DOMAIN got[p] : u # t => got'[p][u] = got[p][u]
      /\ \A q \in Party : q # p => got'[q] = got[q]
  BY DEF RecvReturn, M!With, TypeInv, TypeOK
<1>6. HasChosen => HasChosen' /\ Chosen' = Chosen
  <2>1. CASE p # "garbler"
    BY <1>4, <1>5, <2>1 DEF HasChosen, Chosen, Party
  <2>2. CASE p = "garbler"
    <3>1. HasChosen => HasChosen'
      BY <1>0, <1>4, <2>2 DEF HasChosen
    <3>2. HasChosen => pc[p] = 10
      <4>1. pc[p] # 9 /\ pc[p] # 11
        BY <1>1, <2>2, GarblerSteps DEF Step
      <4>2. QED BY <1>0, <2>2, <4>1 DEF HasChosen
    <3>3. HasChosen => t # "co_choices"
      BY <2>2, <3>2, GarblerSteps DEF Step
    <3>4. HasChosen => "co_choices" \in DOMAIN got[p]
      <4>1. 8 \in 1..Last
        BY DEF Last
      <4>2. QED BY <2>2, <4>1, GarblerSteps, HasReceived DEF HasChosen
    <3>5. QED BY <1>5, <2>2, <3>1, <3>3, <3>4 DEF Chosen
  <2>3. QED BY <2>1, <2>2
<1>7. input' = input /\ Latest' = Latest
  BY <1>2 DEF Latest
<1>8. \A u, w : Tells(u, w) => Tells(u, w)'
  BY <1>6, <1>7, TellsStable
<1>9. \A q \in Party : \A u \in DOMAIN got'[q] : Tells(u, got'[q][u])
  BY <1>1, <1>5 DEF TellsInv
<1>10. ASSUME NEW q \in Party, AtRecv(q)', rpc'[q] = "answered"
       PROVE  Step(q)' = Step(q) /\ Tells(Step(q).topic, seen'[q])
  <2>1. q # p /\ rpc[q] = "answered"
    BY <1>0, <1>2, <1>10
  <2>2. Step(q)' = Step(q) /\ AtRecv(q)
    BY <1>4, <1>10, <2>1 DEF AtRecv, Step
  <2>3. QED BY <1>2, <2>1, <2>2 DEF TellsInv
<1>11. GarblerDecodesOwnLabels'
  <2>1. CASE p = "garbler"
    <3>1. pc[p] # Last
      BY <1>0, <1>1, <2>1, RecvSteps DEF Step
    <3>2. status'[p] # "done"
      BY <1>0, <1>1, <1>3, <3>1 DEF Abort, Continue
    <3>3. QED BY <2>1, <3>2 DEF GarblerDecodesOwnLabels
  <2>2. CASE p # "garbler"
    <3>1. UNCHANGED <<status["garbler"], result["garbler"], got["garbler"]>>
      BY <1>4, <1>5, <2>2 DEF Party
    <3>2. Own("garbler")' = Own("garbler")
      BY <1>2 DEF Own
    <3>3. QED BY <3>1, <3>2 DEF TellsInv, GarblerDecodesOwnLabels
  <2>3. QED BY <2>1, <2>2
<1>12. /\ \A w \in wire' : Tells(w.key.topic, w.val)
       /\ \A k \in DOMAIN box' : Tells(k.topic, box'[k])
  BY <1>2 DEF TellsInv
<1>13. QED BY <1>8, <1>9, <1>10, <1>11, <1>12 DEF TellsInv

\* A failure tells nothing new.
LEMMA TellsFail ==
    ASSUME TypeInv, TellsInv, NEW p \in Party, Fail(p)
    PROVE  TellsInv'
<1>1. /\ UNCHANGED <<input, attempt, got, circ, box, seen, pc, result>> /\ wire' \subseteq wire
      /\ status' = [status EXCEPT ![p] = "failed"] /\ rpc' = [rpc EXCEPT ![p] = "idle"]
      /\ rpc \in [Party -> {"idle", "sent", "answered"}]
      /\ status \in [Party -> {"running", "done", "failed"}]
  BY DEF Fail, Unanswered, Abort, TypeInv, TypeOK
<1>2. ASSUME NEW q \in Party, AtRecv(q)', rpc'[q] = "answered"
      PROVE  Step(q)' = Step(q) /\ Tells(Step(q).topic, seen'[q])
  <2>1. q # p /\ rpc[q] = "answered"
    BY <1>1, <1>2
  <2>2. Step(q)' = Step(q) /\ AtRecv(q)
    BY <1>1, <1>2, <2>1 DEF Step, AtRecv
  <2>3. QED BY <1>1, <2>1, <2>2 DEF TellsInv
<1>3. GarblerDecodesOwnLabels' /\ (HasChosen => HasChosen')
  BY <1>1, DecodesStable DEF TellsInv, HasChosen, Party
<1>4. (\A k \in DOMAIN box' : Tells(k.topic, box'[k])) /\ (\A w \in wire' : w \in wire)
  BY <1>1 DEF TellsInv
<1>5. QED BY <1>1, <1>2, <1>3, <1>4, TellsQuiet

\* A restart begins an attempt whose garbling nothing names yet.
LEMMA TellsRestart ==
    ASSUME TypeInv, TellsInv, NEW p \in Party, Restart(p)
    PROVE  TellsInv'
<1>1. /\ DOMAIN got'[p] = {}
      /\ \A q \in Party : q # p =>
           /\ got'[q] = got[q] /\ pc'[q] = pc[q] /\ attempt'[q] = attempt[q]
           /\ result'[q] = result[q] /\ status'[q] = status[q]
      /\ pc'[p] = 1 /\ status'[p] = "running"
      /\ UNCHANGED <<input, rpc, wire, box, seen>>
  BY DEF Restart, NothingYet, TypeInv, TypeOK
<1>2. \A t : \A v \in Payload(t) : Tells(t, v) => Tells(t, v)'
  BY TellsAfresh
<1>3. \A m \in wire' : Tells(m.key.topic, m.val)'
  BY <1>1, <1>2 DEF TellsInv, TypeInv, TypeOK
<1>4. \A k \in DOMAIN box' : Tells(k.topic, box[k])' /\ box' = box
  BY <1>1, <1>2 DEF TellsInv, TypeInv, TypeOK
<1>5. \A q \in Party : \A t \in DOMAIN got'[q] : q # p /\ Tells(t, got[q][t])' /\ got'[q] = got[q]
  BY <1>1, <1>2 DEF TellsInv, TypeInv, TypeOK
<1>6. ASSUME NEW q \in Party, AtRecv(q)', rpc'[q] = "answered"
      PROVE  Tells(Step(q).topic, seen[q])' /\ seen' = seen
  <2>1. q # p
    <3>1. Script(p)[1].op = "send"
      BY GarblerSteps, EvaluatorSteps DEF Party
    <3>2. Step(p)'.op = "send"
      BY <1>1, <3>1 DEF Step
    <3>3. QED BY <1>6, <3>2 DEF AtRecv
  <2>2. AtRecv(q) /\ rpc[q] = "answered" /\ Step(q)' = Step(q)
    BY <1>1, <1>6, <2>1 DEF AtRecv, Step
  <2>3. seen[q] \in Payload(Step(q).topic) /\ Tells(Step(q).topic, seen[q])
    BY <2>2 DEF TellsInv, TypeInv
  <2>4. QED BY <1>1, <1>2, <2>2, <2>3
<1>7. GarblerDecodesOwnLabels'
  <2>1. CASE p = "garbler"
    BY <1>1, <2>1 DEF GarblerDecodesOwnLabels
  <2>2. CASE p # "garbler"
    <3>1. UNCHANGED <<status["garbler"], result["garbler"], got["garbler"]>>
      BY <1>1, <2>2 DEF Party
    <3>2. Own("garbler")' = Own("garbler")
      BY <1>1, <2>2 DEF Own, Party
    <3>3. QED BY <3>1, <3>2 DEF TellsInv, GarblerDecodesOwnLabels
  <2>3. QED BY <2>1, <2>2
<1>8. QED BY <1>3, <1>4, <1>5, <1>6, <1>7 DEF TellsInv

\* Expiry leaves less that is told.
LEMMA TellsExpire ==
    ASSUME TypeInv, TellsInv, NEW k \in DOMAIN box, Expire(k)
    PROVE  TellsInv'
<1>1. /\ \A j \in DOMAIN box' : j \in DOMAIN box /\ box'[j] = box[j]
      /\ UNCHANGED <<input, attempt, status, pc, rpc, got, circ, result, wire, seen>>
  BY DEF Expire, M!Lose, M!Stored, party
<1>2. \A q \in Party : AtRecv(q)' /\ rpc'[q] = "answered" =>
        Step(q)' = Step(q) /\ Tells(Step(q).topic, seen'[q])
  BY <1>1, AnswersKept
<1>3. GarblerDecodesOwnLabels' /\ (HasChosen => HasChosen')
  BY <1>1, DecodesStable DEF TellsInv, HasChosen
<1>4. (\A j \in DOMAIN box' : Tells(j.topic, box'[j])) /\ (\A w \in wire' : w \in wire)
  BY <1>1 DEF TellsInv
<1>5. QED BY <1>1, <1>2, <1>3, <1>4, TellsQuiet

\* A step that changes nothing tells nothing new.
LEMMA TellsStutter ==
    ASSUME TellsInv, UNCHANGED vars
    PROVE  TellsInv'
<1>1. UNCHANGED <<input, attempt, status, pc, rpc, got, circ, result, wire, box, seen>>
  BY DEF vars, party
<1>2. \A q \in Party : AtRecv(q)' /\ rpc'[q] = "answered" =>
        Step(q)' = Step(q) /\ Tells(Step(q).topic, seen'[q])
  BY <1>1, AnswersKept
<1>3. GarblerDecodesOwnLabels' /\ (HasChosen => HasChosen')
  BY <1>1, DecodesStable DEF TellsInv, HasChosen
<1>4. (\A j \in DOMAIN box' : Tells(j.topic, box'[j])) /\ (\A w \in wire' : w \in wire)
  BY <1>1 DEF TellsInv
<1>5. QED BY <1>1, <1>2, <1>3, <1>4, TellsQuiet

\* Every step keeps what is told of the latest garbling.
LEMMA TellsNext == TypeInv /\ TellsInv /\ [Next]_vars => TellsInv'
<1> SUFFICES ASSUME TypeInv, TellsInv, [Next]_vars PROVE TellsInv'
  OBVIOUS
<1>1. CASE \E p \in Party : SendCall(p) \/ SendReturn(p)
  BY <1>1, TellsSendCall, TellsSendReturn
<1>2. CASE \E p \in Party : RecvCall(p) \/ RecvReturn(p)
  BY <1>2, TellsRecvCall, TellsRecvReturn
<1>3. CASE \E p \in Party : Outbox(p) \/ SwallowError(p)
  BY <1>3, TellsOutbox, TellsSwallowError
<1>4. CASE \E p \in Party : Fail(p) \/ Restart(p)
  BY <1>4, TellsFail, TellsRestart
<1>5. CASE \E m \in wire : Inbox(m)
  BY <1>5, TellsInbox
<1>6. CASE \E k \in DOMAIN box : Expire(k)
  BY <1>6, TellsExpire
<1>7. CASE UNCHANGED vars
  BY <1>7, TellsStutter
<1>8. QED BY <1>1, <1>2, <1>3, <1>4, <1>5, <1>6, <1>7 DEF Next, Move

\* Whether or not attempts share a session id, the garbler returns the value
\* for its own present input and the choices its transfer answered.
THEOREM GarblerResultIsOwn == Spec => []GarblerDecodesOwnLabels
<1>1. TellsInv => GarblerDecodesOwnLabels
  BY DEF TellsInv
<1>2. QED BY <1>1, TypeInit, TypeNext, TellsInit, TellsNext, PTL DEF Spec

(***************************************************************************)
(* Messages of one attempt never replace each other: two of one key say    *)
(* the same.                                                               *)
(***************************************************************************)
LEMMA SameKeySameMessage ==
    ASSUME ~SameSid, TypeInv, SaysInv, TypeInv', SaysInv', [Next]_vars
    PROVE  \A k \in DOMAIN box \cap DOMAIN box' : box'[k] = box[k]
<1>1. input' = input
  BY DEF Next, Move, SendCall, SendReturn, RecvCall, RecvReturn, Outbox, SwallowError, Fail,
         Restart, Inbox, Expire, party, vars
<1>2. QED BY <1>1, SaysStable DEF SaysInv

\* When every attempt has a session id of its own, a stored message is never
\* replaced by another one: PrimaryKey and the counters of Conn keep them apart.
THEOREM MessagesKeptApart ==
    ASSUME ~SameSid
    PROVE  Spec => NoOverwrite
<1>1. Spec => [](TypeInv /\ SaysInv)
  BY Invariants
<1>2. /\ TypeInv /\ SaysInv /\ [Next]_vars /\ TypeInv' /\ SaysInv'
      => [\A k \in DOMAIN box \cap DOMAIN box' : box'[k] = box[k]]_vars
  BY SameKeySameMessage
<1>3. QED BY <1>1, <1>2, PTL DEF Spec, NoOverwrite

(***************************************************************************)
(* Nobody waits for each other.  Where a message is, by its sender's       *)
(* position: under way, stored, read, or gone.                             *)
(***************************************************************************)
\* How many messages a party has sent before step i.
Sends(p, i) == IF p = "garbler" THEN <<0, 1, 1, 2, 3, 4, 4, 5, 5, 6, 6>>[i]
               ELSE <<0, 1, 1, 1, 1, 1, 2, 2, 3, 3, 4>>[i]

\* The number of messages, step by step.
LEMMA SendsTable ==
    /\ Sends("garbler", 1) = 0 /\ Sends("garbler", 2) = 1 /\ Sends("garbler", 3) = 1
    /\ Sends("garbler", 4) = 2 /\ Sends("garbler", 5) = 3 /\ Sends("garbler", 6) = 4
    /\ Sends("garbler", 7) = 4 /\ Sends("garbler", 8) = 5 /\ Sends("garbler", 9) = 5
    /\ Sends("garbler", 10) = 6 /\ Sends("garbler", 11) = 6
    /\ Sends("evaluator", 1) = 0 /\ Sends("evaluator", 2) = 1 /\ Sends("evaluator", 3) = 1
    /\ Sends("evaluator", 4) = 1 /\ Sends("evaluator", 5) = 1 /\ Sends("evaluator", 6) = 1
    /\ Sends("evaluator", 7) = 2 /\ Sends("evaluator", 8) = 2 /\ Sends("evaluator", 9) = 3
    /\ Sends("evaluator", 10) = 3 /\ Sends("evaluator", 11) = 4
BY DEF Sends

\* A sending step raises it by one, a receiving step leaves it.
LEMMA SendsStep ==
    ASSUME NEW p \in Party, NEW i \in 1..Last
    PROVE  /\ Sends(p, i) \in Nat /\ Sends(p, 1) = 0
           /\ i # Last /\ Script(p)[i].op = "send" => Sends(p, i + 1) = Sends(p, i) + 1
           /\ i # Last /\ Script(p)[i].op = "recv" => Sends(p, i + 1) = Sends(p, i)
<1>1. i \in Positions
  BY PositionsAreAll
<1>2. CASE p = "garbler"
  BY <1>1, <1>2, GarblerSteps, SendsTable DEF Positions, Last
<1>3. CASE p = "evaluator"
  BY <1>1, <1>3, EvaluatorSteps, SendsTable DEF Positions, Last
<1>4. QED BY <1>2, <1>3 DEF Party

\* No topic is received at two steps.
LEMMA RecvTopicsDiffer ==
    ASSUME NEW p \in Party, NEW i \in 1..Last, NEW j \in 1..Last,
           Script(p)[i].op = "recv", Script(p)[j].op = "recv",
           Script(p)[i].topic = Script(p)[j].topic
    PROVE  i = j
<1>1. i \in Positions /\ j \in Positions
  BY PositionsAreAll
<1>2. CASE p = "garbler"
  BY <1>1, <1>2, GarblerSteps DEF Positions
<1>3. CASE p = "evaluator"
  BY <1>1, <1>3, EvaluatorSteps DEF Positions
<1>4. QED BY <1>2, <1>3 DEF Party

\* Step j of p sends what its peer receives at step i, under the same number.
Answers(p, j, i) ==
    /\ Script(p)[j].op = "send" /\ Script(p)[j].topic = Script(Peer(p))[i].topic
    /\ Sends(p, j) + 1 = i - Sends(Peer(p), i)

\* Of two receiving steps one is answered by a step before the other.
LEMMA NoCircle ==
    ASSUME NEW i \in 1..Last, NEW j \in 1..Last,
           Script("garbler")[i].op = "recv", Script("evaluator")[j].op = "recv"
    PROVE  \/ \E a \in 1..Last : a < j /\ Answers("evaluator", a, i)
           \/ \E a \in 1..Last : a < i /\ Answers("garbler", a, j)
<1>1. i \in {2, 6, 8, 10} /\ j \in {2, 3, 4, 5, 7, 9, 11}
  BY PositionsAreAll, GarblerSteps, EvaluatorSteps DEF Positions
<1>2. Peer("garbler") = "evaluator" /\ Peer("evaluator") = "garbler"
  BY DEF Peer
<1>3. \A a \in Positions : a \in 1..Last
  BY PositionsAreAll
<1>4. /\ Answers("evaluator", 1, 2) /\ Answers("evaluator", 6, 6)
      /\ Answers("evaluator", 8, 8) /\ Answers("evaluator", 10, 10)
  BY <1>2, GarblerSteps, EvaluatorSteps, SendsTable DEF Answers
<1>5. /\ Answers("garbler", 1, 2) /\ Answers("garbler", 3, 3) /\ Answers("garbler", 4, 4)
      /\ Answers("garbler", 5, 5) /\ Answers("garbler", 7, 7) /\ Answers("garbler", 9, 9)
      /\ Answers("garbler", 11, 11)
  BY <1>2, GarblerSteps, EvaluatorSteps, SendsTable DEF Answers
<1>6. /\ 1 \in 1..Last /\ 3 \in 1..Last /\ 4 \in 1..Last /\ 5 \in 1..Last /\ 6 \in 1..Last
      /\ 7 \in 1..Last /\ 8 \in 1..Last /\ 9 \in 1..Last /\ 10 \in 1..Last
  BY DEF Last
<1>7. CASE i = 2
  BY <1>1, <1>4, <1>6, <1>7
<1>8. CASE i = 6
  BY <1>1, <1>4, <1>5, <1>6, <1>8
<1>9. CASE i = 8
  BY <1>1, <1>4, <1>5, <1>6, <1>9
<1>10. CASE i = 10
  BY <1>1, <1>4, <1>5, <1>6, <1>10
<1>11. QED BY <1>1, <1>7, <1>8, <1>9, <1>10

\* Whether p has made the call of step i.
Made(p, i) == i < pc[p] \/ (i = pc[p] /\ rpc[p] # "idle")

\* The key of what it sends there.
SentKey(p, i) ==
    [sid |-> attempt[p], src |-> p, topic |-> Script(p)[i].topic, seq |-> Sends(p, i) + 1]

\* The peer of p is past reading p's message of topic t.
Past(p, t) ==
    LET q == Peer(p)
    IN  \/ attempt[q] > attempt[p]
        \/ /\ attempt[q] = attempt[p]
           /\ \/ status[q] # "running" \/ t \in DOMAIN got[q]
              \/ AtRecv(q) /\ rpc[q] = "answered" /\ Step(q).topic = t

\* Where the message of step i is.
Kept(p, i) ==
    \/ lost \/ Past(p, Script(p)[i].topic) \/ SentKey(p, i) \in DOMAIN box
    \/ \E m \in wire : m.key = SentKey(p, i)

\* Every message that p has sent in its attempt is somewhere, or known to be gone.
Delivered(p) == \A i \in 1..Last : Script(p)[i].op = "send" /\ Made(p, i) => Kept(p, i)

\* The counters of a Conn, by its party's position.
Called(p, op) == IF Step(p).op = op /\ rpc[p] # "idle" THEN 1 ELSE 0
Counts(p) ==
    /\ nsend[p] = Sends(p, pc[p]) + Called(p, "send")
    /\ nrecv[p] = pc[p] - 1 - Sends(p, pc[p]) + Called(p, "recv")

\* Nothing was received yet of this and later steps.
Unreceived(p) ==
    \A i \in 1..Last : i >= pc[p] /\ Script(p)[i].op = "recv"
                         => Script(p)[i].topic \notin DOMAIN got[p]

\* What holds of a running party, and of one that has stopped.
Waits(p) ==
    /\ status[p] = "running" => Delivered(p) /\ Counts(p) /\ Unreceived(p)
    /\ status[p] # "running" => rpc[p] = "idle"

\* The same of both.
WaitInv == \A p \in Party : Waits(p)

\* No attempt meets messages of another: all have ids of their own, or there
\* is one attempt.
OwnSids == ~SameSid \/ MaxAttempt = 1

\* The session id of an attempt is its number, then.
LEMMA SidIsAttempt ==
    ASSUME OwnSids, TypeInv, NEW p \in Party
    PROVE  Session(p) = attempt[p] /\ attempt[p] \in Nat
<1>1. attempt[p] \in 1..MaxAttempt
  BY DEF TypeInv, TypeOK, Attempt
<1>2. QED BY <1>1, DataAssumption DEF OwnSids, Session

\* q goes on: it may start again, or end, or read, but not unread.
GoesOn(q) ==
    /\ attempt'[q] >= attempt[q]
    /\ attempt'[q] = attempt[q] =>
         /\ status[q] # "running" => status'[q] # "running"
         /\ DOMAIN got[q] \subseteq DOMAIN got'[q]
         /\ AtRecv(q) /\ rpc[q] = "answered" =>
              \/ status'[q] # "running" \/ Step(q).topic \in DOMAIN got'[q]
              \/ AtRecv(q)' /\ rpc'[q] = "answered" /\ Step(q)' = Step(q)

\* What a party is past reading, it stays past reading.
LEMMA PastStays ==
    ASSUME TypeInv, TypeInv', NEW p \in Party, NEW t, Past(p, t),
           attempt'[p] = attempt[p], GoesOn(Peer(p))
    PROVE  Past(p, t)'
<1> DEFINE q == Peer(p)
<1>1. q \in Party /\ Peer(p)' = q
  BY DEF Peer, Party
<1>2. attempt[q] \in Nat /\ attempt'[q] \in Nat /\ attempt[p] \in Nat
  BY <1>1, AttemptIsNat DEF TypeInv, TypeOK
<1> HIDE DEF q
<1>3. CASE attempt[q] > attempt[p]
  BY <1>2, <1>3 DEF Past, GoesOn, q
<1>4. CASE attempt[q] = attempt[p] /\ attempt'[q] # attempt[q]
  <2>1. attempt'[q] > attempt[p]
    BY <1>2, <1>4 DEF GoesOn, q
  <2>2. QED BY <2>1 DEF Past, q
<1>5. CASE attempt[q] = attempt[p] /\ attempt'[q] = attempt[q]
  <2>1. \/ status[q] # "running" \/ t \in DOMAIN got[q]
        \/ AtRecv(q) /\ rpc[q] = "answered" /\ Step(q).topic = t
    BY <1>2, <1>5 DEF Past, q
  <2>2. \/ status'[q] # "running" \/ t \in DOMAIN got'[q]
        \/ AtRecv(q)' /\ rpc'[q] = "answered" /\ Step(q)'.topic = t
    BY <1>5, <2>1 DEF GoesOn, q
  <2>3. QED BY <1>5, <2>2 DEF Past, q
<1>6. QED BY <1>2, <1>3, <1>4, <1>5 DEF Past, q

\* A message stays where it is, moves on, or is known to be gone.
LEMMA KeptStays ==
    ASSUME TypeInv, TypeInv', NEW p \in Party, NEW i \in 1..Last, Kept(p, i),
           attempt'[p] = attempt[p], GoesOn(Peer(p)), lost => lost',
           SentKey(p, i) \in DOMAIN box => Kept(p, i)' \/ SentKey(p, i) \in DOMAIN box',
           \A m \in wire : m \in wire' \/ m.key \in DOMAIN box' \/ m.key.src # p \/ lost'
    PROVE  Kept(p, i)'
<1>1. SentKey(p, i)' = SentKey(p, i) /\ SentKey(p, i).src = p
  BY DEF SentKey
<1>2. CASE lost
  BY <1>2 DEF Kept
<1>3. CASE Past(p, Script(p)[i].topic)
  BY <1>3, PastStays DEF Kept
<1>4. CASE SentKey(p, i) \in DOMAIN box
  BY <1>1, <1>4 DEF Kept
<1>5. CASE \E m \in wire : m.key = SentKey(p, i)
  BY <1>1, <1>5 DEF Kept
<1>6. QED BY <1>2, <1>3, <1>4, <1>5 DEF Kept

\* A party that does not move.
LEMMA Steady ==
    ASSUME WaitInv, NEW p \in Party,
           attempt'[p] = attempt[p], pc'[p] = pc[p], status'[p] = status[p],
           nsend'[p] = nsend[p], nrecv'[p] = nrecv[p], got'[p] = got[p],
           rpc'[p] = "idle" <=> rpc[p] = "idle",
           \A i \in 1..Last : Kept(p, i) => Kept(p, i)'
    PROVE  Waits(p)'
<1>1. Step(p)' = Step(p) /\ \A i : Made(p, i)' <=> Made(p, i)
  BY DEF Step, Made
<1>2. Called(p, "send")' = Called(p, "send") /\ Called(p, "recv")' = Called(p, "recv")
  BY <1>1 DEF Called
<1>3. CASE status[p] = "running"
  <2>1. Delivered(p) /\ Counts(p) /\ Unreceived(p)
    BY <1>3 DEF WaitInv, Waits
  <2>2. Delivered(p)'
    BY <1>1, <2>1 DEF Delivered
  <2>3. Counts(p)'
    BY <1>2, <2>1 DEF Counts
  <2>4. Unreceived(p)'
    BY <2>1 DEF Unreceived
  <2>5. QED BY <1>3, <2>2, <2>3, <2>4 DEF Waits
<1>4. CASE status[p] # "running"
  BY <1>4 DEF WaitInv, Waits
<1>5. QED BY <1>3, <1>4

\* Returning from a send, with or without an error.
LEMMA SendOver ==
    ASSUME TypeInv, TypeInv', WaitInv, NEW p \in Party, AtSend(p), rpc[p] # "idle", rpc'[p] = "idle",
           attempt'[p] = attempt[p],
           status'[p] # "running" \/ (pc'[p] = pc[p] + 1 /\ status'[p] = "running"),
           nsend'[p] = nsend[p], nrecv'[p] = nrecv[p], got'[p] = got[p],
           \A i \in 1..Last : Kept(p, i) => Kept(p, i)'
    PROVE  Waits(p)'
<1>1. CASE status'[p] # "running"
  BY <1>1 DEF Waits
<1>2. CASE status'[p] = "running" /\ pc'[p] = pc[p] + 1
  <2>1. pc[p] \in 1..Last /\ pc'[p] \in 1..Last /\ pc[p] # Last /\ pc[p] \in Nat
    BY <1>2 DEF TypeInv, TypeOK, Last
  <2>2. Delivered(p) /\ Counts(p) /\ Unreceived(p) /\ Step(p).op = "send"
    BY DEF WaitInv, Waits, AtSend
  <2>3. \A i \in 1..Last : Made(p, i)' => Made(p, i)
    BY <1>2, <2>1 DEF Made, Last
  <2>4. Delivered(p)'
    BY <2>2, <2>3 DEF Delivered
  <2>5. Sends(p, pc'[p]) = Sends(p, pc[p]) + 1 /\ Sends(p, pc[p]) \in Nat
    BY <1>2, <2>1, <2>2, SendsStep DEF Step
  <2>6. /\ Called(p, "send") = 1 /\ Called(p, "recv") = 0
        /\ Called(p, "send")' = 0 /\ Called(p, "recv")' = 0
    BY <2>2 DEF Called
  <2>7. Counts(p)'
    BY <1>2, <2>1, <2>2, <2>5, <2>6 DEF Counts
  <2>8. Unreceived(p)'
    BY <1>2, <2>1, <2>2 DEF Unreceived, Last
  <2>9. QED BY <1>2, <2>4, <2>7, <2>8 DEF Waits
<1>3. QED BY <1>1, <1>2

\* A party that changes nothing goes on.
LEMMA StillGoesOn ==
    ASSUME TypeInv, NEW q \in Party,
           attempt'[q] = attempt[q], pc'[q] = pc[q], status'[q] = status[q], got'[q] = got[q],
           AtRecv(q) => rpc'[q] = rpc[q] \/ rpc'[q] = "answered"
    PROVE  GoesOn(q)
<1>1. attempt[q] \in Nat
  BY AttemptIsNat DEF TypeInv, TypeOK
<1>2. Step(q)' = Step(q)
  BY DEF Step
<1>3. AtRecv(q) => AtRecv(q)'
  BY <1>2 DEF AtRecv
<1>4. QED BY <1>1, <1>2, <1>3 DEF GoesOn

\* Nothing is sent or counted at first.
LEMMA WaitInit == Init => WaitInv
<1> SUFFICES ASSUME Init, NEW p \in Party PROVE Waits(p)
  BY DEF WaitInv
<1>1. /\ status[p] = "running" /\ pc[p] = 1 /\ rpc[p] = "idle" /\ DOMAIN got[p] = {}
      /\ nsend[p] = 0 /\ nrecv[p] = 0
  BY DEF Init, NothingYet
<1>2. 1 \in 1..Last
  BY DEF Last
<1>3. Sends(p, 1) = 0
  BY <1>2, SendsStep
<1>4. Delivered(p) /\ Counts(p) /\ Unreceived(p)
  BY <1>1, <1>3 DEF Delivered, Made, Counts, Called, Unreceived, Last
<1>5. QED BY <1>1, <1>4 DEF Waits

\* The call of DirectSend puts its message under way.
LEMMA WaitSendCall ==
    ASSUME OwnSids, TypeInv, TypeInv', WaitInv, NEW p \in Party, SendCall(p)
    PROVE  WaitInv'
<1>0. /\ AtSend(p) /\ rpc[p] = "idle" /\ pc[p] \in 1..Last /\ Step(p).op = "send"
      /\ nsend[p] \in Nat /\ status[p] = "running"
  BY DEF SendCall, TypeInv, TypeOK, AtSend
<1>1. /\ nsend'[p] = nsend[p] + 1 /\ rpc'[p] = "sent"
      /\ \A q \in Party : q # p => nsend'[q] = nsend[q] /\ rpc'[q] = rpc[q]
      /\ UNCHANGED <<attempt, status, pc, nrecv, got, lost, box>>
      /\ wire' = wire \cup {[key |-> KeyOf(p, p, nsend[p] + 1),
                             val |-> Content(p, Step(p).topic)]}
  BY DEF SendCall, TypeInv, TypeOK
<1>2. \A q \in Party : GoesOn(q)
  <2>1. ~AtRecv(p)
    BY <1>0 DEF AtRecv
  <2>2. QED BY <1>1, <2>1, StillGoesOn
<1>3. \A q \in Party : Peer(q) \in Party
  BY DEF Peer, Party
<1>4. \A q \in Party : \A i \in 1..Last : Kept(q, i) => Kept(q, i)'
  BY <1>1, <1>2, <1>3, KeptStays
<1>5. \A q \in Party : q # p => Waits(q)'
  BY <1>1, <1>4, Steady
<1>6. Delivered(p) /\ Counts(p) /\ Unreceived(p)
  BY <1>0 DEF WaitInv, Waits
<1>7. Step(p)' = Step(p)
  BY <1>1 DEF Step
<1>8. Called(p, "send") = 0 /\ Called(p, "recv") = 0 /\ Called(p, "send")' = 1 /\ Called(p, "recv")' = 0
  BY <1>0, <1>1, <1>7 DEF Called
<1>9. Sends(p, pc[p]) \in Nat /\ nsend[p] = Sends(p, pc[p])
  BY <1>0, <1>6, <1>8, SendsStep DEF Counts
<1>10. Delivered(p)'
  <2> SUFFICES ASSUME NEW i \in 1..Last, Script(p)[i].op = "send", Made(p, i)'
               PROVE  Kept(p, i)'
    BY DEF Delivered
  <2>1. CASE Made(p, i)
    BY <1>4, <1>6, <2>1 DEF Delivered
  <2>2. CASE ~Made(p, i)
    <3>1. i = pc[p]
      BY <1>0, <1>1, <2>2 DEF Made
    <3>2. SentKey(p, i)' = KeyOf(p, p, nsend[p] + 1)
      BY <1>1, <1>9, <3>1, SidIsAttempt DEF SentKey, KeyOf, Step
    <3>3. \E m \in wire' : m.key = KeyOf(p, p, nsend[p] + 1)
      <4> DEFINE m == [key |-> KeyOf(p, p, nsend[p] + 1), val |-> Content(p, Step(p).topic)]
      <4>1. m.key = KeyOf(p, p, nsend[p] + 1)
        OBVIOUS
      <4>2. m \in wire'
        BY <1>1
      <4>3. QED BY <4>1, <4>2
    <3>4. QED BY <3>2, <3>3 DEF Kept
  <2>3. QED BY <2>1, <2>2
<1>11. Counts(p)'
  BY <1>0, <1>1, <1>6, <1>8, <1>9 DEF Counts
<1>12. Unreceived(p)'
  BY <1>1, <1>6 DEF Unreceived
<1>13. Waits(p)'
  BY <1>0, <1>1, <1>10, <1>11, <1>12 DEF Waits
<1>14. QED BY <1>5, <1>13 DEF WaitInv

\* The service of a post stores what was under way.
LEMMA WaitInbox ==
    ASSUME OwnSids, TypeInv, TypeInv', WaitInv, NEW m \in wire, Inbox(m)
    PROVE  WaitInv'
<1>1. /\ UNCHANGED <<attempt, status, pc, nsend, nrecv, got, lost>>
      /\ DOMAIN box' = DOMAIN box \cup {m.key} /\ wire' = wire \ {m}
      /\ \A q \in Party : rpc'[q] = IF IsPending(q, m) THEN "answered" ELSE rpc[q]
  BY DEF Inbox, M!Put, M!With
<1>2. \A q \in Party : (rpc'[q] = "idle" <=> rpc[q] = "idle")
  BY <1>1 DEF IsPending
<1>3. \A q \in Party : Peer(q) \in Party
  BY DEF Peer, Party
<1>4. \A q \in Party : GoesOn(q)
  BY <1>1, StillGoesOn
<1>5. \A q \in Party : \A i \in 1..Last : Kept(q, i) => Kept(q, i)'
  BY <1>1, <1>3, <1>4, KeptStays
<1>6. QED BY <1>1, <1>2, <1>5, Steady DEF WaitInv

\* The return of DirectSend.
LEMMA WaitSendReturn ==
    ASSUME OwnSids, TypeInv, TypeInv', WaitInv, NEW p \in Party, SendReturn(p)
    PROVE  WaitInv'
<1>1. /\ AtSend(p) /\ rpc[p] = "answered" /\ rpc'[p] = "idle"
      /\ \A q \in Party : q # p => rpc'[q] = rpc[q]
      /\ UNCHANGED <<attempt, nsend, nrecv, got, wire, lost, box>>
  BY DEF SendReturn, TypeInv, TypeOK
<1>2. /\ \A q \in Party : q # p => pc'[q] = pc[q] /\ status'[q] = status[q]
      /\ status'[p] # "running" \/ (pc'[p] = pc[p] + 1 /\ status'[p] = "running")
  <2>1. CASE Return(p, Content(p, Step(p).topic))
    BY <2>1 DEF Return, TypeInv, TypeOK
  <2>2. CASE Continue(p)
    BY <1>1, <2>2 DEF Continue, TypeInv, TypeOK, AtSend
  <2>3. QED BY <2>1, <2>2 DEF SendReturn
<1>3. \A q \in Party : Peer(q) \in Party
  BY DEF Peer, Party
<1>4. GoesOn(p)
  <2>1. ~AtRecv(p) /\ status[p] = "running" /\ attempt[p] \in Nat
    BY <1>1, AttemptIsNat DEF AtSend, AtRecv, TypeInv, TypeOK
  <2>2. QED BY <1>1, <2>1 DEF GoesOn
<1>5. \A q \in Party : GoesOn(q)
  BY <1>1, <1>2, <1>4, StillGoesOn
<1>6. \A q \in Party : \A i \in 1..Last : Kept(q, i) => Kept(q, i)'
  BY <1>1, <1>3, <1>5, KeptStays
<1>7. \A q \in Party : q # p => Waits(q)'
  BY <1>1, <1>2, <1>6, Steady
<1>8. Waits(p)'
  BY <1>1, <1>2, <1>6, SendOver
<1>9. QED BY <1>7, <1>8 DEF WaitInv

\* A request that is dropped is its sender's.
LEMMA DroppedIsOwn ==
    ASSUME NEW p \in Party, Unanswered(p)
    PROVE  /\ \A m \in wire : m \in wire' \/ (m.key.src = p /\ AtSend(p) /\ rpc[p] = "sent")
           /\ wire' \subseteq wire
BY DEF Unanswered, IsPending, Pending, KeyOf

\* The error of sending the labels is dropped: the message may be lost.
LEMMA WaitSwallowError ==
    ASSUME OwnSids, TypeInv, TypeInv', WaitInv, NEW p \in Party, SwallowError(p)
    PROVE  WaitInv'
<1>1. /\ AtSend(p) /\ rpc[p] # "idle" /\ rpc'[p] = "idle"
      /\ \A q \in Party : q # p => rpc'[q] = rpc[q] /\ pc'[q] = pc[q]
      /\ pc'[p] = pc[p] + 1 /\ status' = status /\ status[p] = "running"
      /\ UNCHANGED <<attempt, nsend, nrecv, got, box>>
      /\ lost' = (lost \/ rpc[p] = "sent")
  BY DEF SwallowError, Continue, TypeInv, TypeOK, AtSend
<1>2. \A m \in wire : m \in wire' \/ lost'
  BY <1>1, DroppedIsOwn DEF SwallowError
<1>3. \A q \in Party : Peer(q) \in Party
  BY DEF Peer, Party
<1>4. GoesOn(p)
  <2>1. ~AtRecv(p) /\ attempt[p] \in Nat
    BY <1>1, AttemptIsNat DEF AtSend, AtRecv, TypeInv, TypeOK
  <2>2. QED BY <1>1, <2>1 DEF GoesOn
<1>5. \A q \in Party : GoesOn(q)
  BY <1>1, <1>4, StillGoesOn
<1>6. \A q \in Party : \A i \in 1..Last : Kept(q, i) => Kept(q, i)'
  BY <1>1, <1>2, <1>3, <1>5, KeptStays
<1>7. \A q \in Party : q # p => Waits(q)'
  BY <1>1, <1>6, Steady
<1>8. Waits(p)'
  BY <1>1, <1>6, SendOver
<1>9. QED BY <1>7, <1>8 DEF WaitInv

\* The call of DirectRecv counts.
LEMMA WaitRecvCall ==
    ASSUME OwnSids, TypeInv, TypeInv', WaitInv, NEW p \in Party, RecvCall(p)
    PROVE  WaitInv'
<1>0. /\ AtRecv(p) /\ rpc[p] = "idle" /\ pc[p] \in 1..Last /\ Step(p).op = "recv"
      /\ nrecv[p] \in Nat /\ status[p] = "running" /\ pc[p] \in Nat
  BY DEF RecvCall, TypeInv, TypeOK, AtRecv, Last
<1>1. /\ nrecv'[p] = nrecv[p] + 1 /\ rpc'[p] = "sent"
      /\ \A q \in Party : q # p => nrecv'[q] = nrecv[q] /\ rpc'[q] = rpc[q]
      /\ UNCHANGED <<attempt, status, pc, nsend, got, lost, box, wire>>
  BY DEF RecvCall, TypeInv, TypeOK, M!Ask
<1>2. GoesOn(p)
  <2>1. attempt[p] \in Nat
    BY AttemptIsNat DEF TypeInv, TypeOK
  <2>2. QED BY <1>0, <1>1, <2>1 DEF GoesOn
<1>3. \A q \in Party : GoesOn(q)
  BY <1>1, <1>2, StillGoesOn
<1>4. \A q \in Party : Peer(q) \in Party
  BY DEF Peer, Party
<1>5. \A q \in Party : \A i \in 1..Last : Kept(q, i) => Kept(q, i)'
  BY <1>1, <1>3, <1>4, KeptStays
<1>6. \A q \in Party : q # p => Waits(q)'
  BY <1>1, <1>5, Steady
<1>7. Delivered(p) /\ Counts(p) /\ Unreceived(p)
  BY <1>0 DEF WaitInv, Waits
<1>8. Step(p)' = Step(p)
  BY <1>1 DEF Step
<1>9. /\ Called(p, "send") = 0 /\ Called(p, "recv") = 0
      /\ Called(p, "send")' = 0 /\ Called(p, "recv")' = 1
  BY <1>0, <1>1, <1>8 DEF Called
<1>10. Sends(p, pc[p]) \in Nat
  BY <1>0, SendsStep
<1>11. Delivered(p)'
  <2> SUFFICES ASSUME NEW i \in 1..Last, Script(p)[i].op = "send", Made(p, i)'
               PROVE  Kept(p, i)'
    BY DEF Delivered
  <2>1. i # pc[p]
    BY <1>0 DEF Step
  <2>2. Made(p, i)
    BY <1>1, <2>1 DEF Made
  <2>3. QED BY <1>5, <1>7, <2>2 DEF Delivered
<1>12. Counts(p)'
  BY <1>0, <1>1, <1>7, <1>9, <1>10 DEF Counts
<1>13. Unreceived(p)'
  BY <1>1, <1>7 DEF Unreceived
<1>14. Waits(p)'
  BY <1>0, <1>1, <1>11, <1>12, <1>13 DEF Waits
<1>15. QED BY <1>6, <1>14 DEF WaitInv

\* The service of a query hands out a message.
LEMMA WaitOutbox ==
    ASSUME OwnSids, TypeInv, TypeInv', WaitInv, NEW p \in Party, Outbox(p)
    PROVE  WaitInv'
<1>1. /\ rpc[p] = "sent" /\ rpc'[p] = "answered"
      /\ \A q \in Party : q # p => rpc'[q] = rpc[q]
      /\ UNCHANGED <<attempt, status, pc, nsend, nrecv, got, wire, lost, box>>
  BY DEF Outbox, M!Fetch, TypeInv, TypeOK
<1>2. \A q \in Party : Peer(q) \in Party
  BY DEF Peer, Party
<1>3. \A q \in Party : GoesOn(q)
  BY <1>1, StillGoesOn
<1>4. \A q \in Party : \A i \in 1..Last : Kept(q, i) => Kept(q, i)'
  BY <1>1, <1>2, <1>3, KeptStays
<1>5. \A q \in Party : rpc'[q] = "idle" <=> rpc[q] = "idle"
  BY <1>1
<1>6. QED BY <1>1, <1>4, <1>5, Steady DEF WaitInv

\* The return of DirectRecv: the message has been read.
LEMMA WaitRecvReturn ==
    ASSUME OwnSids, TypeInv, TypeInv', WaitInv, NEW p \in Party, RecvReturn(p)
    PROVE  WaitInv'
<1> DEFINE t == Step(p).topic
<1>0. /\ AtRecv(p) /\ rpc[p] = "answered" /\ pc[p] \in 1..Last /\ Step(p).op = "recv"
      /\ status[p] = "running" /\ pc[p] \in Nat /\ nrecv[p] \in Nat
  BY DEF RecvReturn, TypeInv, TypeOK, AtRecv, Last
<1>1. /\ rpc'[p] = "idle" /\ \A q \in Party : q # p => rpc'[q] = rpc[q] /\ got'[q] = got[q]
      /\ DOMAIN got'[p] = DOMAIN got[p] \cup {t}
      /\ UNCHANGED <<attempt, nsend, nrecv, wire, lost, box>>
  BY DEF RecvReturn, M!With, TypeInv, TypeOK
<1>2. /\ \A q \in Party : q # p => pc'[q] = pc[q] /\ status'[q] = status[q]
      /\ status'[p] # "running" \/ (pc'[p] = pc[p] + 1 /\ status'[p] = "running")
  <2>1. Abort(p) \/ Return(p, seen[p]) \/ Continue(p)
    BY DEF RecvReturn
  <2>2. CASE Abort(p)
    BY <2>2 DEF Abort, TypeInv, TypeOK
  <2>3. CASE Return(p, seen[p])
    BY <2>3 DEF Return, TypeInv, TypeOK
  <2>4. CASE Continue(p)
    BY <1>0, <2>4 DEF Continue, TypeInv, TypeOK
  <2>5. QED BY <2>1, <2>2, <2>3, <2>4
<1>3. GoesOn(p)
  <2>1. attempt[p] \in Nat
    BY AttemptIsNat DEF TypeInv, TypeOK
  <2>2. QED BY <1>0, <1>1, <2>1 DEF GoesOn
<1> HIDE DEF t
<1>4. \A q \in Party : GoesOn(q)
  BY <1>1, <1>2, <1>3, StillGoesOn
<1>5. \A q \in Party : Peer(q) \in Party
  BY DEF Peer, Party
<1>6. \A q \in Party : \A i \in 1..Last : Kept(q, i) => Kept(q, i)'
  BY <1>1, <1>4, <1>5, KeptStays
<1>7. \A q \in Party : q # p => Waits(q)'
  BY <1>1, <1>2, <1>6, Steady
<1>8. CASE status'[p] # "running"
  BY <1>1, <1>7, <1>8 DEF WaitInv, Waits
<1>9. CASE status'[p] = "running" /\ pc'[p] = pc[p] + 1
  <2>1. pc'[p] \in 1..Last /\ pc[p] # Last
    BY <1>0, <1>9 DEF TypeInv, TypeOK, Last
  <2>2. Delivered(p) /\ Counts(p) /\ Unreceived(p)
    BY <1>0 DEF WaitInv, Waits
  <2>3. Delivered(p)'
    <3>1. \A i \in 1..Last : Script(p)[i].op = "send" /\ Made(p, i)' => Made(p, i)
      BY <1>0, <1>1, <1>9 DEF Made, Last, Step
    <3>2. QED BY <1>6, <2>2, <3>1 DEF Delivered
  <2>4. Sends(p, pc'[p]) = Sends(p, pc[p]) /\ Sends(p, pc[p]) \in Nat
    BY <1>0, <1>9, <2>1, SendsStep DEF Step
  <2>5. /\ Called(p, "send") = 0 /\ Called(p, "recv") = 1
        /\ Called(p, "send")' = 0 /\ Called(p, "recv")' = 0
    BY <1>0, <1>1 DEF Called
  <2>6. Counts(p)'
    BY <1>0, <1>1, <1>9, <2>2, <2>4, <2>5 DEF Counts
  <2>7. Unreceived(p)'
    <3> SUFFICES ASSUME NEW i \in 1..Last, i >= pc'[p], Script(p)[i].op = "recv"
                 PROVE  Script(p)[i].topic \notin DOMAIN got'[p]
      BY DEF Unreceived
    <3>1. i > pc[p] /\ i # pc[p]
      BY <1>0, <1>9
    <3>2. Script(p)[i].topic # t
      BY <1>0, <3>1, RecvTopicsDiffer DEF Step, t
    <3>3. Script(p)[i].topic \notin DOMAIN got[p]
      BY <1>0, <2>2, <3>1 DEF Unreceived, Last
    <3>4. QED BY <1>1, <3>2, <3>3
  <2>8. Waits(p)'
    BY <1>9, <2>3, <2>6, <2>7 DEF Waits
  <2>9. QED BY <1>7, <2>8 DEF WaitInv
<1>10. QED BY <1>2, <1>8, <1>9

\* A party that fails waits for nothing, and its peer for a party that failed.
LEMMA WaitFail ==
    ASSUME OwnSids, TypeInv, TypeInv', WaitInv, NEW p \in Party, Fail(p)
    PROVE  WaitInv'
<1>1. /\ status'[p] = "failed" /\ rpc'[p] = "idle" /\ pc' = pc
      /\ \A q \in Party : q # p => rpc'[q] = rpc[q] /\ status'[q] = status[q]
      /\ UNCHANGED <<attempt, nsend, nrecv, got, lost, box>>
  BY DEF Fail, Abort, TypeInv, TypeOK
<1>2. \A m \in wire : m \in wire' \/ m.key.src = p
  BY DroppedIsOwn DEF Fail
<1>3. \A q \in Party : Peer(q) \in Party
  BY DEF Peer, Party
<1>4. GoesOn(p)
  <2>1. attempt[p] \in Nat
    BY AttemptIsNat DEF TypeInv, TypeOK
  <2>2. QED BY <1>1, <2>1 DEF GoesOn
<1>5. \A q \in Party : GoesOn(q)
  BY <1>1, <1>4, StillGoesOn
<1>6. \A q \in Party : q # p => \A i \in 1..Last : Kept(q, i) => Kept(q, i)'
  BY <1>1, <1>2, <1>3, <1>5, KeptStays
<1>7. \A q \in Party : q # p => Waits(q)'
  BY <1>1, <1>6, Steady
<1>8. Waits(p)'
  BY <1>1 DEF Waits
<1>9. QED BY <1>7, <1>8 DEF WaitInv

\* A restarted party has sent nothing in its new session, and left the old one.
LEMMA WaitRestart ==
    ASSUME OwnSids, TypeInv, TypeInv', WaitInv, NEW p \in Party, Restart(p)
    PROVE  WaitInv'
<1>1. /\ status'[p] = "running" /\ pc'[p] = 1 /\ nsend'[p] = 0 /\ nrecv'[p] = 0
      /\ DOMAIN got'[p] = {} /\ attempt'[p] = attempt[p] + 1 /\ status[p] # "running"
      /\ \A q \in Party : q # p =>
           /\ attempt'[q] = attempt[q] /\ status'[q] = status[q] /\ pc'[q] = pc[q]
           /\ nsend'[q] = nsend[q] /\ nrecv'[q] = nrecv[q] /\ got'[q] = got[q]
      /\ UNCHANGED <<rpc, wire, lost, box>>
  BY DEF Restart, NothingYet, TypeInv, TypeOK
<1>2. rpc[p] = "idle" /\ attempt[p] \in Nat
  BY <1>1, AttemptIsNat DEF WaitInv, Waits, TypeInv, TypeOK
<1>3. \A q \in Party : Peer(q) \in Party
  BY DEF Peer, Party
<1>4. GoesOn(p)
  BY <1>1, <1>2 DEF GoesOn
<1>5. \A q \in Party : GoesOn(q)
  BY <1>1, <1>4, StillGoesOn
<1>6. \A q \in Party : q # p => \A i \in 1..Last : Kept(q, i) => Kept(q, i)'
  BY <1>1, <1>3, <1>5, KeptStays
<1>7. \A q \in Party : q # p => Waits(q)'
  BY <1>1, <1>6, Steady
<1>8. Sends(p, 1) = 0 /\ 1 \in 1..Last
  BY SendsStep DEF Last
<1>9. Delivered(p)' /\ Counts(p)' /\ Unreceived(p)'
  <2>1. Delivered(p)'
    BY <1>1, <1>2 DEF Delivered, Made, Last
  <2>2. Called(p, "send")' = 0 /\ Called(p, "recv")' = 0
    BY <1>1, <1>2 DEF Called
  <2>3. Counts(p)'
    BY <1>1, <1>8, <2>2 DEF Counts
  <2>4. Unreceived(p)'
    BY <1>1 DEF Unreceived
  <2>5. QED BY <2>1, <2>3, <2>4
<1>10. Waits(p)'
  BY <1>1, <1>9 DEF Waits
<1>11. QED BY <1>7, <1>10 DEF WaitInv

\* A message that expires has been read, or counts as lost.
LEMMA WaitExpire ==
    ASSUME OwnSids, TypeInv, TypeInv', WaitInv, NEW k \in DOMAIN box, Expire(k)
    PROVE  WaitInv'
<1>1. /\ UNCHANGED <<attempt, status, pc, rpc, nsend, nrecv, got, wire>>
      /\ DOMAIN box' = DOMAIN box \ {k} /\ lost' = (lost \/ Unread(k))
  BY DEF Expire, M!Lose, M!Stored, party
<1>2. \A q \in Party : Peer(q) \in Party /\ attempt[q] \in Nat /\ Session(q) = attempt[q]
  BY SidIsAttempt DEF Peer, Party
<1>3. \A q \in Party : GoesOn(q)
  BY <1>1, StillGoesOn
<1>4. ASSUME NEW q \in Party, NEW i \in 1..Last, SentKey(q, i) = k
      PROVE  Kept(q, i)'
  <2>1. /\ k.src = q /\ k.sid = attempt[q] /\ k.topic = Script(q)[i].topic
    BY <1>4 DEF SentKey
  <2>2. CASE Unread(k)
    BY <1>1, <2>2 DEF Kept
  <2>3. CASE ~Unread(k)
    <3>1. Past(q, Script(q)[i].topic)
      BY <1>2, <2>1, <2>3 DEF Unread, Past
    <3>2. Past(q, Script(q)[i].topic)'
      BY <1>1, <1>2, <1>3, <3>1, PastStays
    <3>3. QED BY <3>2 DEF Kept
  <2>4. QED BY <2>2, <2>3
<1>5. \A q \in Party : \A i \in 1..Last : Kept(q, i) => Kept(q, i)'
  BY <1>1, <1>2, <1>3, <1>4, KeptStays
<1>6. QED BY <1>1, <1>5, Steady DEF WaitInv

\* Every step keeps track of the messages.
LEMMA WaitNext ==
    ASSUME OwnSids
    PROVE  TypeInv /\ TypeInv' /\ WaitInv /\ [Next]_vars => WaitInv'
<1> SUFFICES ASSUME TypeInv, TypeInv', WaitInv, [Next]_vars PROVE WaitInv'
  OBVIOUS
<1>1. CASE \E p \in Party : SendCall(p)
  BY <1>1, WaitSendCall
<1>2. CASE \E p \in Party : SendReturn(p)
  BY <1>2, WaitSendReturn
<1>3. CASE \E p \in Party : RecvCall(p)
  BY <1>3, WaitRecvCall
<1>4. CASE \E p \in Party : RecvReturn(p)
  BY <1>4, WaitRecvReturn
<1>5. CASE \E p \in Party : Outbox(p)
  BY <1>5, WaitOutbox
<1>6. CASE \E p \in Party : SwallowError(p)
  BY <1>6, WaitSwallowError
<1>7. CASE \E p \in Party : Fail(p)
  BY <1>7, WaitFail
<1>8. CASE \E p \in Party : Restart(p)
  BY <1>8, WaitRestart
<1>9. CASE \E m \in wire : Inbox(m)
  BY <1>9, WaitInbox
<1>10. CASE \E k \in DOMAIN box : Expire(k)
  BY <1>10, WaitExpire
<1>11. CASE UNCHANGED vars
  <2>1. UNCHANGED <<attempt, status, pc, rpc, nsend, nrecv, got, wire, lost, box>>
    BY <1>11 DEF vars, party
  <2>2. \A q \in Party : Peer(q) \in Party
    BY DEF Peer, Party
  <2>3. \A q \in Party : GoesOn(q)
    BY <2>1, StillGoesOn
  <2>4. \A q \in Party : \A i \in 1..Last : Kept(q, i) => Kept(q, i)'
    BY <2>1, <2>2, <2>3, KeptStays
  <2>5. QED BY <2>1, <2>4, Steady DEF WaitInv
<1>12. QED
  BY <1>1, <1>2, <1>3, <1>4, <1>5, <1>6, <1>7, <1>8, <1>9, <1>10, <1>11
     DEF Next, Move

\* A message that its peer has sent, and that a waiting party finds neither
\* stored nor under way, is gone.
LEMMA WaitForSent ==
    ASSUME OwnSids, TypeInv, WaitInv, NEW p \in Party, Waiting(p),
           \A m \in wire : m.key # Wanted(p),
           AtRecv(Peer(p)), attempt[Peer(p)] = attempt[p],
           NEW a \in 1..Last, a < pc[Peer(p)], Answers(Peer(p), a, pc[p])
    PROVE  lost
<1> DEFINE q == Peer(p)
           t == Step(p).topic
<1>1. q \in Party /\ Peer(q) = p
  BY DEF Peer, Party
<1>2. /\ AtRecv(p) /\ rpc[p] = "sent" /\ Wanted(p) \notin DOMAIN box
      /\ status[p] = "running" /\ Step(p).op = "recv" /\ pc[p] \in 1..Last
      /\ status[q] = "running"
  BY <1>1 DEF Waiting, AtRecv, TypeInv, TypeOK
<1>3. Counts(p) /\ Unreceived(p) /\ Delivered(q)
  BY <1>1, <1>2 DEF WaitInv, Waits
<1>4. /\ Script(q)[a].op = "send" /\ Script(q)[a].topic = t
      /\ Sends(q, a) + 1 = pc[p] - Sends(p, pc[p])
  BY <1>1 DEF Answers, Step
<1>5. Kept(q, a)
  BY <1>3, <1>4 DEF Delivered, Made
<1>6. nrecv[p] = pc[p] - Sends(p, pc[p])
  <2>1. Called(p, "recv") = 1
    BY <1>2 DEF Called
  <2>2. Sends(p, pc[p]) \in Nat /\ pc[p] \in Nat
    BY <1>2, SendsStep DEF Last
  <2>3. QED BY <1>3, <2>1, <2>2 DEF Counts
<1>7. SentKey(q, a) = Wanted(p)
  <2>1. Session(p) = attempt[p]
    BY SidIsAttempt
  <2>2. QED BY <1>4, <1>6, <2>1 DEF SentKey, Wanted, KeyOf
<1>8. ~Past(q, t)
  <2>1. t \notin DOMAIN got[p]
    BY <1>2, <1>3 DEF Unreceived, Step, Last
  <2>2. attempt[p] \in Nat
    BY AttemptIsNat DEF TypeInv, TypeOK
  <2>3. QED BY <1>1, <1>2, <2>1, <2>2 DEF Past
<1>9. QED BY <1>2, <1>4, <1>5, <1>7, <1>8 DEF Kept

\* The parties of a session wait for each other only when a message is gone: in
\* the two scripts no two receives wait for each other's later sends.
LEMMA BothWait ==
    ASSUME OwnSids, TypeInv, WaitInv
    PROVE  NeverBothWaiting
<1> SUFFICES ASSUME attempt["garbler"] = attempt["evaluator"],
                    \A p \in Party : Waiting(p) /\ \A m \in wire : m.key # Wanted(p)
             PROVE  lost
  BY DEF NeverBothWaiting
<1>1. /\ "garbler" \in Party /\ "evaluator" \in Party
      /\ Peer("garbler") = "evaluator" /\ Peer("evaluator") = "garbler"
  BY DEF Party, Peer
<1>2. /\ AtRecv("garbler") /\ AtRecv("evaluator")
      /\ pc["garbler"] \in 1..Last /\ pc["evaluator"] \in 1..Last
      /\ Script("garbler")[pc["garbler"]].op = "recv"
      /\ Script("evaluator")[pc["evaluator"]].op = "recv"
  BY <1>1 DEF Waiting, AtRecv, Step, TypeInv, TypeOK
<1>3. \/ \E a \in 1..Last : a < pc["evaluator"] /\ Answers("evaluator", a, pc["garbler"])
      \/ \E a \in 1..Last : a < pc["garbler"] /\ Answers("garbler", a, pc["evaluator"])
  BY <1>2, NoCircle
<1>4. QED BY <1>1, <1>2, <1>3, WaitForSent

\* For any inputs, faults, expiry and number of attempts with ids of their own:
\* when both parties of a session wait, a message they need is gone.
THEOREM NobodyWaitsForEachOther ==
    ASSUME OwnSids
    PROVE  Spec => []NeverBothWaiting
<1>1. Init => TypeInv /\ WaitInv
  BY TypeInit, WaitInit
<1>2. TypeInv /\ WaitInv /\ [Next]_vars => (TypeInv /\ WaitInv)'
  BY TypeNext, WaitNext
<1>3. TypeInv /\ WaitInv => NeverBothWaiting
  BY BothWait
<1>4. QED BY <1>1, <1>2, <1>3, PTL DEF Spec
=============================================================================
