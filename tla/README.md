# A model of mpc-hd

mpc-hd lets two parties compute a function of their two private inputs: a
program in the circuit language MPCL is compiled to a boolean circuit, one
party (the *garbler*) garbles it, the other (the *evaluator*) evaluates it, and
an HTTP server (the *messenger*) carries their messages. This directory holds
TLA+ modules of that system, the TLC configurations that check them and proofs
for TLAPS. `PROJECT.json` maps every definition to the lines it models.

## 1. The system

| Component | Source | State | Operations | Module |
|---|---|---|---|---|
| Messenger store | `ot/server_impl.go` | a cache with expiry | `/inbox`, `/outbox` (long poll) | `Mailbox`, `Messenger` |
| Session registry | `ot/server_impl.go`, `ot/client_impl.go` | session configurations in the same cache, a "logged" marker | `/new_session`, `/get_session_config`, `/ping`, `Connect` | `SessionRegistry` |
| Client and connection | `ot/client_impl.go`, `ot/connection.go` | session id, two counters | `DirectSend`, `DirectRecv` | `Session` |
| Two-party session | `apps/garbled/c_export.go`, `circuit/garbler.go`, `circuit/evaluator.go`, `ot/co.go` | position in the protocol, what was received, the compiled circuit | eleven messages per party, failures, restarts | `Session`, `JointFunction` |
| Garbling | `circuit/garble.go`, `eval.go`, `computer.go`, `ot/label.go` | labels per wire, rows per gate, tweak counters | `Garble`, `Eval`, `Compute` | `Garbling` |
| Oblivious transfer | `ot/co_helpers.go`, `ot/co.go` | scalars, points, ciphertexts | the four helpers `CO.Send` and `CO.Receive` call | `ObliviousTransfer` |
| Netlist compiler | `compiler/circuits/compiler.go`, `gates.go`, `wire.go`, `allocator.go`, `compiler/ssa/circuitgen.go` | gates and wires that point at each other | constant propagation, short circuits, pruning, numbering | `Netlist` |
| Circuit builders | `compiler/circuits/circ_*.go` | none | adders, multipliers, dividers, comparators, mux, index, Hamming distance | `Cells`, `Numbers`, `Ripple`, `LongDivision`, `Arithmetic` |
| Instructions to circuits | `compiler/ssa/circuitgen.go` | wires of values | which builder and which wires each instruction takes | `CircuitGen` |
| Expressions | `compiler/ast/ssagen.go`, `eval.go`, `ssa/generator.go`, `mpa/mpint.go`, `types/types.go` | constants with a width | binary and unary operators, casts, assignment, folding of constants | `Expressions` |
| Arrays | `compiler/ast/ssagen.go`, `lrvalue.go` | the wires of a variable | element assignment, slices, `+`, `copy`, index | `Arrays` |
| Arguments and results | `circuit/ioarg.go`, `apps/garbled/result.go`, `types.go` | none | `InputSizes`, `InstantiateWithSizes`, `Parse`, `Split`, `Result` | `Arguments` |
| Statements, blocks, bindings | `compiler/ast/ssagen.go`, `ssa/bindings.go`, `block.go`, `generator.go` | blocks, arrays of bindings that copies share, selects | assignment, `if`, `return`, calls; `Merge`, `ReturnBinding`, `Serialize` | `Programs` |
| Liveness, GC, peephole, wire pool | `ssa/program.go`, `peephole.go`, `wire_allocator.go` | live sets, pool | have no effect at present | not modelled |
| Circuit files | `circuit/parser.go`, `marshal.go` | none | readers and writers | not modelled |
| Scanner, grammar, packages | `compiler/lexer.go`, `parser.go`, `ast/package.go` | syntax trees | parsing | not modelled |

How they interact. `garbler_fn` and `evaluator_fn` (called from C or Rust, or
from `main`) open a `Conn`, which is a messenger client with a session id and
two counters. Every message is a value that the sender posts to `/inbox` and the
receiver asks for at `/outbox`, under a key made of session id, topic, source,
destination and counter; nothing else is shared by the two processes. After the
sizes of the arguments are exchanged, each party compiles the program *itself*,
and they rely on getting the same circuit. The labels of the evaluator's inputs
go through the oblivious transfer, the labels of the outputs come back to the
garbler, which decodes them and sends the result.

What is hard:

* the handlers of the messenger run concurrently over a cache, read it once a
  second, and race with the expiry of entries;
* a lookup of a session is a read and a write, with other handlers in between;
* a message is stored although its sender saw an error, or after its sender was
  stopped and started again; a client waits without a time-out;
* counters start from zero in every attempt, and the session id may be fixed;
* two programs with mirrored sends and receives must not wait for each other;
* the parties compile separately, from sizes they tell each other;
* garbler and evaluator count tweaks separately; rows are found by select bits;
* points without coordinates, and pads that must open one ciphertext only;
* the passes of the netlist compiler rewrite gates in place. The pointers from a
  wire to its driving gate and the list of its readers are left as they were,
  only the number of readers is kept up, and later passes trust all three;
* the language has no jumps: both branches of an `if` are compiled over bindings
  that share one array until a write, and phi instructions, made where they are
  first needed, choose afterwards; so they do for returns in nested branches;
* numbers have a kind and a width that constants guess, operations take from
  their left operand, and padding does not know: an arithmetic result may be
  right on some wires only.

What makes it correct: a party that returns a result returns the value of the
function on the inputs of its session (`Session!Correct`, `ImplementsIdeal`);
the messenger is a table of messages (`ImplementsMailbox`) that loses none in
front of a reader (`NeverExpiresUnseen`); waiting has a cause (`WaitHasCause`,
`NeverBothWaiting`, `BothReturn`); evaluating a garbled circuit is computing it
(`GarbledIsComputed`); the transfer gives the chosen labels and no other; the
compiled circuit computes what the builders asked for (`CompiledComputes`), in an
order the garbler can follow (`WellOrdered`); the builders ask for the right
numbers (`PartialSum`, `Compares`, `Divides`, `CircuitIsRight`), arrays are lists
(`ArrayIsList`), arguments come out as they went in (`ArgumentSurvives`), and a
compiled program computes what its statements say (`ProgramComputes`).

## 2. The modules

    JointFunction  <== refined by ==  Session   uses   Mailbox  <== refined by ==  Messenger
                                         |
                      justified by   Garbling, ObliviousTransfer          SessionRegistry
                                         |
                      its circuits made by  Netlist
                                         |
       Programs      Expressions, Arrays  -- CircuitGen -- Arithmetic -- Cells -- Numbers -- Ripple, LongDivision
       (statements)  (operations)                                                          Arguments

**Mailbox** is the abstract messenger: a function `box` from keys to values and
the value each reader was handed last. **Messenger** is the server: `entry` is
the go-cache (value and remaining ticks), `handler[c]` the local variables of
the goroutine that serves client `c` (`vec`, position `i`, the timer `wait`,
the answers so far), `val` its variable of that name. One cache access is one
step. The mapping to Mailbox takes the live entries as `box`.

**SessionRegistry** has the two halves of `handleGetSessionConfig` as steps
(`GetUnlogged`, `MarkAndAnswer`) with the copy in `lookup`, and `Connect` as one
step per ping, with `AfterPing` for what the loop does with its outcome.

**Session** writes the two programs as scripts of sends and receives, in the
order of the calls in `c_export.go`, `garbler.go`, `evaluator.go` and `co.go`;
what happens between two calls is part of the step that returns from the first.
A call is three steps (request, service, response). Topics are identifiers for
the topic strings of the code (`"ot query"` is `ot_query`, `"setup.Ax,Ay"` is
`setup`). A label is known by the garbling it belongs to and the value it
carries, a point or scalar by the attempt that drew it; combining pieces of
different attempts gives `Garbage`. That is a cryptographic idealisation: that
pieces of one attempt combine to the right labels is what `Garbling` and
`ObliviousTransfer` establish, that others do not is assumed. `SizeOf`,
`Declared` and `Unsized` describe what the argument sizes decide in
`Package.Compile`. The session's messenger is an instance of Mailbox.

**JointFunction** is the ideal functionality: a party is told `F` of the two
inputs of its session, once, or gets an error, and may be called again.

**Garbling** runs the three loops over the gates one after the other: `Compute`
on bits, `Garble` on pairs of labels, `Eval` on labels. A label is the set of
its one bits, so that `Xor` is the symmetric difference; AES under a key is an
arbitrary function. The tweak counter wraps modulo `IdMod` (2^32). The
assumption on `Gates` is what `ParseBristol` demands and what the numbering of
the netlist compiler produces: a gate reads only wires that have a value, and
writes one that has none.

**ObliviousTransfer** runs the helpers in order over any commutative group of
prime order; the identity is the point without affine coordinates that
`ensureOnCurve` refuses. A pad is the pair of the point and the index that
`deriveMask` hashes; that different pairs give unrelated pads is an
idealisation of SHA-256.

**Netlist** follows `CompileCircuit`: builders add gates (`Build`), `Ret` adds
the gates that drive the outputs, then run `ConstPropagate` (`FoldConst`,
`Redirect`, `Disconnect`, `Rewire`), `ShortCircuitXORZero` (`SkipByA`, `SkipByB`),
`Prune` and `Compile` (`Assign...`, `Visit`, `Emit...`). Wires and gates are
records, pointers are their numbers; `wire[w]` has the number of readers (`num`)
and the list of them (`readers`) as two fields, as in `wire.go`, and `input` for
the driving gate, which no pass updates. The builders are not chosen: any
operation on any two wires that exist may come next. So every netlist is one of
the behaviours that is built gate after gate, each after the gates that drive its
inputs, as the builders do within one instruction. Instructions are compiled in
the order of the steps, and in one case a step comes before one that drives its
input (the phis of section 6); such a netlist is not among them. What the code does in a loop over
readers is one step per reader; everything else is one step per gate. `meaning` is a history variable: for each wire the set of inputs on
which it is one, set when the wire is made and never changed. The two constant
wires are there from the start, as `DefineConstants` makes them before anything
is compiled. A panic of the code sets `panicked`, and ends the behaviour.

**Cells** has the gates of one bit position and **Numbers** the numbers that `W`
wires stand for. **Ripple** runs the loops of `NewAdder`, `NewSubtractor`,
`uintComparator` and `intComparator`, one wire per step, and **LongDivision**
those of `NewUDividerLong`, one wire per step of its three inner phases. These
two are written to be proved about. **Arithmetic** has all builders of
`circ_*.go` as functions from wires to wires, with `Undriven` (`U`) for an output that no
gate drives: array and Karatsuba multipliers (the table of thresholds is the
constant `Treshold`), the three dividers, comparators, bit tests, mux, index and
Hamming distance. **CircuitGen** is the switch of `Program.Circuit`.

**Expressions** makes an operand (a variable of some kind and width, or a
constant, which is a number with the width and sign that `mpa.Int` carries),
folds constants as `Binary.evalConst` does, and applies an operation as
`Binary.SSA`, `Unary.SSA`, `Call.cast` or `LRValue.Set` would: `last` has the
operation, its operands and the result. The constant `C` stands for the 32 bits
of a small constant, `2 * C` for 64. Where the code computes something else than
the language would lead one to expect, `Handled`, `Proper` and the premises of
`FoldIsRight` name the operands (section 6). **Arrays** changes one array or
slice variable, with a list beside it: what each statement should make of the
elements the variable has. **Arguments** takes two parties' strings
through `InputSizes`, the instantiation of the types of `main`, `Parse`, `Split`
and `Result`.

**Programs** grows a program statement by statement and compiles each as
`ast.List.SSA` does. `gen` has the blocks with instructions and edges, the
arrays that bindings point at with their `shared` flags, the selects with their
resolved phi and the number of values; `frames` is the stack of `Codegen`, with
the open ifs of each function, whose rest the Go code keeps on its stack. The
program is run at the same time, in the sets of worlds (values of the arguments)
that reach each statement: `store` and `result` of a frame and `path` are that
run, and no action of the compiler looks at them. The walks of `ReturnBinding`
and `Serialize` are machines with a stack, one step per visit and per answer.
Blocks in the language scope
names, the compiler's bindings do not; names that end with their block are left
out of the comparison. A program here does not use such a name again before it
is defined anew.

`ServerProofs` (of `Messenger` and `SessionRegistry`), `SessionProofs`,
`GarblingProofs`, `ObliviousTransferProofs`, `NetlistProofs`, `BuilderProofs`,
`GeneratorProofs` and `ProgramsProofs` (both of `Programs`) extend these with
theorems. The `MC*` modules give the constants values.

Every module has, next to some definitions, variants that a mistake in the code
could have produced (marked "Mutant"). No specification uses them. Each shows,
put in the place of the definition, that a property of a run would notice.

## 3. The runs

| Run | Shows | Bounds |
|---|---|---|
| `server` | `ImplementsMailbox`, `NeverExpiresUnseen`, `ReplyIsComplete`, `PollIsAnswered`; `ConnectedServerResponded`, `MarkerIsKept`, `LoggedPerClient` | messages: 2 clients, 2 keys, 2 values; posts of every single message and two vectors of two, one refused in its middle; queries up to 2; life of 2 ticks, poll every tick. Sessions: 2 clients, 1 id, 2 configurations, 5 pings, 2 registrations. The two share no state, a behaviour is one of either |
| `session_live` | `NeverBothWaiting`, `WaitHasCause`, `BothReturn` | 1 input per party, whose result is not refused, 1 attempt, both may fail, messages expire |
| `session_retry` | `Correct`, `ImplementsIdeal`, `NoOverwrite` | 2 inputs per party, 2 attempts each with own ids, both may fail |
| `session_reuse` | `GarblerDecodesOwnLabels` | 2 attempts each under one id, a faulty garbler |
| `garbling` | `GarbledIsComputed`, `NeverFails`, `ActiveLabels` | 6 gates of all five types, one used twice, one with equal inputs; labels of 3 bits, 2 keys, tweaks modulo 5 |
| `oblivious_transfer` | `ChosenLabels`, `OpensOnlyChosen`, `ChoiceHidden` | a group of order 5, up to 2 wires and 2 flags |
| `netlist` | `NeverPanics`, `CountsAgree`, `MeaningKept`, `NothingUseless`, `WellOrdered`, `CompiledComputes` | 1 input, the two constants, all four operations, every netlist of up to 3 gates, those of `Ret` among them; with and without pruning |
| `arithmetic` | `PartialSum`, `Compares`, `Divides`, `CircuitIsRight`, `FoldIsRight`, `ArrayIsList`, `ArgumentSurvives` | loops on 3 wires, results on up to 5; variables of 2 to 4 bits, constants of 3 and 6 bits and some beyond, all their values, one folding before an operation; arrays of up to 3 elements of 2 bits; two fields, among them nested structs |
| `programs` | `BindingsAgree`, `ProgramComputes` | two arguments and a variable; every program of up to 6 statements (closing an `if` is not counted), 2 nested ifs, 2 calls |

Why these bounds suffice for what they are about. The messenger's hazards need
one message stored, replaced or expired between two looks of one handler: two
clients and a vector of two are enough for a reply to be put together while the
other client replaces what was read; a life of two ticks is the shortest that is
longer than the poll. Five pings are the code's own number. Sessions have two parties; two attempts give each party
messages of one earlier attempt, still stored or still under way, to take for
its own. Two inputs of different sizes and results that are all different tell
apart every mix of inputs. Where only progress is asked for, one input is
enough: with declared sizes the one branch that depends on it is the last of
each party, which returns a value or, when its flag is zero, an error.
`session_live` takes a value that is not refused, so that both parties can end
with a result and the garbler's return is no excuse for the evaluator; the
refusal is in `session_retry`. A circuit with all gate types, where one output feeds
several gates and the counter wraps between the two halves of an AND gate (the
sixth gate begins at tweak 4 of 5), meets each case of both
loops with every pattern of select bits. In a group of order 5 the zero scalar
and cancelling points occur. Three gates on top of those of the constants are
the least for one gate to be redirected or skipped between a driver and a
reader, for two outputs, for a gate that reads one wire twice, and for a driver
with a second reader, where skipping would be wrong; each mutant of the module
is found within them. Three wires are a lowest, a middle and a highest bit, which
are the three cases of every builder's loop; widths 2, 3 and 4 around constants
of 3 and 6 make operands narrower, equal and wider. Six statements are enough for
a variable that two branches change, a condition that is such a variable, a
return in one or both branches of a nested if, and a call in a branch of a
function that has branches itself. TLC explores all of these states; the proofs below
remove the bounds for the properties they cover.

Three runs are expected to fail. Each shows a disagreement of the code with what
a comment says of it:

* `registry_connects_unreached`: `Connect` succeeds after five answers that are
  not 200, because the error it keeps is the transport's (`client_impl.go:58`).
* `session_same_program`: `garbler_fn` puts the evaluator's sizes where its own
  belong (`c_export.go:240`), so that with an argument of unspecified size the
  parties instantiate different programs. No wrong result comes of it: theorem
  `SessionCorrect` is for any choice of `Unsized`; the parties stop with an
  error. The bundled programs declare all sizes.
* `arrays_copy_shrinks`: a `copy` into the beginning of a slice variable, from a
  source that fills the limits, sets the whole variable to what was copied
  (`ssagen.go:2312-2331`): the elements behind the limits are gone, where
  `ssagen.go:2256` says that a slice "specifies the copy limits for the
  destination". The same `copy` into an array does not compile. `ArrayIsList`
  marks these copies (`short`), and asks that what they leave is right; of every
  other statement it asks all elements and their number.

Two more disagreements are in the model and have no run of their own: the second
lookup of a session returns the marked copy to the client (`server_impl.go:126`),
against the comment at line 118, and two lookups that overlap both log the
"one-time" use, which is why `LoggedPerClient` claims one per client.

`CHECK_DEADLOCK FALSE` is set where the system really stops: sessions that are
over, a circuit that is compiled, the end of the three loops, the end of a transfer, a
result that has all its wires and a program that is complete. The `server` run
checks for deadlock: a part that stops, other than because no client got
connected (`NobodyConnected`), would be one.

## 4. Fairness

Weak fairness of a handler's steps in `Messenger`: `net/http` runs each request
in a goroutine of its own, and the Go scheduler runs every runnable goroutine.
Time goes on (`SF_vars(Tick)`): that a tick waits for handlers that are awake
says that they look at the cache within a poll period, which makes `Tick`
disabled now and then but never for good. A client that hangs up is not fair.

In `Session` a running party goes on with its program, and the messenger serves
the requests of running parties. Failures, restarts, expiry and the requests of
processes that are gone are not fair: they may never happen.

## 5. The proofs

*ServerProofs, Messenger.* All safety properties of `Messenger`, for any number of
clients, keys and values, any length of vectors and any `TTL > PollInterval`.
The invariant (`MInv`) says of a handler what it has collected (`Consistent`: one
answer for each key it has passed, the last of them still in `val`) and of the
cache that what is live is a value (`LiveIsValue`). `NeverExpiresUnseen` needs
`Outlives`: while a handler sleeps, the entry under its key, if there is one, has
more ticks left than the handler sleeps. A fresh entry has all `TTL` ticks, a
handler begins to sleep only when it found none, and a tick takes one from both.
`ServerImplementsMailbox` is one lemma per kind of step: an access that finds
nothing is a stutter, and a tick loses the set of keys whose last tick it was.

*SessionProofs.* `TypeCorrect`, `SessionCorrect` and `SessionImplementsIdeal`
hold for any inputs, sizes, functions, number of attempts and sets of faulty
parties; the latter two assume that attempts have ids of their own
(`~SameSid`). `Correct` is not inductive: it says nothing of what is stored or
under way. The strengthening says of each message, wherever it is (on the way,
stored, handed out, received), what its content is as a function of its sender,
session and topic and of the inputs: a session's messages are the ones the two
programs would exchange if nothing failed. With its own ids a party meets only
messages of its session, so that what it computes from them is of that form
again. The refinement follows from the invariant and the same case analysis:
only the steps that end an attempt change what the ideal functionality shows.
`MessagesKeptApart` (`NoOverwrite`) is a corollary: two messages under one key
say the same.

`NobodyWaitsForEachOther` (`NeverBothWaiting`) is for ids of one's own or a
single attempt. What it needs (`WaitInv`) follows a message from its sender's
position: each one a party has sent in its attempt is under way, stored, read by
its peer (or of no use to it: stopped, or in a later attempt), or gone, which
`lost` records; and the two counters of a `Conn` are functions of the position in
the script, so that the peer asks for the key the message has (`Answers`). The
rest is a fact about the two scripts (`NoCircle`): of any two receives, one is
answered by a send that comes before the other.

`GarblerResultIsOwn` needs no ids of one's own: with `SameSid` too, an attempt
that meets messages of another returns a value it garbled itself. Its invariant
(`TellsInv`) follows one thing only, the latest garbling of the garbler: a value
that names it, wherever it is, was made from the garbler's present input and the
choices its transfer answered. A restart draws labels no value names yet, and
the evaluator's result names a garbling only if its key, gates, inputs and
transfer all do.

*GarblingProofs.* All four properties for every circuit that meets
`CircuitAssumption`, every label width, key, cipher and counter width. The
invariant says of each garbled gate that its rows and output labels are those
`Gate.garble` makes of its inputs' labels and the tweak it was garbled with
(the history variable `tweak`), that each pair of labels differs by the offset,
whose select bit is set, and that the evaluator's counter equals the recorded
tweak of its gate. `GateCorrect` is the lemma for one gate: from active labels
of the inputs, `Eval` makes the active label of the output, by cases on the
gate type and the select bits.

*ObliviousTransferProofs.* From the group laws alone: both sides reach the same
point for the chosen flag, and a different one for the other flag, because the
sender's point is not the identity once a ciphertext exists. `OnlyOwnPointCancels`
says what the checks of points leave open: the label of a zero is never sealed
under a point without coordinates, that of a one is when the receiver sends the
sender's own point. `ensureOnCurve` looks at the points received and not at those
sums. The two pads are different points all the same, the receiver's pad is
the one of its flag, and the transfer stays right.

*NetlistProofs.* `NetlistTypeCorrect` and `NetlistMeaningKept` for any number of
inputs and gates, any of the operations and any order of building.
`MeaningKept` is not inductive. `FoldConst` redirects readers to the operand it
passes on, over several steps, in which the redirected wire and the target must
be known to mean the same (`LoopsSound`). `SkipByA` and `SkipByB` find the gate
to rewire through `wire[x].input`, a pointer that earlier skips have made stale:
the invariant (`Sound`) says that the gate a wire points at drives, if not that
wire, one of the same meaning. Together with `ConstantsSound` (the two constant
wires mean what they say) and `LoopsTyped` these are `NInv`; there is a lemma per
action, and one lemma each for how `AddOutput`, `RemoveOutput` and `Moved` leave
values, drivers and types alone.

The other five properties of `Netlist` are proved for any netlist too, each with
what it rests on.

* `CountsAgree` and `NeverPanics` need to know which gates are in a list of
  readers (`KInv`). `ReadersKnown`: a wire `ConstPropagate` has yet to come to has
  in its list each gate as often as it reads the wire; the list of one it has
  passed may name gates that were moved away. So the loop over a list redirects
  gates that do read the wire, and the count, lowered for each, ends at zero.
  `Shape` says that gates read wires of earlier gates before exchanges and that
  lists name gates which exist; `OutputsFree` that outputs are distinct and read
  by no gate; `Listing` how `list` and `dead` go with the phase.
  Counting is by cardinality (`Number`, `Occurrences`).
* `NothingUseless`: gates that `Prune` has passed are of use (`Useful`); it goes
  from the last gate to the first, so that what it removes frees only gates it
  has yet to meet.
* `WellOrdered`: the conjuncts of `Order` say that ids are unique (`Ids`), that a
  numbered wire is an input or driven by a gate taken before (`Sources`), that
  gates in `pending` have numbered operands and are there once (`Ready`), and
  that those in `assigned` read what is before them (`Taken`).
* `CompiledComputes` needs that nothing is left out. `Fed`: what a used gate reads
  is driven by a gate that is not dead. `ShortCircuitXORZero` breaks this for
  gates nobody needs: it gives the driver of `x` the output of the gate it skips,
  and that gate goes on reading `x`. `Swaps` says that no other gate does, because
  only wires with one reader are skipped. `Reached`
  and `Complete`: when `Compile` has no more gates to visit, every used gate is
  in `assigned`; a used gate left out would read the output of an earlier one
  left out. By induction over the compiled gates (`Right`) each value is then
  what its wire means.

*BuilderProofs.* For every width `W`: the bits
of the adder and the subtractor built so far and their carry are the sum and the
difference modulo the width of the result (`SumIsRight`), the four comparators
compare unsigned and signed numbers (`ComparisonIsRight`), and long division
keeps `dividend = quotient * divisor + remainder` with a remainder below the
divisor, on the part of the dividend that was shifted in (`DivisionIsRight`,
`DividesNumbers`); a division by zero sets every bit of the quotient
(`ZeroDivisor`). The value of `W` wires is a recursive function on `0 .. W`, and
what is shown of it needs induction. The library's induction theorems have an
operator as parameter; `Least` (a set of naturals that has a
member has a least one, from the library's well-foundedness of their order) and `Induction` (a subset of `0 .. n` with zero that is closed
under the successor is all of it) are stated with sets instead, and an induction
is then a set comprehension to which `Induction` is applied. The invariants add
to the properties what the middle of a loop means: the comparators' carry
(`Compared`), and for the divider the states between its phases (`Between`,
`Subtracts`), with `Fits`, that a remainder never grows out of its wires, because
the shift drops the highest one.

*ServerProofs, SessionRegistry.* `ConnectSucceedsOnResponse`, `UseIsLoggedOncePerClient`
and `MarkedUntilRegisteredAgain` for any number of clients (finitely many), ids,
attempts and registrations. Types are kept only because a client that still
connects has an attempt left (`AttemptLeft`). `LoggedPerClient` is not
inductive: it does not count the lookups that have read a copy and will log it.
The strengthening (`Budget`) adds to the uses logged so far the clients that may
still log without another registration (`MayLog`): all of them while the stored
configuration is unmarked, else those whose lookup holds a copy. A registration
raises the budget by one for each client, and the handler that marks a copy
takes itself out of `MayLog`.

*GeneratorProofs, ProgramsProofs.* Both are about `Programs`: the first has
values, selects, blocks and pictures, the second the actions and the theorems. For any arguments, names and bounds, and every program of
assignments, definitions, nested ifs, returns and calls: `BindingsAgree`
(`NamesAgree`); what a call of a function yields is what the function returns in
the worlds that called it (`CallReturns`); and the value that the return of `main`
reads is what the program returns, in all worlds (`MainReturns`). The assumptions
are `ArgsAssumption` (arguments are distinct names) and `NamesAssumption`
(keywords and the name of the result are not variables).

`BindingsAgree` is about the block that statements are added to, and is far from
inductive. An `else`, the end of an `if` and the end of a call go back to blocks
that were left long before, a merge asks for what two blocks say at the same
time, and the value of a function is put together from the ends of all its blocks
when none of its variables exist any more. The invariant (`IInv`) has two layers.

* `GenOK` is about numbers: values and selects are made in order and refer to
  earlier ones (`Typed`), a value is made by one instruction (`Once`), blocks with
  the same array know that it is shared (`CopyOnWrite`), and the phi a select was
  given carries what the select means (`Resolved`). Most of the lemmas on this
  layer say that an operation (`Set`, `Clone`, `AddInstr`, `Resolve`, `Merge`)
  leaves every value and every select with the worlds it had.
* Above it a generator is a `Picture`: for each block its edges, the worlds of its
  condition and, for each name, the worlds in which what it is bound to is true.
  `Sound` is about pictures and the stack of functions: there are sets of worlds
  (`at`) that flow along the edges (`FlowOK`), the names of each block that
  something will come back to agree with the variables in the worlds that wait for
  it (`IfOK`, `CurOK`), the conditions of the open ifs tell the worlds of their
  branches apart (`SidesOK`), and a block that returns has the result bound in the
  worlds that enter it (`ReturnedOK`).

`CodeAgreesWithRun` states that layer as a theorem of its own: in every state
there are such sets of worlds. `Generated` is the layer below.

There is one lemma on pictures for each action, and one on the generator that says
which picture the action makes. For `ReturnBinding`, whose walk is a machine with
a stack (`VisitBlock`, `AnswerBlock`), `Walked` says that an answer carries the
function's result in the worlds of its block, and that a block without an answer
is entered in no world. That a first read of a select gives phis to all selects
under it needs that the list of these (`Unresolved`, a function by recursion over
selects) has each of them once and in order: `Recursion`, which shows that a
definition by recursion on `1 .. n` has a solution, and `CompleteInduction` are
stated with sets, as in *BuilderProofs*.

Only model-checked: `CircuitIsRight`, `FoldIsRight`, `ArrayIsList` and
`ArgumentSurvives` (their modules use recursive operators); of `ProgramComputes`,
that `Serialize` reaches every block that has instructions, ends with the return
and puts a mov before what reads it (the value returned is `MainReturns`); and all
liveness (`PollIsAnswered`, `WaitHasCause`, `BothReturn`), which is out of the
prover's reach.

## 6. What is not modelled

The encodings (CBOR, gob), logs and drawings; sizes of requests; the streaming
oblivious transfer, which only a test uses; the janitor of the cache. The hash
of a message key is taken as injective: `PrimaryKey` puts session id and topic
next to each other without a separator, and the fixed list of topics is what
keeps pairs apart. `deriveMask` hashes coordinates without padding, which is
likewise taken as injective. Recycling of wires in `ssa/wire_allocator.go` has
no effect at present, because `circuitgen.go:654` ignores the gc instruction.

Of the netlist compiler: the panic at 2^29 readers of one wire and the option
`OutputsAssigned`.

Of the compiler: scanner and grammar, which read text from front to back and
keep no state that steps could disturb; packages, pointers, structs as
l-values, strings, natives and most builtins; the multiplication by powers of
two, which is never chosen because `Generator.Constant` turns the `int64` it
looks for into an `mpa.Int`; the peephole pass, which `package.go` disables. The
liveness analysis and `Program.GC` (which follows aliases one level only) place
gc instructions that `circuitgen.go:654` ignores, so that the pool of wires is
never given any back. Circuit files are written and read in one pass; what
`ParseBristol` demands of the order of gates is the assumption of `Garbling`.
Reports (`dot.go`, `svg.go`) are layout.

In `Programs` the phi of a select is made in the block that first reads it. When
an else branch returns, that block may be serialized after another that reads the
same select, so that a gate is added before the gate that drives one of its
inputs; the wires are the same, and `Compile` orders gates by their inputs.
`Netlist` builds gates after their drivers and so does not have this order.

### Where numbers are not what one expects

The modules do what the code does; the properties leave these operands out, each
by a named condition (`Handled`, `Proper`, the premises of `FoldIsRight`,
`FitsType`, `SizesSuffice`).

* Division, remainder and comparison take their sign from the left operand
  (`ssagen.go:1546`): `5 < u` for an unsigned `u` compares signed numbers.
* `ZeroPad` extends with zeros (`circuits/compiler.go:93`): a negative operand
  narrower than the other becomes a large number.
* Constants fold on masked numbers in `/`, `%` and `>>` (`mpint.go:217`);
  constants beyond 64 bits are compared by their top bit, and `1 + 2^64` panics
  in `setSmall` (`mpint.go:411`).
* A folded constant of less than 32 bits becomes one of 32 (`generator.go:183`),
  and a constant keeps the wires it was first given (`generator.go:118`).
* A negative number divided by zero is 1; a signed remainder is not negative
  (`circ_divider.go:217`).
* `copy(dst[0:n], src)` on a longer slice leaves `dst` with `n` elements
  (`ssagen.go:2313`), which `arrays_copy_shrinks` shows.
* The fields after a nested struct get the sizes of fields in it
  (`types.go:359`), `Parse` cuts numbers that are too large, and the size of a
  signed number has no room for its sign (`ioarg.go:230`).

With a fixed session id the *evaluator* may take the result message of an older
run for its own: `Correct` is claimed, and proved, for ids of their own only.

## 7. Plan

In this order, most important behaviour first.

1. `Mailbox`, `Messenger`, `Session`, `JointFunction`, `SessionRegistry`,
   `Garbling`, `ObliviousTransfer` and the proofs of the last section: done.
2. `Netlist` and the theorem that no rewriting step changes what a gate
   computes: done.
3. `Arithmetic`, `CircuitGen`, `Expressions`, `Arrays`, with `Ripple` and
   `LongDivision` and their proofs: done.
4. `Arguments`: done for numbers, bools, arrays and structs.
5. `Programs`: done for values without pointers.
6. Next: pointers in `Programs` (a write through a pointer inside a branch goes to
   the bindings outside, `lrvalue.go`, so that `Merge` sees the new value as the
   one of the branch not taken), and liveness with GC when the gc instruction is
   given an effect again.
7. Proofs: done for all safety properties of the messenger, the registry, the
   session, garbling, the transfer, the netlist compiler and the loops of the
   builders, and for what a compiled program returns. Next: the order in which
   blocks are serialized, and the multiplier.
