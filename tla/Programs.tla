------------------------------ MODULE Programs ------------------------------
\* From the statements of a function to the steps of a circuit: compiler/ast
\* compiles statement by statement into the blocks and bindings of
\* compiler/ssa, without jumps: both branches of an if are computed, and phi
\* instructions choose. Beside it the program is run as the language means it,
\* in all worlds at once; a world gives a bit to each argument of main. All
\* variables are bools, and expressions are variables and constants; pointers
\* are left out.
EXTENDS Naturals, Sequences, SequencesExt, FiniteSets

CONSTANTS
  Args,           \* the arguments of main, a sequence of names
  Targets,        \* the names that programs assign to
  Conditions,     \* the names that ifs test
  Operands,       \* the names and constants that are assigned
  Param,          \* the argument of the function that main calls
  MaxStatements,  \* statements of a program
  MaxCalls, MaxIfs
ASSUME ArgsAssumption ==
  /\ Args \in Seq(STRING) /\ \A k, l \in DOMAIN Args : Args[k] = Args[l] => k = l
  /\ Param \in Range(Args)
\* Keywords and the name of the result are not names of variables.
ASSUME NamesAssumption ==
  /\ Targets \subseteq STRING
  /\ {"true", "false", "%ret0"} \cap (Range(Args) \cup Targets) = {}
ASSUME BoundsAssumption == MaxStatements \in Nat /\ MaxCalls \in Nat /\ MaxIfs \in Nat

World == SUBSET DOMAIN Args

VARIABLES
  gen,         \* blocks, arrays of bindings, selects and values
  cur,         \* the block that statements are added to
  frames,      \* the functions being compiled: blocks, open ifs, and the run's
               \* variables, results and worlds that are not there
  path,        \* the worlds that are at this point of the program
  statements,  \* statements so far
  calls,
  phase,       \* "statements", "return" or "serialize"
  stack,       \* the calls of the walk over the blocks that is under way
  answers,     \* what it has answered for each block
  order, steps \* the blocks that are serialized, and their instructions
walk == <<phase, stack, answers, order, steps>>
vars == <<gen, cur, frames, path, statements, calls, walk>>
-----------------------------------------------------------------------------
\* Values are numbers; the first ones are the constants and the arguments.
True == 1
False == 2
IsConst(v) == v \in {True, False}
Arg(k) == 2 + k
None == 0

\* What a name is bound to: a value or a select, by its number.
Bound(v) == [select |-> FALSE, at |-> v]
Selected(s) == [select |-> TRUE, at |-> s]
Ret == "%ret0"

NewVal(g) == g.values + 1
Instr(op, in, out) == [op |-> op, in |-> in, out |-> out]
AddInstr(g, b, i) == [g EXCEPT !.block[b].instr = Append(@, i), !.values = IF i.out > @ THEN i.out ELSE @]

\* Bindings point at an array, which copies share until one of them writes.
\* Mutant: what was copied from is marked as shared, the copy is not.
Clone_MarksOriginal(g, b) ==
  [gen |-> [g EXCEPT !.block[b].bindings.shared = TRUE],
   bindings |-> [g.block[b].bindings EXCEPT !.shared = FALSE]]
Clone(g, b) ==
  LET shared == [g.block[b].bindings EXCEPT !.shared = TRUE]
  IN [gen |-> [g EXCEPT !.block[b].bindings = shared], bindings |-> shared]
NewEnv(g, b) == Clone(g, b).gen
Bindings(g, b) == g.array[g.block[b].bindings.at]
Set(g, b, name, bound) ==
  LET old == Bindings(g, b)
      new == [n \in DOMAIN old \cup {name} |-> IF n = name THEN bound ELSE old[n]]
  IN IF g.block[b].bindings.shared
     THEN [g EXCEPT !.array = Append(@, new),
                    !.block[b].bindings = [shared |-> FALSE, at |-> Len(g.array) + 1]]
     ELSE [g EXCEPT !.array[g.block[b].bindings.at] = new]

\* Generator.Block, NextBlock and BranchBlock; the new block is the last one.
Fresh(bindings) ==
  [bindings |-> bindings, instr |-> <<>>, next |-> None, branch |-> None, cond |-> None, dead |-> FALSE]
AddBlock(g, array) ==
  [g EXCEPT !.array = Append(@, array),
            !.block = Append(@, Fresh([shared |-> FALSE, at |-> Len(g.array) + 1]))]
NoBindings == [n \in {} |-> Bound(None)]
NoAnswers == [b \in {} |-> None]
AddClone(g, b) ==
  LET c == Clone(g, b) IN [c.gen EXCEPT !.block = Append(@, Fresh(c.bindings))]
SetNext(g, b, o) ==
  [g EXCEPT !.block[b].next = o, !.panic = @ \/ g.block[b].next \notin {None, o}]
SetBranch(g, b, o) == [g EXCEPT !.block[b].branch = o]
NextBlock(g, b) == SetNext(AddClone(g, b), b, Len(g.block) + 1)
BranchBlock(g, b) == SetBranch(AddClone(g, b), b, Len(g.block) + 1)

\* Binding.Value: the first use of a select adds its phi to the block that
\* uses it, for all others to share, after those of the selects it chooses
\* from. Unresolved(g)[s][q]: the list q of selects that get one, continued
\* with those that s needs.
Under(visit, bound, q) == IF bound.select THEN visit[bound.at][q] ELSE q
UnresolvedBy(g, visit, s, q) ==
  IF g.select[s].resolved # None \/ s \in Range(q) THEN q
  ELSE Append(Under(visit, g.select[s].f, Under(visit, g.select[s].t, q)), s)
Unresolved(g) ==
  LET visit[s \in DOMAIN g.select] == [q \in Seq(Nat) |-> UnresolvedBy(g, visit, s, q)] IN visit
ValueOf(g, todo, p) ==
  IF ~p.select THEN p.at
  ELSE IF p.at \in Range(todo) THEN g.values + CHOOSE k \in DOMAIN todo : todo[k] = p.at
  ELSE g.select[p.at].resolved
Phi(g, todo, k) ==
  LET s == g.select[todo[k]]
  IN Instr("phi", <<s.cond, ValueOf(g, todo, s.t), ValueOf(g, todo, s.f)>>, g.values + k)
AddPhis(g, b, todo) ==
  [g EXCEPT !.block[b].instr = @ \o [k \in DOMAIN todo |-> Phi(g, todo, k)],
            !.values = @ + Len(todo),
            !.select = [s \in DOMAIN @ |-> [@[s] EXCEPT !.resolved = ValueOf(g, todo, Selected(s))]]]
Resolve(g, b, bound) ==
  LET todo == Under(Unresolved(g), bound, <<>>)
  IN [gen |-> AddPhis(g, b, todo), v |-> ValueOf(g, todo, bound)]

Same(equal, p, q) == IF p.select /\ q.select THEN equal[p.at][q.at] ELSE p = q
EqualsBy(equal, s, o) == s.cond = o.cond /\ Same(equal, s.t, o.t) /\ Same(equal, s.f, o.f)
Equals(g) ==
  LET equal[s \in DOMAIN g.select] == [o \in DOMAIN g.select |-> EqualsBy(equal, g.select[s], g.select[o])]
  IN equal
Equal(g, p, q) == Same(Equals(g), p, q)

\* Bindings.Merge of the bindings of block f into those of block t: the new
\* bindings of t.
Differing(g, t, f) ==
  SetToSeq({n \in DOMAIN Bindings(g, t) \cap DOMAIN Bindings(g, f) : ~Equal(g, Bindings(g, t)[n], Bindings(g, f)[n])})
Merge(g, cond, t, f) ==
  LET differ == Differing(g, t, f)
      select(n) == [cond |-> cond, t |-> Bindings(g, t)[n], f |-> Bindings(g, f)[n], resolved |-> None]
  IN [gen |-> [g EXCEPT !.select = @ \o [k \in DOMAIN differ |-> select(differ[k])]],
      array |-> [n \in DOMAIN Bindings(g, t) |->
                   IF n \in Range(differ)
                   THEN Selected(Len(g.select) + CHOOSE k \in DOMAIN differ : differ[k] = n)
                   ELSE Bindings(g, t)[n]]]
SetBindings(g, b, array) ==
  [g EXCEPT !.array = Append(@, array), !.block[b].bindings = [shared |-> FALSE, at |-> Len(g.array) + 1]]

-----------------------------------------------------------------------------
\* The program grows by one statement at a time. top is the function that is
\* being compiled.
top == Last(frames)
Alive == phase = "statements" /\ ~gen.block[cur].dead /\ statements < MaxStatements
Grow(g) == gen' = g /\ statements' = statements + 1
SetTop(f) == frames' = Append(Front(frames), f)
If(kind) == [kind |-> kind, block |-> None, t |-> None, start |-> {}, end |-> {}, names |-> DOMAIN top.store]

\* The run: a variable gets a value in the worlds that are here.
Meant(e) == IF e = "true" THEN World ELSE IF e = "false" THEN {} ELSE top.store[e]
Assigned(store, name, ws, e) ==
  [n \in DOMAIN store \cup {name} |->
     IF n # name THEN store[n]
     ELSE (ws \cap e) \cup (IF name \in DOMAIN store THEN store[name] \ ws ELSE {})]
Visible == DOMAIN top.store
Expr == Operands \cap (Visible \cup {"true", "false"})

\* Constants and variables as r-values.
Value(g, e) ==
  IF e \in Visible THEN Resolve(g, cur, Bindings(g, cur)[e])
  ELSE [gen |-> g, v |-> IF e = "true" THEN True ELSE False]

\* LRValue.Set, or := of a new name: the name is bound to the r-value. The
\* look for the name uses what it is bound to.
Move(g, b, name, v) ==
  LET old == Bindings(g, b)
      h == IF name \in DOMAIN old THEN Resolve(g, b, old[name]).gen ELSE g
  IN Set(AddInstr(h, b, Instr("mov", <<v>>, NewVal(h))), b, name, Bound(v))

Frame(start, ret, caller, target, store, here) ==
  [start |-> start, ret |-> ret, caller |-> caller, target |-> target, ifs |-> <<>>,
   store |-> store, result |-> {}, here |-> here]

Init ==
  /\ gen = [block |-> <<Fresh([shared |-> TRUE, at |-> 1]), Fresh([shared |-> FALSE, at |-> 2])>>,
            array |-> <<[n \in Range(Args) \cup {Ret} |->
                          Bound(IF n = Ret THEN Arg(Len(Args) + 1) ELSE Arg(CHOOSE k \in DOMAIN Args : Args[k] = n))],
                        NoBindings>>,
            select |-> <<>>, values |-> Arg(Len(Args) + 1), panic |-> FALSE]
  /\ cur = 1
  /\ frames = <<Frame(1, 2, None, None,
                      [n \in Range(Args) |-> {w \in World : \E k \in w : Args[k] = n}], World)>>
  /\ path = World
  /\ statements = 0 /\ calls = 0
  /\ phase = "statements" /\ stack = <<>> /\ answers = NoAnswers /\ order = <<>> /\ steps = <<>>

Assign(name, e) ==
  /\ Alive /\ e # name
  /\ LET r == Value(NewEnv(gen, cur), e) IN Grow(Move(r.gen, cur, name, r.v))
  /\ SetTop([top EXCEPT !.store = Assigned(@, name, path, Meant(e))])
  /\ UNCHANGED <<cur, path, calls, walk>>

\* The increment of a loop, which is evaluated and has no instruction.
LoopAssign(name, e) ==
  /\ Alive
  /\ Grow(Set(NewEnv(gen, cur), cur, name, Bound(IF e = "true" THEN True ELSE False)))
  /\ SetTop([top EXCEPT !.store = Assigned(@, name, path, Meant(e))])
  /\ UNCHANGED <<cur, path, calls, walk>>

\* var name bool, of a name that is not there yet.
VariableDef(name) ==
  /\ Alive /\ name \notin Visible
  /\ LET g == NewEnv(gen, cur)
         v == NewVal(g)
     IN Grow(AddInstr(Set(g, cur, name, Bound(v)), cur, Instr("mov", <<False>>, v)))
  /\ SetTop([top EXCEPT !.store = Assigned(@, name, path, {})])
  /\ UNCHANGED <<cur, path, calls, walk>>

ConstOf(g, name) == LET b == Bindings(g, cur)[name] IN IF ~b.select /\ IsConst(b.at) THEN b.at ELSE None

\* if name {, with a condition that is constant: one of the branches is
\* compiled, without a branch.
IfConst(name) ==
  /\ Alive /\ Len(top.ifs) < MaxIfs
  /\ LET g == NewEnv(gen, cur)
         here == IF ConstOf(g, name) = True THEN path \cap Meant(name) ELSE path \ Meant(name)
     IN /\ ConstOf(g, name) # None
        /\ Grow(g)
        /\ SetTop([top EXCEPT !.ifs = Append(@, [If("const") EXCEPT !.end = path \ here])])
        /\ path' = here
  /\ UNCHANGED <<cur, calls, walk>>

\* if name {
Branch(name) ==
  /\ Alive /\ Len(top.ifs) < MaxIfs
  /\ LET r == Value(NewEnv(gen, cur), name)
     IN /\ ConstOf(gen, name) = None
        /\ Grow(BranchBlock([r.gen EXCEPT !.block[cur].cond = r.v], cur))
        /\ SetTop([top EXCEPT !.ifs = Append(@, [If("then") EXCEPT !.block = cur, !.start = path \ Meant(name)])])
        /\ path' = path \cap Meant(name)
        /\ cur' = Len(gen.block) + 1
  /\ UNCHANGED <<calls, walk>>

\* } else {
Else ==
  /\ phase = "statements" /\ top.ifs # <<>> /\ statements < MaxStatements
  /\ LET i == Last(top.ifs)
     IN /\ i.kind = "then"
        /\ Grow(NextBlock(gen, i.block))
        /\ SetTop([top EXCEPT !.ifs = Append(Front(@), [i EXCEPT !.kind = "else", !.t = cur, !.end = path]),
                              !.store = [n \in i.names |-> @[n]]])
        /\ path' = i.start
        /\ cur' = Len(gen.block) + 1
  /\ UNCHANGED <<calls, walk>>

\* The end of an if: the block to go on with.
EndThen(i) ==
  IF gen.block[cur].dead THEN gen' = NextBlock(gen, i.block) /\ cur' = Len(gen.block) + 1
  ELSE LET m == Merge(gen, gen.block[i.block].cond, cur, i.block)
       IN gen' = SetNext(SetBindings(m.gen, cur, m.array), i.block, cur) /\ UNCHANGED cur
\* Mutant: a branch that has returned is merged like any other.
EndElse_MergesDead(i) ==
  LET m == Merge(gen, gen.block[i.block].cond, i.t, cur)
      new == Len(gen.block) + 1
  IN gen' = SetNext(SetNext(AddBlock(m.gen, m.array), i.t, new), cur, new) /\ cur' = new
EndElse(i) ==
  LET dead == [b \in {i.t, cur} |-> gen.block[b].dead]
      new == Len(gen.block) + 1
      m == Merge(gen, gen.block[i.block].cond, i.t, cur)
  IN CASE dead[i.t] /\ dead[cur] ->
            gen' = [AddBlock(gen, NoBindings) EXCEPT !.block[new].dead = TRUE] /\ cur' = new
       [] ~dead[i.t] /\ dead[cur] -> cur' = i.t /\ UNCHANGED gen
       [] dead[i.t] /\ ~dead[cur] -> UNCHANGED <<gen, cur>>
       [] OTHER -> /\ gen' = SetNext(SetNext(AddBlock(m.gen, m.array), i.t, new), cur, new)
                   /\ cur' = new
EndIf ==
  /\ phase = "statements" /\ top.ifs # <<>>
  /\ LET i == Last(top.ifs)
     IN /\ \/ i.kind = "then" /\ EndThen(i) /\ path' = path \cup i.start
           \/ i.kind = "else" /\ EndElse(i) /\ path' = path \cup i.end
           \/ i.kind = "const" /\ UNCHANGED <<gen, cur>> /\ path' = path \cup i.end
        /\ SetTop([top EXCEPT !.ifs = Front(@), !.store = [n \in i.names |-> @[n]]])
  /\ UNCHANGED <<statements, calls, walk>>

Return(e) ==
  /\ Alive
  /\ LET r == Value(NewEnv(gen, cur), e)
         v == NewVal(r.gen)
         g == Set(AddInstr(r.gen, cur, Instr("mov", <<r.v>>, v)), cur, Ret, Bound(v))
     IN Grow([SetNext(g, cur, top.ret) EXCEPT !.block[cur].dead = TRUE])
  /\ SetTop([top EXCEPT !.result = @ \cup (path \cap Meant(e))])
  /\ path' = {}
  /\ UNCHANGED <<cur, calls, walk>>

\* target = f(e): the statements of f follow.
Call(target, e) ==
  /\ Alive /\ calls < MaxCalls
  /\ LET r == Value(NewEnv(gen, cur), e)
         caller == Len(gen.block) + 1
         g == AddBlock(AddClone(r.gen, cur), [n \in {Param} |-> Bound(r.v)])
         h == AddInstr(AddBlock(g, NoBindings), cur, Instr("mov", <<r.v>>, NewVal(g)))
     IN /\ Grow([Set(h, caller + 1, Ret, Bound(NewVal(h))) EXCEPT !.values = @ + 1])
        /\ frames' = Append(frames, Frame(caller + 1, caller + 2, caller, [name |-> target, block |-> cur],
                                          [n \in {Param} |-> Meant(e)], path))
        /\ cur' = caller + 1
  /\ calls' = calls + 1
  /\ UNCHANGED <<path, walk>>

\* Block.ReturnBinding: the value a function returns when it is left somewhere
\* after a block, None if there is none. The walk begins where the function
\* does, when all its paths have returned.
ReturnWalk ==
  /\ phase = "statements" /\ top.ifs = <<>> /\ gen.block[cur].dead
  /\ phase' = "return" /\ stack' = <<top.start>> /\ answers' = NoAnswers
  /\ UNCHANGED <<gen, cur, frames, path, statements, calls, order, steps>>

\* The blocks whose answers the block on top of the stack asks for first.
Sequential(k) == k.branch \in {None, k.next}
Asked(k) ==
  IF Sequential(k) THEN {k.next} \ {None}
  ELSE {k.branch} \cup (IF k.branch \in DOMAIN answers /\ answers[k.branch] # None THEN {k.next} ELSE {})
VisitBlock ==
  LET k == gen.block[Last(stack)]
  IN /\ phase = "return" /\ stack # <<>>
     /\ Asked(k) \ DOMAIN answers # {}
     /\ stack' = Append(stack, IF k.branch \in Asked(k) \ DOMAIN answers THEN k.branch ELSE k.next)
     /\ UNCHANGED <<gen, cur, frames, path, statements, calls, phase, answers, order, steps>>

\* The phi of a branch and those of a returned select go to the block in which
\* the function ends. Answers are cached.
AnswerBlock ==
  LET b == Last(stack)
      k == gen.block[b]
      Of(c) == IF c = None THEN None ELSE answers[c]
      own == Resolve(gen, top.ret, Bindings(gen, b)[Ret])
      phi == NewVal(gen)
      Answer(g, v) == gen' = g /\ answers' = [c \in DOMAIN answers \cup {b} |-> IF c = b THEN v ELSE answers[c]]
  IN /\ phase = "return" /\ stack # <<>> /\ Asked(k) \subseteq DOMAIN answers
     /\ IF Sequential(k)
        THEN IF Of(k.next) # None THEN Answer(gen, Of(k.next))
             ELSE IF Ret \in DOMAIN Bindings(gen, b) THEN Answer(own.gen, own.v)
             ELSE Answer(gen, None)
        ELSE IF Of(k.branch) = None THEN Answer(gen, None)
             ELSE IF Of(k.next) \in {None, Of(k.branch)} THEN Answer(gen, Of(k.next))
             ELSE Answer(AddInstr(gen, top.ret, Instr("phi", <<k.cond, Of(k.branch), Of(k.next)>>, phi)), phi)
     /\ stack' = Front(stack)
     /\ UNCHANGED <<cur, frames, path, statements, calls, phase, order, steps>>

\* The end of a function. The caller goes on in a block of its own.
EndCall ==
  /\ phase = "return" /\ stack = <<>> /\ Len(frames) > 1
  /\ LET block == top.target.block
         g == SetNext(gen, block, top.start)
         c == Clone(g, block)
         h == SetNext([c.gen EXCEPT !.block[top.caller].bindings = c.bindings], top.ret, top.caller)
         under == Last(Front(frames))
     IN /\ gen' = Move(h, top.caller, top.target.name, answers[top.start])
        /\ frames' = Append(Front(Front(frames)),
             [under EXCEPT !.store = Assigned(@, top.target.name, top.here, top.result)])
        /\ cur' = top.caller
        /\ path' = top.here
  /\ phase' = "statements" /\ answers' = NoAnswers
  /\ UNCHANGED <<statements, calls, stack, order, steps>>

EndMain ==
  /\ phase = "return" /\ stack = <<>> /\ Len(frames) = 1
  /\ gen' = AddInstr(gen, top.ret, Instr("ret", <<answers[top.start]>>, None))
  /\ phase' = "serialize" /\ stack' = <<1>>
  /\ UNCHANGED <<cur, frames, path, statements, calls, answers, order, steps>>

\* Block.Serialize: a block follows all that lead to it, its branch comes
\* before what is next.
Leads(b) == {c \in DOMAIN gen.block : b \in {gen.block[c].next, gen.block[c].branch}}
SerializeBlock ==
  LET b == Last(stack)
      k == gen.block[b]
      Calls(c) == IF c = None THEN <<>> ELSE <<c>>
  IN /\ phase = "serialize" /\ stack # <<>>
     /\ IF b \in Range(order) \/ ~(Leads(b) \subseteq Range(order))
        THEN stack' = Front(stack) /\ UNCHANGED <<order, steps>>
        ELSE /\ order' = Append(order, b)
             /\ steps' = steps \o k.instr
             /\ stack' = Front(stack) \o Calls(k.next) \o Calls(k.branch)
     /\ UNCHANGED <<gen, cur, frames, path, statements, calls, phase, answers>>

Next ==
  \/ \E name \in Targets :
       \/ \E e \in Expr : Assign(name, e) \/ Call(name, e)
       \/ \E e \in {"true", "false"} : LoopAssign(name, e)
       \/ VariableDef(name)
  \/ \E name \in Conditions \cap Visible : IfConst(name) \/ Branch(name)
  \/ \E e \in Expr : Return(e)
  \/ Else \/ EndIf
  \/ ReturnWalk \/ VisitBlock \/ AnswerBlock \/ EndCall \/ EndMain \/ SerializeBlock
Spec == Init /\ [][Next]_vars
-----------------------------------------------------------------------------
\* The worlds in which each of n values is true when the instructions is are
\* computed, and those in which a name with the given bound is.
MadeBy(g) == UNION {Range(g.block[b].instr) : b \in DOMAIN g.block}
Choice(cond, t, f) == (cond \cap t) \cup (f \ cond)
Computed(i, c) == IF i.op = "mov" THEN c[i.in[1]] ELSE Choice(c[i.in[1]], c[i.in[2]], c[i.in[3]])
CarriedBy(is, c, v) ==
  IF v = True THEN World
  ELSE IF v = False THEN {}
  ELSE IF v <= Arg(Len(Args)) THEN {w \in World : v - Arg(0) \in w}
  ELSE IF \E i \in is : i.out = v THEN Computed(CHOOSE i \in is : i.out = v, c)
  ELSE {}
Carried(is, n) == LET c[v \in 1 .. n] == CarriedBy(is, c, v) IN c
WorldsOf(carried, selected, p) == IF p.select THEN selected[p.at] ELSE carried[p.at]
SelectedBy(s, carried, selected) ==
  Choice(carried[s.cond], WorldsOf(carried, selected, s.t), WorldsOf(carried, selected, s.f))
SelectsOf(g) ==
  LET selected[s \in DOMAIN g.select] == SelectedBy(g.select[s], Carried(MadeBy(g), g.values), selected)
  IN selected
Chosen(g, p) == WorldsOf(Carried(MadeBy(g), g.values), SelectsOf(g), p)

\* In each world that is at this point of the program, each variable is bound
\* to a value that is what the variable has.
BindingsAgree ==
  phase = "statements" /\ ~gen.block[cur].dead =>
    \A n \in Visible : Chosen(gen, Bindings(gen, cur)[n]) \cap path = top.store[n] \cap path

\* The steps end with the return, an output of a mov is not read before it,
\* and in each world they return what the program does.
ProgramComputes ==
  phase = "serialize" /\ stack = <<>> =>
    /\ ~gen.panic
    /\ Last(steps).op = "ret"
    /\ \A k \in DOMAIN steps : steps[k].op = "mov" => \A l \in 1 .. k : steps[k].out \notin Range(steps[l].in)
    /\ Carried(Range(steps), gen.values)[Last(steps).in[1]] = frames[1].result
=============================================================================
