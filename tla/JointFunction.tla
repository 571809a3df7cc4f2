--------------------------- MODULE JointFunction ---------------------------
(***************************************************************************)
(* What the two-party computation promises its callers, as an abstract     *)
(* specification: a party that is called is told the value of F on the     *)
(* inputs of its session, or gets an error; it is told once, and whatever  *)
(* happens to the other party does not change what it was told.  A party   *)
(* that has finished can be called again, for the next session.            *)
(***************************************************************************)
EXTENDS Naturals

CONSTANTS Party, Input, Result, F, Refused, MaxAttempt

VARIABLES input,    \* input[p][n]: p's arguments in session n
          attempt,  \* the session p is in
          outcome   \* "pending", "error" or the value p was told

idealVars == <<input, attempt, outcome>>

Value(n) == F[input["garbler"][n]][input["evaluator"][n]]

IdealInit ==
    /\ input \in [Party -> [1..MaxAttempt -> Input]]
    /\ attempt = [p \in Party |-> 1]
    /\ outcome = [p \in Party |-> "pending"]

Tell(p) ==
    /\ outcome[p] = "pending" /\ Value(attempt[p]) \notin Refused
    /\ outcome' = [outcome EXCEPT ![p] = Value(attempt[p])]
    /\ UNCHANGED <<input, attempt>>

GiveUp(p) ==
    /\ outcome[p] = "pending"
    /\ outcome' = [outcome EXCEPT ![p] = "error"]
    /\ UNCHANGED <<input, attempt>>

CallAgain(p) ==
    /\ outcome[p] # "pending" /\ attempt[p] < MaxAttempt
    /\ attempt' = [attempt EXCEPT ![p] = @ + 1]
    /\ outcome' = [outcome EXCEPT ![p] = "pending"]
    /\ UNCHANGED input

IdealNext == \E p \in Party : Tell(p) \/ GiveUp(p) \/ CallAgain(p)

IdealSpec == IdealInit /\ [][IdealNext]_idealVars
=============================================================================
