-------------------------- MODULE SessionRegistry --------------------------
(***************************************************************************)
(* How a client gets to a session: Connect pings the server, then the      *)
(* client registers a session (/new_session) or looks one up               *)
(* (/get_session_config).  The lookup reads the cache, and when the        *)
(* session was not logged yet writes a marked copy back and logs its use:  *)
(* two cache accesses with other handlers in between.                      *)
(***************************************************************************)
EXTENDS Naturals, FiniteSets

CONSTANTS Caller,     \* clients of the server
          Sid,        \* session ids, given by clients or made by the server
          Config,     \* what a configuration says, apart from id and marker
          MaxAttempt, \* pings Connect sends (5 in the code)
          MaxCreate   \* bound: sessions created under one id

ASSUME BoundsAssumption == MaxAttempt \in Nat \ {0} /\ MaxCreate \in Nat \ {0}
ASSUME CallerAssumption == IsFiniteSet(Caller)

VARIABLES conn,    \* each client's Connect call
          store,   \* the cached configuration of each id; {} or one of them
          lookup,  \* handleGetSessionConfig: the copy it has read, {} if idle
          answer,  \* the configuration a client was given last, {} if none
          created, \* history: how often an id was registered
          used     \* history: how often logSessionUsed ran for an id

registry == <<store, created, used>>
rvars == <<conn, registry, lookup, answer>>

\* SessionConfig: the marker travels in the same structure as the rest.
SessionConfig == [cfg : Config, logged : BOOLEAN]
Optional(S) == {{}} \cup {{s} : s \in S}

RegistryTypeOK ==
    /\ conn \in [Caller -> [state : {"connecting", "connected", "failed"},
                            attempt : 0..MaxAttempt,
                            last : {"none", "ok", "status", "network"},
                            reached : BOOLEAN]]
    /\ store \in [Sid -> Optional(SessionConfig)]
    /\ lookup \in [Caller -> Optional([sid : Sid, read : SessionConfig])]
    /\ answer \in [Caller -> Optional([sid : Sid, got : SessionConfig])]
    /\ created \in [Sid -> 0..MaxCreate]
    /\ used \in [Sid -> Nat]

RegistryInit ==
    /\ conn = [c \in Caller |-> [state |-> "connecting", attempt |-> 0,
                                 last |-> "none", reached |-> FALSE]]
    /\ store = [s \in Sid |-> {}]
    /\ lookup = [c \in Caller |-> {}]
    /\ answer = [c \in Caller |-> {}]
    /\ created = [s \in Sid |-> 0]
    /\ used = [s \in Sid |-> 0]

(***************************************************************************)
(* Connect.  A ping is answered with 200, with another status, or not at   *)
(* all.  lastErr is the error of the request, which a bad status leaves    *)
(* nil; after the last attempt a nil lastErr counts as success.            *)
(***************************************************************************)
\* Mutant: the last error is forgotten.
AfterPing_NoError(attempt, outcome) ==
    IF outcome = "ok" \/ attempt >= MaxAttempt THEN "connected" ELSE "connecting"

AfterPing(attempt, outcome) ==
    IF outcome = "ok" THEN "connected"
    ELSE IF attempt < MaxAttempt THEN "connecting"
    ELSE IF outcome = "network" THEN "failed" ELSE "connected"

Ping(c, outcome) ==
    /\ conn[c].state = "connecting"
    /\ conn' = [conn EXCEPT
         ![c] = [state   |-> AfterPing(@.attempt + 1, outcome),
                 attempt |-> @.attempt + 1,
                 last    |-> outcome,
                 reached |-> @.reached \/ outcome = "ok"]]
    /\ UNCHANGED <<registry, lookup, answer>>

Ready(c) == conn[c].state = "connected" /\ lookup[c] = {}

(***************************************************************************)
(* handleNewSession: the configuration is stored as the client sent it,    *)
(* under its id or, when it has none, under an id nobody used before.      *)
(***************************************************************************)
NewSession(c, s, sc, generated) ==
    /\ Ready(c)
    /\ created[s] < MaxCreate
    /\ generated => created[s] = 0
    /\ store' = [store EXCEPT ![s] = {sc}]
    /\ created' = [created EXCEPT ![s] = @ + 1]
    /\ UNCHANGED <<conn, used, lookup, answer>>

\* What a client can put in: a new configuration, or one it was given.
Offers(c) == [cfg : Config, logged : {FALSE}] \cup {a.got : a \in answer[c]}

(***************************************************************************)
(* handleGetSessionConfig                                                  *)
(***************************************************************************)
\* Get: absent, already marked, or to be marked by the second half.
GetAbsent(c, s) ==
    /\ Ready(c) /\ store[s] = {}
    /\ answer' = [answer EXCEPT ![c] = {}]
    /\ UNCHANGED <<conn, registry, lookup>>

\* Mutant: the marker is cleared in the cached object itself.
GetLogged_Clear(c, s) ==
    \E sc \in store[s] :
      /\ Ready(c) /\ sc.logged
      /\ store' = [store EXCEPT ![s] = {[sc EXCEPT !.logged = FALSE]}]
      /\ answer' = [answer EXCEPT ![c] = {[sid |-> s, got |-> [sc EXCEPT !.logged = FALSE]]}]
      /\ UNCHANGED <<conn, created, used, lookup>>

GetLogged(c, s) ==
    \E sc \in store[s] :
      /\ Ready(c) /\ sc.logged
      /\ answer' = [answer EXCEPT ![c] = {[sid |-> s, got |-> sc]}]
      /\ UNCHANGED <<conn, registry, lookup>>

GetUnlogged(c, s) ==
    \E sc \in store[s] :
      /\ Ready(c) /\ ~sc.logged
      /\ lookup' = [lookup EXCEPT ![c] = {[sid |-> s, read |-> sc]}]
      /\ UNCHANGED <<conn, registry, answer>>

\* Mutant: the copy is written back without the marker.
MarkAndAnswer_Unmarked(c) ==
    \E l \in lookup[c] :
      /\ store' = [store EXCEPT ![l.sid] = {l.read}]
      /\ used' = [used EXCEPT ![l.sid] = @ + 1]
      /\ answer' = [answer EXCEPT ![c] = {[sid |-> l.sid, got |-> l.read]}]
      /\ lookup' = [lookup EXCEPT ![c] = {}]
      /\ UNCHANGED <<conn, created>>

\* Set of the marked copy, logSessionUsed, and the answer.
MarkAndAnswer(c) ==
    \E l \in lookup[c] :
      /\ store' = [store EXCEPT ![l.sid] = {[l.read EXCEPT !.logged = TRUE]}]
      /\ used' = [used EXCEPT ![l.sid] = @ + 1]
      /\ answer' = [answer EXCEPT ![c] = {[sid |-> l.sid, got |-> l.read]}]
      /\ lookup' = [lookup EXCEPT ![c] = {}]
      /\ UNCHANGED <<conn, created>>

\* SESSION_TIMEOUT after the last Set.
Expire(s) ==
    /\ store[s] # {}
    /\ store' = [store EXCEPT ![s] = {}]
    /\ UNCHANGED <<conn, created, used, lookup, answer>>

RegistryNext ==
    \/ \E c \in Caller :
         \/ \E outcome \in {"ok", "status", "network"} : Ping(c, outcome)
         \/ MarkAndAnswer(c)
         \/ \E s \in Sid :
              \/ \E sc \in Offers(c), generated \in BOOLEAN : NewSession(c, s, sc, generated)
              \/ GetAbsent(c, s) \/ GetLogged(c, s) \/ GetUnlogged(c, s)
    \/ \E s \in Sid : Expire(s)

RegistrySpec == RegistryInit /\ [][RegistryNext]_rvars

(***************************************************************************)
(* Properties                                                              *)
(***************************************************************************)
\* Connect reports success only when the server reacted to its last ping
\* with some HTTP response: a server that cannot be reached at the end is
\* an error (client_impl.go:43-61).
ConnectedServerResponded ==
    \A c \in Caller : conn[c].state = "connected" => conn[c].last \in {"ok", "status"}

\* "waits until the server is reachable" (client_impl.go:33): a connected
\* client has seen its ping answered with 200.
ConnectedServerReachable ==
    \A c \in Caller : conn[c].state = "connected" => conn[c].reached

\* However lookups overlap, one registration is logged at most once for each
\* client: a handler that marks an old copy does not let others log again
\* (server_impl.go:117-124).
LoggedPerClient == \A s \in Sid : used[s] <= created[s] * Cardinality(Caller)

\* Once marked, a session stays marked until it is registered again or
\* expires, also when lookups that read it unmarked finish later.
MarkerIsKept ==
    [][\A s \in Sid : \A old \in store[s] : \A new \in store'[s] :
         old.logged /\ ~new.logged => created'[s] = created[s] + 1]_rvars
=============================================================================
