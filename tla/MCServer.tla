------------------------------ MODULE MCServer ------------------------------
\* An instance of the messenger server for TLC: its message store and its
\* registry of sessions. They share no state, so that a behaviour is one of a
\* single part; the variables of the other stay as they are at the start.
EXTENDS Messenger, SessionRegistry, TLC

CONSTANTS a, b, v1, v2

MCKey == {a, b}
MCVal == {v1, v2}

Msg(k, v) == [key |-> k, val |-> v]
\* Single messages of every key and value, one without a value, a vector
\* that is stored whole and one that is refused in the middle.
MCPosts ==
    {<<m>> : m \in [key : MCKey, val : MCVal \cup {NoVal}]}
      \cup {<<Msg(a, v1), Msg(b, v2)>>, <<Msg(b, v1), Msg(a, NoVal)>>}

VARIABLE part

ServerInit == Init /\ RegistryInit /\ part \in {"messages", "sessions"}

\* Clients that all failed to connect have nothing more to do.
NobodyConnected ==
    /\ \A c \in Caller : conn[c].state = "failed"
    /\ \A s \in Sid : store[s] = {}
    /\ UNCHANGED <<part, vars, rvars>>

ServerNext ==
    \/ part = "messages" /\ Next /\ UNCHANGED <<part, rvars>>
    \/ part = "sessions" /\ RegistryNext /\ UNCHANGED <<part, vars>>
    \/ part = "sessions" /\ NobodyConnected

ServerSpec == ServerInit /\ [][ServerNext]_<<part, vars, rvars>> /\ Fairness
=============================================================================
