------------------------------ MODULE Mailbox ------------------------------
(***************************************************************************)
(* What the messenger promises the two parties, as an abstract             *)
(* specification: a table of values under keys.  A value put under a key   *)
(* replaces the one that was there, a reader is handed the value that is   *)
(* under its key at that moment, reading does not remove it, and values    *)
(* may be lost (their time to live is over).  Module Messenger implements  *)
(* this specification; module Session is built on it.                      *)
(***************************************************************************)
CONSTANTS Key,     \* what PrimaryKey identifies: (sid, topic, src, dst, seq)
          Val,     \* encoded messages
          NoVal,   \* no message
          Reader   \* who asks the messenger for values

VARIABLES box,     \* the stored messages: a function on the keys that have one
          seen     \* seen[r]: the value r was handed last, NoVal if none

mailboxVars == <<box, seen>>

Stored == DOMAIN box

MailboxTypeOK ==
    /\ Stored \subseteq Key
    /\ box \in [Stored -> Val]
    /\ seen \in [Reader -> Val \cup {NoVal}]

MailboxInit ==
    /\ box = [k \in {} |-> NoVal]
    /\ seen = [r \in Reader |-> NoVal]

\* f with v under k.
With(f, k, v) == [i \in DOMAIN f \cup {k} |-> IF i = k THEN v ELSE f[i]]

Put(k, v) ==
    /\ box' = With(box, k, v)
    /\ UNCHANGED seen

\* Several values can be lost at one instant.
Lose(K) ==
    /\ box' = [i \in Stored \ K |-> box[i]]
    /\ UNCHANGED seen

\* A reader starts a new request.
Ask(r) ==
    /\ seen' = [seen EXCEPT ![r] = NoVal]
    /\ UNCHANGED box

Fetch(r, k) ==
    /\ k \in Stored
    /\ seen' = [seen EXCEPT ![r] = box[k]]
    /\ UNCHANGED box

MailboxNext ==
    \/ \E k \in Key, v \in Val : Put(k, v)
    \/ \E K \in SUBSET Stored : Lose(K)
    \/ \E r \in Reader : Ask(r) \/ \E k \in Stored : Fetch(r, k)

MailboxSpec == MailboxInit /\ [][MailboxNext]_mailboxVars
=============================================================================
