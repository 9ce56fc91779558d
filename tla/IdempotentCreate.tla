-------------------------- MODULE IdempotentCreate --------------------------
(***************************************************************************)
(* What an idempotency key promises: the first request with a key creates  *)
(* a row, and every request with that key that is answered, then or later, *)
(* is answered with that row.                                              *)
(***************************************************************************)

CONSTANTS Clients, Keys, Rows, NoAnswer

VARIABLES
    named,  \* the pairs <<key, row>> created so far
    answer  \* the pair each client was last answered with

vars == <<named, answer>>

Init ==
    /\ named = {}
    /\ answer = [c \in Clients |-> NoAnswer]

Create(k, r) ==
    /\ \A p \in named : p[1] # k /\ p[2] # r
    /\ named' = named \union {<<k, r>>}
    /\ UNCHANGED answer

Answer(c) ==
    /\ \E p \in named : answer' = [answer EXCEPT ![c] = p]
    /\ UNCHANGED named

\* The client asks again (with or without a key), or its request fails.
Forget(c) ==
    /\ answer' = [answer EXCEPT ![c] = NoAnswer]
    /\ UNCHANGED named

Next ==
    \/ \E k \in Keys, r \in Rows : Create(k, r)
    \/ \E c \in Clients : Answer(c) \/ Forget(c)

Spec == Init /\ [][Next]_vars

\* All clients answered for one key were answered with one row.
SameAnswer ==
    \A b, c \in Clients :
        (/\ answer[b] # NoAnswer
         /\ answer[c] # NoAnswer
         /\ answer[b][1] = answer[c][1])
        => answer[b] = answer[c]
=============================================================================
