------------------------------- MODULE MCChat -------------------------------
(* Small instances of Chat and ChatView, as two parts of one state graph: API
   clients that start requests of every kind side by side, and one page of the
   web client, which sends one message after the other. *)
EXTENDS ChatView

CONSTANT Parts \* which of "clients" and "page"

VARIABLE part

Init == ViewInit /\ part \in Parts

Next ==
    \/ part = "clients" /\ ChatNext /\ UNCHANGED <<view, part>>
    \/ part = "page" /\ ViewNext /\ UNCHANGED part

vars == <<viewVars, part>>
Spec == Init /\ [][Next]_vars

\* The type invariant of both.
TypeOK == ChatTypeOK /\ ViewTypeOK
=============================================================================
