----------------------- MODULE IdempotentCreateProofs -----------------------
(***************************************************************************)
(* What a client may conclude from IdempotentCreate, and so from every     *)
(* component that implements it.                                           *)
(***************************************************************************)
EXTENDS IdempotentCreate, TLAPS

\* No key names two rows, and a client is only answered with what exists.
KeysAreUnique == \A p, q \in named : p[1] = q[1] => p = q

AnswersExist == \A c \in Clients : answer[c] # NoAnswer => answer[c] \in named

CreateInv ==
    /\ DOMAIN answer = Clients
    /\ KeysAreUnique
    /\ AnswersExist

\* All requests answered for one idempotency key were answered with one row:
\* what clients that repeat their requests rely on.
THEOREM AnswersAgree == Spec => []SameAnswer
  <1>1. Init => CreateInv
    BY DEF Init, CreateInv, KeysAreUnique, AnswersExist
  <1>2. CreateInv /\ [Next]_vars => CreateInv'
    <2> SUFFICES ASSUME CreateInv, [Next]_vars PROVE CreateInv'
      OBVIOUS
    <2>1. ASSUME NEW k \in Keys, NEW r \in Rows, Create(k, r) PROVE CreateInv'
      <3>1. KeysAreUnique'
        BY <2>1 DEF CreateInv, KeysAreUnique, Create
      <3>2. AnswersExist'
        BY <2>1 DEF CreateInv, AnswersExist, Create
      <3> QED BY <2>1, <3>1, <3>2 DEF CreateInv, Create
    <2>2. ASSUME NEW c \in Clients, Answer(c) \/ Forget(c) PROVE CreateInv'
      <3>1. PICK p \in named \union {NoAnswer} : answer' = [answer EXCEPT ![c] = p]
        BY <2>2 DEF Answer, Forget
      <3>2. named' = named
        BY <2>2 DEF Answer, Forget
      <3>3. AnswersExist'
        BY <3>1, <3>2 DEF CreateInv, AnswersExist
      <3> QED BY <3>1, <3>2, <3>3 DEF CreateInv, KeysAreUnique
    <2>3. CASE UNCHANGED vars
      BY <2>3 DEF vars, CreateInv, KeysAreUnique, AnswersExist
    <2> QED BY <2>1, <2>2, <2>3 DEF Next
  <1>3. CreateInv => SameAnswer
    BY DEF CreateInv, KeysAreUnique, AnswersExist, SameAnswer
  <1> QED BY <1>1, <1>2, <1>3, PTL DEF Spec
=============================================================================
