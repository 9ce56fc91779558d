------------------------------ MODULE ChatProofs ------------------------------
(***************************************************************************)
(* Theorems about Chat and ChatView, for any number of turns, kinds of     *)
(* request, retries and faults, and every interleaving of the requests.    *)
(***************************************************************************)
EXTENDS MCChat, FiniteSetTheorems, TLAPS

-----------------------------------------------------------------------------
(* Strengthenings *)

\* Between Begin and the response.
Running == {"history", "retrieving", "asking", "calling", "received", "committing"}

\* What the control state of a request says of the rest of it.
Shaped(T) ==
    /\ T.pc = "new" => T = NewTurn
    /\ T.pc = "closed" <=> T.end # "open"
    /\ T.kind = "none" => T.pc = "new" \/ (T.pc = "closed" /\ T.end = "error")
    /\ T.kind = "none" => T.shown = "nothing"
    /\ T.conv = NoConversation <=> T.kind \in {"none", "search"}
    /\ T.kind = "search" => T.pc \in {"retrieving", "replying", "closed"}
    /\ T.pc = "received" => T.kind \in {"answer", "study"}
    /\ T.pc = "replying" => T.kind # "stream"
    /\ T.kind # "stream" => T.shown = IF T.end = "ok" THEN "completed" ELSE "nothing"
    /\ T.kind # "stream" /\ T.pc \in Running \ {"received", "committing"} => T.calls <= MaxRetries

\* What a running request, other than a search, has flushed.
Flushes(T) ==
    T.pc \in Running /\ T.kind # "search" =>
        /\ T.broken => \/ T.pc = "asking" /\ T.kind # "study"
                       \/ T.pc \in {"calling", "received"} /\ T.kind = "study"
        /\ T.pc = "history" \/ (T.pc = "retrieving") \/ (T.pc = "asking" /\ T.kind = "study")
              => "audit" \notin T.flushed /\ ~T.blank
        /\ T.pc \in {"calling", "received", "committing"} /\ ~T.broken =>
              "user" \in T.flushed /\ ("audit" \in T.flushed <=> ~T.blank)
        /\ T.pc = "asking" /\ T.kind # "study" /\ ~T.broken =>
              ("audit" \in T.flushed <=> ~T.blank)
        /\ T.pc = "retrieving" /\ T.kind = "study" => "user" \in T.flushed
        /\ "assistant" \in T.flushed <=>
              IF T.kind = "stream" THEN T.shown = "completed" ELSE T.pc = "committing"
        /\ "usage" \in T.flushed <=> "assistant" \in T.flushed /\ T.kind # "study"
        /\ T.kind = "stream" /\ T.shown # "nothing" => T.pc \in {"calling", "committing"}

\* The store has no row of a turn.
NothingStored(t) == (\A m \in messages : m.turn # t) /\ t \notin usage /\ t \notin audits

\* What the store has of a turn.
Linked(t, T) ==
    /\ T.pc \in Running /\ T.kind # "search" /\ ~T.broken =>
          "conversation" \in T.flushed \/ T.conv \in conversations
    /\ T.pc \notin {"replying", "closed"} \/ T.end = "error" \/ T.kind = "search"
          => NothingStored(t)
    /\ T.pc = "replying" /\ T.kind # "search" => Has(t, "user") /\ Has(t, "assistant")
    /\ T.end = "ok" /\ T.kind # "search" =>
          Has(t, "user") /\ (Has(t, "assistant") <=> T.shown = "completed")

\* The rows of the store, and of the turn that each belongs to.
Whole(m, T) ==
    /\ m.conv \in conversations /\ m.conv = T.conv
    /\ m.turn \in audits <=> ~T.blank
    /\ m.role = "assistant" =>
          /\ [m EXCEPT !.role = "user"] \in messages
          /\ (m.turn \in usage) = (T.kind # "study")

StoreTyped ==
    /\ conversations \subseteq Conversations
    /\ messages \subseteq Message
    /\ usage \subseteq Turns
    /\ audits \subseteq Turns
    /\ turns \in [Turns -> TurnState]

CountsTyped ==
    /\ generations \in [Turns -> 0..1]
    /\ chatFaults \in 0..MaxChatFaults

TurnsShaped == \A t \in Turns : Shaped(turns[t]) /\ Flushes(turns[t])
TurnsLinked == \A t \in Turns : Linked(t, turns[t])
MessagesWhole == \A m \in messages : Whole(m, turns[m.turn])

ChatInv ==
    /\ StoreTyped
    /\ CountsTyped
    /\ TurnsShaped
    /\ TurnsLinked
    /\ MessagesWhole

-----------------------------------------------------------------------------
(* Steps that leave the store alone *)

\* Such a step keeps the invariant if the turn that takes it does.
LEMMA QuietStep ==
    ASSUME ChatInv, NEW t \in Turns, NEW new \in TurnState,
           turns' = [turns EXCEPT ![t] = new], UNCHANGED_Store, CountsTyped',
           Shaped(new), Flushes(new), Linked(t, new),
           NothingStored(t) \/ (new.blank = turns[t].blank /\ new.kind = turns[t].kind
                                /\ new.conv = turns[t].conv)
    PROVE  ChatInv'
  <1>1. /\ conversations' = conversations /\ messages' = messages
        /\ usage' = usage /\ audits' = audits
    BY DEF UNCHANGED_Store
  <1>2. turns \in [Turns -> TurnState] /\ messages \subseteq Message
    BY DEF ChatInv, StoreTyped
  <1>3. turns'[t] = new /\ \A u \in Turns \ {t} : turns'[u] = turns[u]
    BY <1>2
  <1>4. StoreTyped'
    BY <1>1, <1>2 DEF ChatInv, StoreTyped
  <1>5. TurnsShaped'
    BY <1>3 DEF ChatInv, TurnsShaped
  <1>6. ASSUME NEW u \in Turns
        PROVE  Linked(u, turns[u])'
    <2>1. Linked(u, turns'[u])
      BY <1>3 DEF ChatInv, TurnsLinked
    <2> QED BY <1>1, <2>1 DEF Linked, Has, NothingStored
  <1>7. ASSUME NEW m \in messages'
        PROVE  Whole(m, turns[m.turn])'
    <2>1. m \in messages /\ m.turn \in Turns
      BY <1>1, <1>2 DEF Message
    <2>2. Whole(m, turns[m.turn])
      BY <2>1 DEF ChatInv, MessagesWhole
    <2>3. CASE m.turn = t
      <3>1. ~ NothingStored(t)
        BY <2>1, <2>3 DEF NothingStored
      <3> QED BY <1>1, <1>3, <2>2, <2>3, <3>1 DEF Whole
    <2>4. CASE m.turn # t
      BY <1>1, <1>3, <2>1, <2>2, <2>4 DEF Whole
    <2> QED BY <2>3, <2>4
  <1> QED BY <1>4, <1>5, <1>6, <1>7 DEF ChatInv, TurnsLinked, MessagesWhole

\* What is known of a request that is running.
LEMMA RunningTurn ==
    ASSUME ChatInv, NEW t \in Turns
    PROVE  /\ turns[t] \in TurnState /\ Shaped(turns[t]) /\ Flushes(turns[t])
           /\ Linked(t, turns[t])
           /\ turns[t].pc \in Running => NothingStored(t)
           /\ turns[t].pc \in Running => turns[t].kind # "none" /\ turns[t].end = "open"
  <1>1. turns[t] \in TurnState /\ Shaped(turns[t]) /\ Flushes(turns[t]) /\ Linked(t, turns[t])
    BY DEF ChatInv, StoreTyped, TurnsShaped, TurnsLinked
  <1>2. turns[t].pc \in Running =>
           turns[t].pc \notin {"new", "replying", "closed"}
    BY DEF Running
  <1> QED BY <1>1, <1>2 DEF Linked, Shaped

\* A request that is running goes on with its conversation, or breaks.
LEMMA RunsOn ==
    ASSUME ChatInv, NEW t \in Turns, turns[t].pc \in Running,
           NEW new \in TurnState, turns' = [turns EXCEPT ![t] = new], UNCHANGED_Store,
           CountsTyped', Shaped(new), Flushes(new),
           new.kind = turns[t].kind, new.conv = turns[t].conv, new.end = "open",
           new.broken \/ (~turns[t].broken /\ turns[t].flushed \subseteq new.flushed),
           new.pc \in Running \/ (new.pc = "replying" /\ new.kind = "search")
    PROVE  ChatInv'
  <1>1. NothingStored(t) /\ Linked(t, turns[t])
    BY RunningTurn
  <1>2. Linked(t, new)
    BY <1>1 DEF Linked, Running
  <1> QED BY <1>1, <1>2, QuietStep

\* What Close makes of a request.
ClosedAs(T, e) == [T EXCEPT !.pc = "closed", !.history = <<>>, !.flushed = {},
                            !.broken = FALSE, !.calls = 0, !.end = e]

\* A closed request has the types of one, and keeps what it was about.
LEMMA ClosedIsTyped ==
    ASSUME ChatAssumption, NEW T \in TurnState, NEW e \in {"error", "lost", "ok"}
    PROVE  /\ ClosedAs(T, e) \in TurnState
           /\ ClosedAs(T, e).pc = "closed" /\ ClosedAs(T, e).end = e
           /\ ClosedAs(T, e).kind = T.kind /\ ClosedAs(T, e).conv = T.conv
           /\ ClosedAs(T, e).blank = T.blank /\ ClosedAs(T, e).shown = T.shown
  <1>1. << >> \in Seq(Message) /\ {} \in SUBSET Row /\ 0 \in 0..(MaxRetries + 1)
        /\ FALSE \in BOOLEAN /\ "closed" \in TurnPc
    BY DEF ChatAssumption, TurnPc
  <1> QED BY <1>1 DEF TurnState, ClosedAs

\* A request that ends without a response, before it has stored anything or after it
\* has committed.
LEMMA ClosesUnanswered ==
    ASSUME ChatAssumption, ChatInv, NEW t \in Turns, NEW e \in {"error", "lost"},
           turns[t].pc # "closed", turns[t].pc = "new" => e = "error",
           turns[t].pc = "replying" => e = "lost",
           Close(t, e), UNCHANGED_Store, CountsTyped'
    PROVE  ChatInv'
  <1> DEFINE new == ClosedAs(turns[t], e)
  <1>1. turns[t] \in TurnState /\ Shaped(turns[t]) /\ Linked(t, turns[t])
    BY RunningTurn
  <1>2. turns' = [turns EXCEPT ![t] = new]
    BY DEF Close, ClosedAs
  <1>3. /\ new \in TurnState
        /\ new.pc = "closed" /\ new.end = e /\ new.kind = turns[t].kind
        /\ new.conv = turns[t].conv /\ new.blank = turns[t].blank /\ new.shown = turns[t].shown
    BY <1>1, ClosedIsTyped
  <1> HIDE DEF new
  <1>4. Shaped(new)
    <2>1. turns[t].end = "open"
      BY <1>1 DEF Shaped
    <2>2. turns[t].pc = "new" => turns[t].kind = "none" /\ turns[t].shown = "nothing"
      BY <1>1 DEF Shaped, NewTurn
    <2> QED BY <1>1, <1>3, <2>1, <2>2 DEF Shaped, Running
  <1>5. Flushes(new)
    BY <1>3 DEF Flushes, Running
  <1>6. Linked(t, new)
    BY <1>1, <1>3 DEF Linked, Running
  <1> QED BY <1>2, <1>3, <1>4, <1>5, <1>6, QuietStep

\* What follows a step, for each kind of request.
LEMMA StepsAre ==
    ASSUME NEW t \in Turns
    PROVE  /\ turns[t].kind \in {"answer", "stream"} =>
                /\ turns[t].pc = "history" => NextStep(t) = "retrieving"
                /\ turns[t].pc = "retrieving" => NextStep(t) = "asking"
                /\ turns[t].pc = "asking" => NextStep(t) = "calling"
           /\ turns[t].kind = "study" =>
                /\ turns[t].pc = "history" => NextStep(t) = "asking"
                /\ turns[t].pc = "asking" => NextStep(t) = "retrieving"
                /\ turns[t].pc = "retrieving" => NextStep(t) = "calling"
           /\ turns[t].kind = "search" =>
                (turns[t].pc = "retrieving" => NextStep(t) = "replying")
  <1>1. CASE turns[t].kind \in {"answer", "stream"}
    <2>1. StepsOf(turns[t].kind) = <<"history", "retrieving", "asking", "calling">>
      BY <1>1 DEF StepsOf
    <2> QED BY <1>1, <2>1 DEF NextStep
  <1>2. CASE turns[t].kind = "study"
    <2>1. StepsOf(turns[t].kind) = <<"history", "asking", "retrieving", "calling">>
      BY <1>2 DEF StepsOf
    <2> QED BY <1>2, <2>1 DEF NextStep
  <1>3. CASE turns[t].kind = "search"
    <2>1. StepsOf(turns[t].kind) = <<"retrieving", "replying">>
      BY <1>3 DEF StepsOf
    <2> QED BY <1>3, <2>1 DEF NextStep
  <1> QED BY <1>1, <1>2, <1>3

-----------------------------------------------------------------------------
(* Before the provider is called *)

\* A turn starts in a conversation that exists, or with one of its own.
LEMMA BeginKeeps ==
    ASSUME ChatAssumption, ChatInv, NEW t \in Turns, NEW kind \in Kinds,
           NEW c \in Conversations \union {NoConversation}, Begin(t, kind, c)
    PROVE  ChatInv'
  <1> DEFINE new == [turns[t] EXCEPT !.pc = StepsOf(kind)[1], !.kind = kind, !.conv = c,
                       !.flushed = IF kind = "search" \/ c \in conversations
                                   THEN {} ELSE {"conversation"}]
  <1>1. turns[t] = NewTurn /\ turns[t] \in TurnState /\ NothingStored(t)
    BY RunningTurn DEF Begin, NextTurn, Shaped, Linked
  <1>2. kind \in {"answer", "stream", "study", "search"}
    BY DEF ChatAssumption
  <1>3. StepsOf(kind)[1] = IF kind = "search" THEN "retrieving" ELSE "history"
    BY <1>2 DEF StepsOf
  <1>4. turns' = [turns EXCEPT ![t] = new]
    BY DEF Begin
  <1>5. /\ new \in TurnState
        /\ new.pc = IF kind = "search" THEN "retrieving" ELSE "history"
        /\ new.kind = kind /\ new.conv = c /\ new.shown = "nothing" /\ new.end = "open"
        /\ new.calls = 0 /\ new.blank = FALSE /\ new.broken = FALSE
        /\ new.flushed = IF kind = "search" \/ c \in conversations THEN {} ELSE {"conversation"}
    <2>1. (IF kind = "search" THEN "retrieving" ELSE "history") \in TurnPc
      BY DEF TurnPc
    <2> DEFINE first == StepsOf(kind)[1]
               opened == IF kind = "search" \/ c \in conversations THEN {} ELSE {"conversation"}
    <2>2. opened \in SUBSET Row /\ first \in TurnPc
      BY <1>3, <2>1 DEF Row
    <2>3. kind \in Kinds \union {"none"} /\ new = [turns[t] EXCEPT !.pc = first, !.kind = kind,
                                                           !.conv = c, !.flushed = opened]
      OBVIOUS
    <2> HIDE DEF first, opened, new
    <2>4. /\ new \in TurnState /\ new.pc = first /\ new.kind = kind /\ new.conv = c
          /\ new.flushed = opened
      BY <1>1, <2>2, <2>3 DEF TurnState
    <2>5. /\ new.shown = "nothing" /\ new.end = "open" /\ new.calls = 0
          /\ new.blank = FALSE /\ new.broken = FALSE
      BY <1>1, <2>3 DEF NewTurn
    <2> QED BY <1>3, <2>4, <2>5 DEF first, opened
  <1> HIDE DEF new
  <1>6. Shaped(new)
    <2>1. kind = "search" <=> c = NoConversation
      BY DEF Begin
    <2> QED BY <1>2, <1>5, <2>1 DEF Shaped, ChatAssumption
  <1>7. Flushes(new)
    BY <1>2, <1>5 DEF Flushes
  <1>8. Linked(t, new)
    BY <1>1, <1>5 DEF Linked
  <1>9. UNCHANGED_Store /\ CountsTyped'
    BY DEF Begin, UNCHANGED_Store, ChatInv, CountsTyped
  <1> QED BY <1>1, <1>4, <1>5, <1>6, <1>7, <1>8, <1>9, QuietStep

\* A fault is counted.
LEMMA FaultsAreCounted ==
    ASSUME ChatAssumption, ChatInv, NEW kind, ChatFault(kind), UNCHANGED generations
    PROVE  CountsTyped'
  BY DEF ChatAssumption, ChatFault, ChatInv, CountsTyped

\* A turn that has no conversation, or no title, stores nothing.
LEMMA RefusalsKeep ==
    ASSUME ChatAssumption, ChatInv, NEW t \in Turns,
           NEW kind, NEW c, ConversationMissing(t, kind, c) \/ TitleMissing(t)
    PROVE  ChatInv'
  <1>1. turns[t].pc = "new" /\ Close(t, "error") /\ UNCHANGED_Store
    BY DEF ConversationMissing, TitleMissing, NextTurn, Fail
  <1>2. CountsTyped'
    BY FaultsAreCounted DEF ConversationMissing, TitleMissing, ChatInv, CountsTyped
  <1> QED BY <1>1, <1>2, ClosesUnanswered

\* The end of a list.
LEMMA LatestIsList ==
    ASSUME ChatAssumption, NEW S, NEW s \in Seq(S)
    PROVE  LET first == IF Len(s) > HistoryLimit THEN Len(s) - HistoryLimit + 1 ELSE 1 IN
           /\ first \in 1..(Len(s) + 1)
           /\ Latest(s) \in Seq(S)
           /\ Len(Latest(s)) = Len(s) - first + 1
           /\ \A i \in 1..Len(Latest(s)) : Latest(s)[i] = s[first + i - 1]
  <1> DEFINE first == IF Len(s) > HistoryLimit THEN Len(s) - HistoryLimit + 1 ELSE 1
  <1>1. Len(s) \in Nat /\ HistoryLimit \in Nat
    BY DEF ChatAssumption
  <1>2. first \in 1..(Len(s) + 1) /\ Latest(s) = SubSeq(s, first, Len(s))
    BY <1>1 DEF Latest
  <1> HIDE DEF first
  <1>3. /\ SubSeq(s, first, Len(s)) \in Seq(S)
        /\ Len(SubSeq(s, first, Len(s))) = Len(s) - first + 1
        /\ \A i \in 1..(Len(s) - first + 1) : SubSeq(s, first, Len(s))[i] = s[first + i - 1]
    BY <1>1, <1>2
  <1>4. /\ first \in 1..(Len(s) + 1)
        /\ Latest(s) \in Seq(S)
        /\ Len(Latest(s)) = Len(s) - first + 1
        /\ \A i \in 1..Len(Latest(s)) : Latest(s)[i] = s[first + i - 1]
    BY <1>2, <1>3
  <1> QED BY <1>4 DEF first

\* There are finitely many messages.
LEMMA MessagesAreFinite ==
    ASSUME ChatAssumption
    PROVE  IsFiniteSet(Message)
  <1> DEFINE D == Turns \X Conversations
             R == {"user", "assistant"}
             f == [q \in D \X R |-> [turn |-> q[1][1], role |-> q[2], conv |-> q[1][2]]]
  <1>1. IsFiniteSet(Turns) /\ IsFiniteSet(Conversations)
    BY FS_Interval DEF ChatAssumption, Turns, Conversations
  <1>2. IsFiniteSet(D) /\ IsFiniteSet(R)
    <2>1. IsFiniteSet({"user"}) /\ IsFiniteSet({"assistant"})
      BY FS_Singleton
    <2>2. R = {"user"} \union {"assistant"}
      OBVIOUS
    <2>3. IsFiniteSet(D)
      BY <1>1, FS_Product
    <2>4. IsFiniteSet({"user"} \union {"assistant"})
      BY <2>1, FS_Union
    <2> HIDE DEF R, D
    <2> QED BY <2>2, <2>3, <2>4, Zenon
  <1>3. IsFiniteSet(D \X R)
    <2> HIDE DEF D, R
    <2> QED BY <1>2, FS_Product
  <1>4. f \in [D \X R -> Message]
    BY DEF Message
  <1>5. ASSUME NEW m \in Message
        PROVE  \E q \in D \X R : f[q] = m
    <2>1. <<<<m.turn, m.conv>>, m.role>> \in D \X R
      BY DEF Message
    <2>2. f[<<<<m.turn, m.conv>>, m.role>>] = m
      BY <2>1 DEF Message
    <2> QED BY <2>1, <2>2
  <1> HIDE DEF f, D, R
  <1>6. f \in Surjection(D \X R, Message)
    BY <1>4, <1>5 DEF Surjection
  <1> QED BY <1>3, <1>6, FS_Surjection

\* A chronology has every message of the conversation once, in the order of the turns.
LEMMA ChronologiesAreLists ==
    ASSUME ChatAssumption, StoreTyped, NEW c, NEW s \in Chronologies(c)
    PROVE  /\ s \in Seq(RowsOf(c)) /\ RowsOf(c) \subseteq Message
           /\ \A m \in RowsOf(c) : \E i \in DOMAIN s : s[i] = m
           /\ \A i, j \in DOMAIN s : i < j => s[i].turn <= s[j].turn
  <1>1. RowsOf(c) \subseteq Message
    BY DEF RowsOf, StoreTyped
  <1>2. IsFiniteSet(RowsOf(c))
    BY <1>1, MessagesAreFinite, FS_Subset
  <1> DEFINE n == Cardinality(RowsOf(c))
             T == {s[i] : i \in 1..n}
  <1>3. n \in Nat
    BY <1>2, FS_CardinalityType
  <1>4. /\ s \in [1..n -> RowsOf(c)] /\ \A i, j \in 1..n : i # j => s[i] # s[j]
        /\ \A i, j \in DOMAIN s : i < j => s[i].turn <= s[j].turn
    BY DEF Chronologies, SetToSeqs
  <1> HIDE DEF n
  <1>5. s \in Surjection(1..n, T) /\ s \in Injection(1..n, T)
    <2>1. s \in [1..n -> T] /\ \A m \in T : \E i \in 1..n : s[i] = m
      BY <1>4
    <2> HIDE DEF T
    <2> QED BY <1>4, <2>1 DEF Surjection, Injection, IsInjective
  <1>6. IsFiniteSet(1..n) /\ Cardinality(1..n) = n
    BY <1>3, FS_Interval
  <1>7. Cardinality(T) = n
    BY <1>5, <1>6, FS_Surjection
  <1>8. T \subseteq RowsOf(c)
    BY <1>4
  <1>9. T = RowsOf(c)
    <2> HIDE DEF T
    <2> QED BY <1>2, <1>7, <1>8, FS_Subset DEF n
  <1>10. s \in Seq(RowsOf(c))
    BY <1>3, <1>4
  <1> QED BY <1>1, <1>4, <1>9, <1>10

\* A history that is read changes nothing else.
LEMMA ReadHistoryKeeps ==
    ASSUME ChatAssumption, ChatInv, NEW t \in Turns, ReadHistory(t)
    PROVE  ChatInv'
  <1>1. PICK s \in Chronologies(turns[t].conv) :
          turns' = [turns EXCEPT ![t].history = Latest(s), ![t].pc = NextStep(t)]
    BY DEF ReadHistory
  <1>2. turns[t].pc = "history" /\ turns[t].pc \in Running
    BY DEF ReadHistory, Running
  <1>3. /\ turns[t] \in TurnState /\ Shaped(turns[t]) /\ Flushes(turns[t])
        /\ turns[t].kind \notin {"none", "search"} /\ turns[t].end = "open"
        /\ turns[t].kind \in Kinds
    BY <1>2, RunningTurn DEF Shaped, TurnState
  <1>4. turns[t].kind \in {"answer", "stream", "study"}
    BY <1>3 DEF ChatAssumption
  <1>5. Latest(s) \in Seq(Message)
    BY ChronologiesAreLists, LatestIsList DEF ChatInv
  <1>6. NextStep(t) = IF turns[t].kind = "study" THEN "asking" ELSE "retrieving"
    BY <1>2, <1>4, StepsAre
  <1> DEFINE new == [turns[t] EXCEPT !.history = Latest(s), !.pc = NextStep(t)]
  <1>7. turns' = [turns EXCEPT ![t] = new]
    BY <1>1 DEF ChatInv, StoreTyped
  <1>8. /\ new \in TurnState /\ new.pc = NextStep(t) /\ new.kind = turns[t].kind
        /\ new.conv = turns[t].conv /\ new.blank = turns[t].blank
        /\ new.broken = turns[t].broken /\ new.flushed = turns[t].flushed
        /\ new.calls = turns[t].calls /\ new.shown = turns[t].shown /\ new.end = turns[t].end
    BY <1>3, <1>5, <1>6 DEF TurnState, TurnPc
  <1> HIDE DEF new
  <1>9. Shaped(new) /\ Flushes(new)
    BY <1>2, <1>3, <1>4, <1>6, <1>8 DEF Shaped, Flushes, Running
  <1>10. UNCHANGED_Store /\ CountsTyped'
    BY DEF ReadHistory, ChatInv, CountsTyped
  <1>11. ~ turns[t].broken /\ new.pc \in Running
    BY <1>2, <1>3, <1>6, <1>8 DEF Flushes, Running
  <1> QED BY <1>2, <1>3, <1>7, <1>8, <1>9, <1>10, <1>11, RunsOn

\* What a request that runs on keeps, and what it may set.
SameBut(T, new) ==
    /\ new.kind = T.kind /\ new.conv = T.conv /\ new.end = T.end

\* A search that succeeds flushes its audit row; one that has nothing to search for
\* does not; and when the row cannot be flushed the session breaks.
LEMMA RetrieveKeeps ==
    ASSUME ChatAssumption, ChatInv, NEW t \in Turns, Retrieve(t)
    PROVE  ChatInv'
  <1>1. turns[t].pc = "retrieving" /\ turns[t].pc \in Running /\ UNCHANGED_Store
    BY DEF Retrieve, Running
  <1>2. /\ turns[t] \in TurnState /\ Shaped(turns[t]) /\ Flushes(turns[t])
        /\ turns[t].kind \in Kinds /\ turns[t].end = "open"
        /\ turns \in [Turns -> TurnState]
    BY <1>1, RunningTurn DEF TurnState, ChatInv, StoreTyped
  <1>3. turns[t].kind \in {"answer", "stream", "study", "search"}
    BY <1>2 DEF ChatAssumption
  <1>4. NextStep(t) = CASE turns[t].kind = "study" -> "calling"
                        [] turns[t].kind = "search" -> "replying"
                        [] OTHER -> "asking"
    BY <1>1, <1>3, StepsAre
  <1>5. CountsTyped'
    BY FaultsAreCounted DEF Retrieve, ChatInv, CountsTyped
  <1>6. CASE turns' = [turns EXCEPT ![t].flushed = @ \union {"audit"}, ![t].pc = NextStep(t)]
    <2> DEFINE new == [turns[t] EXCEPT !.flushed = @ \union {"audit"}, !.pc = NextStep(t)]
    <2>1. turns' = [turns EXCEPT ![t] = new]
      BY <1>2, <1>6
    <2>2. /\ new \in TurnState /\ new.pc = NextStep(t) /\ SameBut(turns[t], new)
          /\ new.flushed = turns[t].flushed \union {"audit"} /\ new.blank = turns[t].blank
          /\ new.broken = turns[t].broken
          /\ new.calls = turns[t].calls /\ new.shown = turns[t].shown
      BY <1>2, <1>3, <1>4 DEF TurnState, TurnPc, Row, SameBut
    <2> HIDE DEF new
    <2>3. Shaped(new)
      BY <1>1, <1>2, <1>3, <1>4, <2>2 DEF Shaped, Running, SameBut
    <2>4. Flushes(new)
      BY <1>1, <1>2, <1>3, <1>4, <2>2 DEF Flushes, Running, SameBut
    <2>5. CASE turns[t].kind = "search"
      <3>1. new.pc = "replying" /\ new.kind = "search"
        BY <1>4, <2>2, <2>5 DEF SameBut
      <3>2. Linked(t, new)
        BY <1>1, <3>1, RunningTurn, <1>2, <2>2 DEF Linked, Running, SameBut
      <3> QED BY <1>1, <1>5, <2>1, <2>2, <2>3, <2>4, <3>2, QuietStep, RunningTurn
    <2>6. CASE turns[t].kind # "search"
      <3>1. ~ turns[t].broken /\ new.pc \in Running
        BY <1>1, <1>2, <1>3, <1>4, <2>2, <2>6 DEF Flushes, Running
      <3> QED BY <1>1, <1>2, <1>5, <2>1, <2>2, <2>3, <2>4, <3>1, RunsOn DEF SameBut
    <2> QED BY <2>5, <2>6
  <1>7. CASE turns' = [turns EXCEPT ![t].blank = TRUE, ![t].pc = NextStep(t)]
    <2> DEFINE new == [turns[t] EXCEPT !.blank = TRUE, !.pc = NextStep(t)]
    <2>1. turns' = [turns EXCEPT ![t] = new]
      BY <1>2, <1>7
    <2>2. /\ new \in TurnState /\ new.pc = NextStep(t) /\ SameBut(turns[t], new)
          /\ new.flushed = turns[t].flushed /\ new.blank = TRUE
          /\ new.broken = turns[t].broken
          /\ new.calls = turns[t].calls /\ new.shown = turns[t].shown
      BY <1>2, <1>3, <1>4 DEF TurnState, TurnPc, Row, SameBut
    <2> HIDE DEF new
    <2>3. Shaped(new)
      BY <1>1, <1>2, <1>3, <1>4, <2>2 DEF Shaped, Running, SameBut
    <2>4. Flushes(new)
      BY <1>1, <1>2, <1>3, <1>4, <2>2 DEF Flushes, Running, SameBut
    <2>5. CASE turns[t].kind = "search"
      <3>1. new.pc = "replying" /\ new.kind = "search"
        BY <1>4, <2>2, <2>5 DEF SameBut
      <3>2. Linked(t, new)
        BY <1>1, <3>1, RunningTurn, <1>2, <2>2 DEF Linked, Running, SameBut
      <3> QED BY <1>1, <1>5, <2>1, <2>2, <2>3, <2>4, <3>2, QuietStep, RunningTurn
    <2>6. CASE turns[t].kind # "search"
      <3>1. ~ turns[t].broken /\ new.pc \in Running
        BY <1>1, <1>2, <1>3, <1>4, <2>2, <2>6 DEF Flushes, Running
      <3> QED BY <1>1, <1>2, <1>5, <2>1, <2>2, <2>3, <2>4, <3>1, RunsOn DEF SameBut
    <2> QED BY <2>5, <2>6
  <1>8. CASE turns' = [turns EXCEPT ![t].broken = TRUE, ![t].flushed = {}, ![t].pc = NextStep(t)]
    <2> DEFINE new == [turns[t] EXCEPT !.broken = TRUE, !.flushed = {}, !.pc = NextStep(t)]
    <2>1. turns' = [turns EXCEPT ![t] = new]
      BY <1>2, <1>8
    <2>2. /\ new \in TurnState /\ new.pc = NextStep(t) /\ SameBut(turns[t], new)
          /\ new.flushed = {} /\ new.blank = turns[t].blank /\ new.broken = TRUE
          /\ new.calls = turns[t].calls /\ new.shown = turns[t].shown
      BY <1>2, <1>3, <1>4 DEF TurnState, TurnPc, Row, SameBut
    <2> HIDE DEF new
    <2>3. Shaped(new)
      BY <1>1, <1>2, <1>3, <1>4, <2>2 DEF Shaped, Running, SameBut
    <2>4. Flushes(new)
      BY <1>1, <1>2, <1>3, <1>4, <2>2 DEF Flushes, Running, SameBut
    <2>5. new.pc \in Running \/ (new.pc = "replying" /\ new.kind = "search")
      BY <1>3, <1>4, <2>2 DEF Running, SameBut
    <2> QED BY <1>1, <1>2, <1>5, <2>1, <2>2, <2>3, <2>4, <2>5, RunsOn DEF SameBut
  <1>9. CASE Fail(t)
    BY <1>1, <1>5, <1>9, ClosesUnanswered DEF Fail
  <1> QED BY <1>6, <1>7, <1>8, <1>9 DEF Retrieve

\* The question is flushed, unless the session is broken.
LEMMA AskKeeps ==
    ASSUME ChatAssumption, ChatInv, NEW t \in Turns, Ask(t)
    PROVE  ChatInv'
  <1>1. turns[t].pc = "asking" /\ turns[t].pc \in Running /\ UNCHANGED_Store /\ CountsTyped'
    BY DEF Ask, Running, ChatInv, CountsTyped
  <1>2. /\ turns[t] \in TurnState /\ Shaped(turns[t]) /\ Flushes(turns[t])
        /\ turns[t].kind \in Kinds /\ turns[t].end = "open"
        /\ turns \in [Turns -> TurnState] /\ turns[t].kind # "search"
    BY <1>1, RunningTurn DEF TurnState, ChatInv, StoreTyped, Shaped
  <1>3. turns[t].kind \in {"answer", "stream", "study"}
    BY <1>2 DEF ChatAssumption
  <1>4. NextStep(t) = IF turns[t].kind = "study" THEN "retrieving" ELSE "calling"
    BY <1>1, <1>3, StepsAre
  <1>5. CASE ~turns[t].broken
             /\ turns' = [turns EXCEPT ![t].flushed = @ \union {"user"}, ![t].pc = NextStep(t)]
    <2> DEFINE new == [turns[t] EXCEPT !.flushed = @ \union {"user"}, !.pc = NextStep(t)]
    <2>1. turns' = [turns EXCEPT ![t] = new]
      BY <1>2, <1>5
    <2>2. /\ new \in TurnState /\ new.pc = NextStep(t) /\ SameBut(turns[t], new)
          /\ new.flushed = turns[t].flushed \union {"user"} /\ new.blank = turns[t].blank
          /\ new.broken = turns[t].broken
          /\ new.calls = turns[t].calls /\ new.shown = turns[t].shown
      BY <1>2, <1>3, <1>4 DEF TurnState, TurnPc, Row, SameBut
    <2> HIDE DEF new
    <2>3. Shaped(new)
      BY <1>1, <1>2, <1>3, <1>4, <2>2 DEF Shaped, Running, SameBut
    <2>4. Flushes(new)
      BY <1>1, <1>2, <1>3, <1>4, <1>5, <2>2 DEF Flushes, Running, SameBut
    <2>5. new.pc \in Running
      BY <1>4, <2>2 DEF Running
    <2> QED BY <1>1, <1>2, <1>5, <2>1, <2>2, <2>3, <2>4, <2>5, RunsOn DEF SameBut
  <1>6. CASE Fail(t)
    BY <1>1, <1>6, ClosesUnanswered DEF Fail
  <1> QED BY <1>5, <1>6 DEF Ask

-----------------------------------------------------------------------------
(* The provider *)

\* Whether the provider has generated an answer is counted, once.
LEMMA GenerationsAreCounted ==
    ASSUME ChatInv, NEW t \in Turns, Generate(t) \/ UNCHANGED generations, UNCHANGED chatFaults
    PROVE  CountsTyped'
  BY DEF Generate, ChatInv, CountsTyped

\* What is known of a request that calls the provider.
LEMMA CallingTurn ==
    ASSUME ChatAssumption, ChatInv, NEW t \in Turns, turns[t].pc = "calling"
    PROVE  /\ turns[t].pc \in Running /\ turns \in [Turns -> TurnState]
           /\ turns[t] \in TurnState /\ Shaped(turns[t]) /\ Flushes(turns[t])
           /\ turns[t].kind \in {"answer", "stream", "study"} /\ turns[t].end = "open"
           /\ turns[t].kind # "study" => ~ turns[t].broken
           /\ turns[t].kind # "stream" => turns[t].calls <= MaxRetries
  <1>1. turns[t].pc \in Running
    BY DEF Running
  <1>2. /\ turns[t] \in TurnState /\ Shaped(turns[t]) /\ Flushes(turns[t])
        /\ turns[t].kind \in Kinds /\ turns[t].end = "open"
        /\ turns \in [Turns -> TurnState] /\ turns[t].kind # "search"
    BY <1>1, RunningTurn DEF TurnState, ChatInv, StoreTyped, Shaped
  <1>3. turns[t].kind \in {"answer", "stream", "study"}
    BY <1>2 DEF ChatAssumption
  <1> QED BY <1>1, <1>2, <1>3 DEF Shaped, Flushes, Running

\* A call that succeeds, and one that is repeated.
LEMMA CallsKeep ==
    ASSUME ChatAssumption, ChatInv, NEW t \in Turns, CallSucceeds(t) \/ CallRetried(t)
    PROVE  ChatInv'
  <1>1. Calling(t) /\ UNCHANGED_Store /\ CountsTyped'
    BY GenerationsAreCounted DEF CallSucceeds, CallRetried
  <1>2. turns[t].pc = "calling" /\ turns[t].kind \in {"answer", "study"}
    BY <1>1 DEF Calling
  <1>3. /\ turns[t].pc \in Running /\ turns \in [Turns -> TurnState]
        /\ turns[t] \in TurnState /\ Shaped(turns[t]) /\ Flushes(turns[t])
        /\ turns[t].end = "open" /\ turns[t].calls <= MaxRetries
        /\ turns[t].calls \in Nat /\ MaxRetries \in Nat
    BY <1>2, CallingTurn DEF TurnState, ChatAssumption
  <1>4. PICK p \in {"calling", "received"} :
          /\ p = "calling" => turns[t].calls < MaxRetries
          /\ turns' = [turns EXCEPT ![t] = [turns[t] EXCEPT !.pc = p, !.calls = @ + 1]]
    <2>1. CASE CallSucceeds(t)
      BY <1>3, <2>1 DEF CallSucceeds
    <2>2. CASE CallRetried(t)
      <3>1. [turns[t] EXCEPT !.pc = "calling", !.calls = @ + 1]
            = [turns[t] EXCEPT !.calls = @ + 1]
        BY <1>2, <1>3 DEF TurnState
      <3>2. turns' = [turns EXCEPT ![t] = [turns[t] EXCEPT !.calls = @ + 1]]
        BY <1>3, <2>2 DEF CallRetried
      <3> QED BY <2>2, <3>1, <3>2 DEF CallRetried
    <2> QED BY <2>1, <2>2
  <1> DEFINE new == [turns[t] EXCEPT !.pc = p, !.calls = @ + 1]
  <1>5. turns[t].calls + 1 \in 0..(MaxRetries + 1) /\ p \in TurnPc
    BY <1>3 DEF TurnPc
  <1>6. /\ new \in TurnState /\ new.pc = p /\ SameBut(turns[t], new)
        /\ new.flushed = turns[t].flushed /\ new.blank = turns[t].blank
        /\ new.broken = turns[t].broken
        /\ new.calls = turns[t].calls + 1 /\ new.shown = turns[t].shown
    BY <1>3, <1>5 DEF TurnState, SameBut
  <1>7. turns' = [turns EXCEPT ![t] = new]
    BY <1>4
  <1> HIDE DEF new
  <1>8. Shaped(new)
    BY <1>2, <1>3, <1>4, <1>6 DEF Shaped, Running, SameBut
  <1>9. Flushes(new)
    BY <1>2, <1>3, <1>6 DEF Flushes, Running, SameBut
  <1>10. new.pc \in Running
    BY <1>6 DEF Running
  <1>11. new.broken \/ (~turns[t].broken /\ turns[t].flushed \subseteq new.flushed)
    BY <1>3, <1>6 DEF TurnState
  <1> QED BY <1>1, <1>3, <1>6, <1>7, <1>8, <1>9, <1>10, <1>11, RunsOn DEF SameBut

\* Events of a stream, and its end.
LEMMA StreamKeeps ==
    ASSUME ChatAssumption, ChatInv, NEW t \in Turns,
           Delta(t) \/ Completed(t) \/ Unfinished(t) \/ StreamEnds(t)
    PROVE  ChatInv'
  <1>1. Streaming(t) /\ UNCHANGED_Store /\ CountsTyped'
    BY GenerationsAreCounted DEF Delta, Completed, Unfinished, StreamEnds
  <1>2. turns[t].pc = "calling" /\ turns[t].kind = "stream"
    BY <1>1 DEF Streaming
  <1>3. /\ turns[t].pc \in Running /\ turns \in [Turns -> TurnState]
        /\ turns[t] \in TurnState /\ Shaped(turns[t]) /\ Flushes(turns[t])
        /\ turns[t].end = "open" /\ ~ turns[t].broken
    BY <1>2, CallingTurn
  <1>4. PICK p \in {"calling", "committing"}, shown \in {"nothing", "partial", "completed",
             "unfinished"}, more \in {{}, {"assistant", "usage"}} :
          /\ shown = "completed" /\ turns[t].shown # "completed" <=> more # {}
          /\ turns[t].shown \in {"completed", "unfinished"} => shown = turns[t].shown
          /\ turns' = [turns EXCEPT ![t] =
               [turns[t] EXCEPT !.pc = p, !.shown = shown, !.calls = 1,
                                !.flushed = @ \union more]]
    <2> DEFINE with(p, shown, more) ==
                 [turns[t] EXCEPT !.pc = p, !.shown = shown, !.calls = 1,
                                  !.flushed = @ \union more]
    <2>1. CASE Delta(t)
      <3>1. with("calling", "partial", {}) = [turns[t] EXCEPT !.shown = "partial", !.calls = 1]
        BY <1>2, <1>3 DEF TurnState
      <3>2. turns' = [turns EXCEPT ![t] = with("calling", "partial", {})]
        BY <1>3, <2>1, <3>1 DEF Delta
      <3> QED BY <2>1, <3>2 DEF Delta, Unended
    <2>2. CASE Completed(t)
      <3>1. with("calling", "completed", {"assistant", "usage"})
            = [turns[t] EXCEPT !.shown = "completed", !.calls = 1,
                               !.flushed = @ \union {"assistant", "usage"}]
        BY <1>2, <1>3 DEF TurnState
      <3>2. turns' = [turns EXCEPT ![t] = with("calling", "completed", {"assistant", "usage"})]
        BY <1>3, <2>2, <3>1 DEF Completed
      <3> QED BY <2>2, <3>2 DEF Completed, Unended
    <2>3. CASE Unfinished(t)
      <3>1. with("calling", "unfinished", {})
            = [turns[t] EXCEPT !.shown = "unfinished", !.calls = 1]
        BY <1>2, <1>3 DEF TurnState
      <3>2. turns' = [turns EXCEPT ![t] = with("calling", "unfinished", {})]
        BY <1>3, <2>3, <3>1 DEF Unfinished
      <3> QED BY <2>3, <3>2 DEF Unfinished, Unended
    <2>4. CASE StreamEnds(t)
      <3>1. with("committing", turns[t].shown, {})
            = [turns[t] EXCEPT !.pc = "committing", !.calls = 1]
        BY <1>2, <1>3 DEF TurnState
      <3>2. turns' = [turns EXCEPT ![t] = with("committing", turns[t].shown, {})]
        BY <1>3, <2>4, <3>1 DEF StreamEnds
      <3>3. turns[t].shown \in {"nothing", "partial", "completed", "unfinished"}
        BY <1>3 DEF TurnState
      <3> QED BY <3>2, <3>3
    <2> QED BY <2>1, <2>2, <2>3, <2>4
  <1> DEFINE new == [turns[t] EXCEPT !.pc = p, !.shown = shown, !.calls = 1,
                                     !.flushed = @ \union more]
  <1>5. 1 \in 0..(MaxRetries + 1) /\ p \in TurnPc /\ more \subseteq Row
    BY DEF TurnPc, ChatAssumption, Row
  <1>6. /\ new \in TurnState /\ new.pc = p /\ SameBut(turns[t], new)
        /\ new.flushed = turns[t].flushed \union more /\ new.blank = turns[t].blank
        /\ new.broken = turns[t].broken
        /\ new.calls = 1 /\ new.shown = shown
    BY <1>3, <1>5 DEF TurnState, SameBut
  <1>7. turns' = [turns EXCEPT ![t] = new]
    BY <1>4
  <1> HIDE DEF new
  <1>8. Shaped(new)
    BY <1>2, <1>3, <1>4, <1>6 DEF Shaped, Running, SameBut
  <1>9. Flushes(new)
    <2>1. "assistant" \in new.flushed <=> shown = "completed"
      BY <1>2, <1>3, <1>4, <1>6 DEF Flushes, Running
    <2>2. "usage" \in new.flushed <=> "assistant" \in new.flushed
      BY <1>2, <1>3, <1>4, <1>6 DEF Flushes, Running
    <2>3. "user" \in new.flushed /\ ("audit" \in new.flushed <=> ~ new.blank)
      BY <1>2, <1>3, <1>4, <1>6 DEF Flushes, Running
    <2> QED BY <1>2, <1>3, <1>6, <2>1, <2>2, <2>3 DEF Flushes, Running, SameBut
  <1>10. new.pc \in Running
    BY <1>6 DEF Running
  <1> QED BY <1>1, <1>3, <1>6, <1>7, <1>8, <1>9, <1>10, RunsOn DEF SameBut

\* Calls and streams that fail, and clients that go away.
LEMMA BrokenCallsKeep ==
    ASSUME ChatAssumption, ChatInv, NEW t \in Turns,
           CallFails(t) \/ StreamBreaks(t) \/ Disconnect(t)
    PROVE  ChatInv'
  <1>1. turns[t].pc = "calling" /\ UNCHANGED_Store
    BY DEF CallFails, StreamBreaks, Disconnect, Calling, Streaming
  <1>2. CountsTyped'
    BY GenerationsAreCounted DEF CallFails, StreamBreaks, Disconnect
  <1>3. Close(t, "error") \/ Close(t, "lost")
    BY DEF CallFails, StreamBreaks, Disconnect, Fail
  <1> QED BY <1>1, <1>2, <1>3, ClosesUnanswered

-----------------------------------------------------------------------------
(* After the provider has answered *)

\* The answer is flushed, with its usage if it is a chat's.
LEMMA PersistKeeps ==
    ASSUME ChatAssumption, ChatInv, NEW t \in Turns, Persist(t)
    PROVE  ChatInv'
  <1>1. turns[t].pc = "received" /\ turns[t].pc \in Running /\ UNCHANGED_Store /\ CountsTyped'
    BY DEF Persist, Running, ChatInv, CountsTyped
  <1>2. /\ turns[t] \in TurnState /\ Shaped(turns[t]) /\ Flushes(turns[t])
        /\ turns[t].end = "open" /\ turns \in [Turns -> TurnState]
        /\ turns[t].kind \in {"answer", "study"}
    BY <1>1, RunningTurn DEF ChatInv, StoreTyped, Shaped
  <1>3. CASE ~turns[t].broken
             /\ turns' = [turns EXCEPT ![t].pc = "committing", ![t].flushed = @ \union
                  (IF turns[t].kind = "study" THEN {"assistant"} ELSE {"assistant", "usage"})]
    <2> DEFINE more == IF turns[t].kind = "study" THEN {"assistant"} ELSE {"assistant", "usage"}
               new == [turns[t] EXCEPT !.pc = "committing", !.flushed = @ \union more]
    <2>1. turns' = [turns EXCEPT ![t] = new]
      BY <1>2, <1>3
    <2>2. more \subseteq Row /\ "assistant" \in more
          /\ ("usage" \in more <=> turns[t].kind # "study") /\ "user" \notin more
          /\ "audit" \notin more
      BY <1>2 DEF Row
    <2> HIDE DEF more
    <2>3. /\ new \in TurnState /\ new.pc = "committing" /\ SameBut(turns[t], new)
          /\ new.flushed = turns[t].flushed \union more /\ new.blank = turns[t].blank
          /\ new.broken = turns[t].broken
          /\ new.calls = turns[t].calls /\ new.shown = turns[t].shown
      BY <1>2, <2>2 DEF TurnState, TurnPc, SameBut
    <2> HIDE DEF new
    <2>4. Shaped(new)
      BY <1>1, <1>2, <2>3 DEF Shaped, Running, SameBut
    <2>5. Flushes(new)
      BY <1>1, <1>2, <1>3, <2>2, <2>3 DEF Flushes, Running, SameBut
    <2> QED BY <1>1, <1>2, <1>3, <2>1, <2>3, <2>4, <2>5, RunsOn DEF SameBut, Running
  <1>4. CASE Fail(t)
    BY <1>1, <1>4, ClosesUnanswered DEF Fail
  <1> QED BY <1>3, <1>4 DEF Persist

\* The rows of a turn, where before there was none of them.
LEMMA CommitKeeps ==
    ASSUME ChatAssumption, ChatInv, NEW t \in Turns, Commit(t)
    PROVE  ChatInv'
  <1> DEFINE T == turns[t]
             new == IF T.kind = "stream" THEN ClosedAs(T, "ok")
                    ELSE [T EXCEPT !.pc = "replying", !.flushed = {}]
  <1>1. T.pc = "committing" /\ T.pc \in Running /\ CommitRows(t)
    BY DEF Commit, Running
  <1>2. /\ T \in TurnState /\ Shaped(T) /\ Flushes(T) /\ T.end = "open"
        /\ turns \in [Turns -> TurnState] /\ T.kind \notin {"none", "search"}
        /\ Linked(t, T) /\ NothingStored(t)
    BY <1>1, RunningTurn DEF ChatInv, StoreTyped, Shaped
  <1>3. /\ ~ T.broken /\ "user" \in T.flushed /\ ("audit" \in T.flushed <=> ~ T.blank)
        /\ "assistant" \in T.flushed <=> (T.kind = "stream" => T.shown = "completed")
        /\ "usage" \in T.flushed <=> "assistant" \in T.flushed /\ T.kind # "study"
        /\ "conversation" \in T.flushed \/ T.conv \in conversations
        /\ T.conv \in Conversations
    <2>1. /\ ~ T.broken /\ "user" \in T.flushed /\ ("audit" \in T.flushed <=> ~ T.blank)
          /\ "assistant" \in T.flushed <=> (T.kind = "stream" => T.shown = "completed")
          /\ "usage" \in T.flushed <=> "assistant" \in T.flushed /\ T.kind # "study"
      BY <1>1, <1>2 DEF Flushes
    <2>2. "conversation" \in T.flushed \/ T.conv \in conversations
      BY <1>1, <1>2, <2>1 DEF Linked
    <2>3. T.conv \in Conversations
      BY <1>2 DEF Shaped, TurnState
    <2> QED BY <2>1, <2>2, <2>3
  <1>4. /\ turns' = [turns EXCEPT ![t] = new] /\ new \in TurnState
        /\ new.kind = T.kind /\ new.conv = T.conv /\ new.blank = T.blank /\ new.shown = T.shown
        /\ T.kind = "stream" => new.pc = "closed" /\ new.end = "ok"
        /\ T.kind # "stream" => new.pc = "replying" /\ new.end = "open"
    <2>1. CASE T.kind = "stream"
      <3>1. turns' = [turns EXCEPT ![t] = ClosedAs(T, "ok")]
        BY <1>2, <2>1 DEF Commit, Close, ClosedAs
      <3> QED BY <1>2, <2>1, <3>1, ClosedIsTyped
    <2>2. CASE T.kind # "stream"
      <3>1. turns' = [turns EXCEPT ![t] = [T EXCEPT !.pc = "replying", !.flushed = {}]]
        BY <1>2, <2>2 DEF Commit
      <3>2. "replying" \in TurnPc /\ {} \in SUBSET Row
        BY DEF TurnPc
      <3> QED BY <1>2, <2>2, <3>1, <3>2 DEF TurnState
    <2> QED BY <2>1, <2>2
  <1> HIDE DEF new
  <1>5. turns'[t] = new /\ \A u \in Turns \ {t} : turns'[u] = turns[u]
    BY <1>2, <1>4
  <1>6. /\ messages' = messages \union Stored(t)
        /\ \A r \in {"user", "assistant"} :
              [turn |-> t, role |-> r, conv |-> T.conv] \in Stored(t) <=> r \in T.flushed
        /\ \A m \in Stored(t) : /\ m.turn = t /\ m.conv = T.conv
                                /\ m.role \in {"user", "assistant"} /\ m.role \in T.flushed
                                /\ m = [turn |-> t, role |-> m.role, conv |-> T.conv]
    <2>1. messages' = messages \union Stored(t)
      BY <1>1 DEF CommitRows
    <2>2. ASSUME NEW r \in {"user", "assistant"}
          PROVE  [turn |-> t, role |-> r, conv |-> T.conv] \in Stored(t) <=> r \in T.flushed
      BY <2>2 DEF Stored
    <2>3. ASSUME NEW m \in Stored(t)
          PROVE  /\ m.turn = t /\ m.conv = T.conv
                 /\ m.role \in {"user", "assistant"} /\ m.role \in T.flushed
                 /\ m = [turn |-> t, role |-> m.role, conv |-> T.conv]
      BY <2>3 DEF Stored
    <2> QED BY <2>1, <2>2, <2>3
  <1>7. /\ conversations \subseteq conversations' /\ T.conv \in conversations'
        /\ conversations' \subseteq Conversations
    BY <1>1, <1>3 DEF CommitRows, ChatInv, StoreTyped
  <1>8. /\ \A u \in Turns \ {t} : (u \in usage' <=> u \in usage) /\ (u \in audits' <=> u \in audits)
        /\ t \in usage' <=> "usage" \in T.flushed
        /\ t \in audits' <=> "audit" \in T.flushed
        /\ usage' \subseteq Turns /\ audits' \subseteq Turns
    BY <1>1, <1>2 DEF CommitRows, Flushed, NothingStored, ChatInv, StoreTyped
  <1>9. messages' \subseteq Message
    BY <1>3, <1>6 DEF Message, ChatInv, StoreTyped
  <1>10. StoreTyped' /\ CountsTyped'
    BY <1>2, <1>4, <1>7, <1>8, <1>9 DEF StoreTyped, Commit, ChatInv, CountsTyped
  <1>11. TurnsShaped'
    <2>1. Shaped(new)
      BY <1>1, <1>2, <1>4 DEF Shaped, Running
    <2>2. Flushes(new)
      BY <1>4 DEF Flushes, Running
    <2> QED BY <1>5, <2>1, <2>2 DEF ChatInv, TurnsShaped
  <1>12. ASSUME NEW u \in Turns \ {t}
         PROVE  Linked(u, turns[u])'
    <2>1. Linked(u, turns[u]) /\ turns'[u] = turns[u]
      BY <1>5 DEF ChatInv, TurnsLinked
    <2>2. NothingStored(u) => NothingStored(u)'
      BY <1>6, <1>8 DEF NothingStored
    <2>3. \A role : Has(u, role)' <=> Has(u, role)
      BY <1>6 DEF Has
    <2> QED BY <1>7, <2>1, <2>2, <2>3 DEF Linked
  <1>13. Linked(t, turns[t])'
    <2>1. Has(t, "user")' /\ (Has(t, "assistant")' <=> "assistant" \in T.flushed)
      <3>1. [turn |-> t, role |-> "user", conv |-> T.conv] \in messages'
        BY <1>3, <1>6
      <3>2. "assistant" \in T.flushed =>
               [turn |-> t, role |-> "assistant", conv |-> T.conv] \in messages'
        BY <1>6
      <3>3. Has(t, "assistant")' => "assistant" \in T.flushed
        BY <1>2, <1>6 DEF Has, NothingStored
      <3> QED BY <3>1, <3>2, <3>3 DEF Has
    <2> QED BY <1>2, <1>3, <1>4, <1>5, <2>1 DEF Linked, Running
  <1>14. ASSUME NEW m \in messages'
         PROVE  Whole(m, turns[m.turn])'
    <2>1. CASE m \in messages
      <3>1. m.turn # t /\ m.turn \in Turns
        BY <1>2, <2>1 DEF NothingStored, ChatInv, StoreTyped, Message
      <3>2. Whole(m, turns[m.turn]) /\ turns'[m.turn] = turns[m.turn]
        BY <1>5, <2>1, <3>1 DEF ChatInv, MessagesWhole
      <3> QED BY <1>6, <1>7, <1>8, <3>1, <3>2 DEF Whole
    <2>2. CASE m \in Stored(t)
      <3>1. m = [turn |-> t, role |-> m.role, conv |-> T.conv] /\ m.role \in T.flushed
            /\ m.turn = t /\ m.conv = T.conv
        BY <1>6, <2>2
      <3>2. [m EXCEPT !.role = "user"] = [turn |-> t, role |-> "user", conv |-> T.conv]
        BY <3>1
      <3>3. [m EXCEPT !.role = "user"] \in messages'
        BY <1>3, <1>6, <3>2
      <3> QED BY <1>3, <1>4, <1>5, <1>7, <1>8, <3>1, <3>3 DEF Whole
    <2> QED BY <1>6, <2>1, <2>2
  <1>15. TurnsLinked' /\ MessagesWhole'
    BY <1>12, <1>13, <1>14 DEF TurnsLinked, MessagesWhole
  <1> QED BY <1>10, <1>11, <1>15 DEF ChatInv

\* A commit that fails stores nothing, and a process that dies no more than it has.
LEMMA CutsKeep ==
    ASSUME ChatAssumption, ChatInv, NEW t \in Turns, CommitFails(t) \/ CrashTurn(t)
    PROVE  ChatInv'
  <1>1. turns[t].pc \notin {"new", "closed"} /\ UNCHANGED_Store /\ CountsTyped'
    BY FaultsAreCounted DEF CommitFails, CrashTurn
  <1>2. Close(t, "lost") \/ (Close(t, "error") /\ turns[t].pc = "committing")
    BY DEF CommitFails, CrashTurn, Fail
  <1> QED BY <1>1, <1>2, ClosesUnanswered

\* The response says what has been committed.
LEMMA ReplyKeeps ==
    ASSUME ChatAssumption, ChatInv, NEW t \in Turns, Reply(t)
    PROVE  ChatInv'
  <1> DEFINE new == [turns[t] EXCEPT !.pc = "closed", !.history = <<>>, !.flushed = {},
                       !.broken = FALSE, !.calls = 0, !.shown = "completed", !.end = "ok"]
  <1>1. turns[t].pc = "replying" /\ UNCHANGED_Store /\ CountsTyped'
        /\ turns' = [turns EXCEPT ![t] = new]
    BY DEF Reply, ChatInv, CountsTyped
  <1>2. turns[t] \in TurnState /\ Shaped(turns[t]) /\ Linked(t, turns[t])
    BY RunningTurn
  <1>3. << >> \in Seq(Message) /\ {} \in SUBSET Row /\ 0 \in 0..(MaxRetries + 1)
        /\ FALSE \in BOOLEAN /\ "closed" \in TurnPc
    BY DEF ChatAssumption, TurnPc
  <1>4. /\ new \in TurnState /\ new.pc = "closed" /\ new.end = "ok" /\ new.shown = "completed"
        /\ new.kind = turns[t].kind /\ new.conv = turns[t].conv /\ new.blank = turns[t].blank
    BY <1>2, <1>3 DEF TurnState
  <1> HIDE DEF new
  <1>5. Shaped(new)
    BY <1>1, <1>2, <1>4 DEF Shaped, Running
  <1>6. Flushes(new)
    BY <1>4 DEF Flushes, Running
  <1>7. Linked(t, new)
    BY <1>1, <1>2, <1>4 DEF Linked, Running
  <1> QED BY <1>1, <1>4, <1>5, <1>6, <1>7, QuietStep

-----------------------------------------------------------------------------
(* The invariant *)

\* Nothing has been asked.
LEMMA ChatStarts ==
    ASSUME ChatAssumption, ChatInit
    PROVE  ChatInv
  <1>1. NewTurn \in TurnState
    <2>1. << >> \in Seq(Message) /\ {} \in SUBSET Row /\ 0 \in 0..(MaxRetries + 1)
          /\ FALSE \in BOOLEAN /\ "new" \in TurnPc
      BY DEF ChatAssumption, TurnPc
    <2> QED BY <2>1 DEF NewTurn, TurnState
  <1>2. \A t \in Turns : turns[t] = NewTurn
    BY DEF ChatInit
  <1>3. StoreTyped /\ CountsTyped
    BY <1>1 DEF ChatInit, StoreTyped, CountsTyped, ChatAssumption
  <1>4. Shaped(NewTurn) /\ Flushes(NewTurn)
    BY DEF Shaped, Flushes, NewTurn, Running, ChatAssumption
  <1>5. \A t \in Turns : Linked(t, NewTurn)
    BY DEF Linked, NewTurn, Running, ChatInit, NothingStored
  <1>6. MessagesWhole
    BY DEF ChatInit, MessagesWhole
  <1> QED BY <1>2, <1>3, <1>4, <1>5, <1>6 DEF ChatInv, TurnsShaped, TurnsLinked

\* The steps of a request after it has begun.
Goes(t) == TurnStep(t) \/ Disconnect(t) \/ CommitFails(t) \/ CrashTurn(t)

\* One lemma for each of them.
LEMMA GoingKeeps ==
    ASSUME ChatAssumption, ChatInv, NEW t \in Turns, Goes(t)
    PROVE  ChatInv'
  <1>1. CASE ReadHistory(t) \/ Retrieve(t) \/ Ask(t)
    BY <1>1, ReadHistoryKeeps, RetrieveKeeps, AskKeeps
  <1>2. CASE CallSucceeds(t) \/ CallRetried(t) \/ CallFails(t)
    BY <1>2, CallsKeep, BrokenCallsKeep
  <1>3. CASE Delta(t) \/ Completed(t) \/ Unfinished(t) \/ StreamEnds(t) \/ StreamBreaks(t)
             \/ Disconnect(t)
    BY <1>3, StreamKeeps, BrokenCallsKeep
  <1>4. CASE Persist(t) \/ Commit(t) \/ Reply(t) \/ CommitFails(t) \/ CrashTurn(t)
    BY <1>4, PersistKeeps, CommitKeeps, ReplyKeeps, CutsKeep
  <1> QED BY <1>1, <1>2, <1>3, <1>4 DEF Goes, TurnStep

\* Every step, and none.
LEMMA ChatStepKeeps ==
    ASSUME ChatAssumption, ChatInv, [ChatNext]_chatVars
    PROVE  ChatInv'
  <1>1. CASE UNCHANGED chatVars
    BY <1>1 DEF chatVars, ChatInv, StoreTyped, CountsTyped, TurnsShaped, TurnsLinked, MessagesWhole,
       Linked, NothingStored, Has, Whole
  <1>2. ASSUME NEW t \in Turns, NEW kind \in Kinds, NEW c \in Conversations \union {NoConversation},
               Begin(t, kind, c) \/ ConversationMissing(t, kind, c)
        PROVE  ChatInv'
    BY <1>2, BeginKeeps, RefusalsKeep
  <1>3. ASSUME NEW t \in Turns, TitleMissing(t) \/ Goes(t)
        PROVE  ChatInv'
    BY <1>3, RefusalsKeep, GoingKeeps
  <1> QED BY <1>1, <1>2, <1>3 DEF ChatNext, Goes

\* What is invariant of the turns and the store.
THEOREM TurnsAreConsistent == ChatSpec => []ChatInv
  <1>1. ChatInit => ChatInv
    BY ChatAssumption, ChatStarts
  <1>2. ChatInv /\ [ChatNext]_chatVars => ChatInv'
    BY ChatAssumption, ChatStepKeeps
  <1> QED BY <1>1, <1>2, PTL DEF ChatSpec

\* What follows from the invariant.
LEMMA WhatConsistencyMeans ==
    ASSUME ChatInv
    PROVE  ChatTypeOK /\ TurnsAreWhole /\ EndsAsStored /\ GeneratedOnce
  <1>1. ChatTypeOK
    BY DEF ChatInv, StoreTyped, CountsTyped, ChatTypeOK
  <1>2. TurnsAreWhole
    BY DEF ChatInv, MessagesWhole, Whole, TurnsAreWhole
  <1>3. ASSUME NEW t \in Turns
        PROVE  /\ turns[t].end = "ok" /\ turns[t].kind # "search" =>
                    Has(t, "user") /\ (Has(t, "assistant") <=> turns[t].shown = "completed")
               /\ turns[t].end = "error" =>
                    ~Has(t, "user") /\ ~Has(t, "assistant") /\ t \notin usage \union audits
    BY DEF ChatInv, TurnsLinked, Linked, NothingStored, Has
  <1>4. GeneratedOnce
    BY DEF ChatInv, CountsTyped, GeneratedOnce
  <1> QED BY <1>1, <1>2, <1>3, <1>4 DEF EndsAsStored

\* However requests interleave, fail and are cut off, no part of a turn is stored
\* without the rest of it.
THEOREM TurnsAreAlwaysWhole == ChatSpec => []TurnsAreWhole
  <1>1. ChatInv => TurnsAreWhole
    BY WhatConsistencyMeans
  <1> QED BY <1>1, TurnsAreConsistent, PTL

\* Whatever a client was told of its request, the store agrees with.
THEOREM TurnsAlwaysEndAsStored == ChatSpec => []EndsAsStored
  <1>1. ChatInv => EndsAsStored
    BY WhatConsistencyMeans
  <1> QED BY <1>1, TurnsAreConsistent, PTL

\* No number of repeated requests has a second answer generated.
THEOREM AnswersAreGeneratedOnce == ChatSpec => []GeneratedOnce
  <1>1. ChatInv => GeneratedOnce
    BY WhatConsistencyMeans
  <1> QED BY <1>1, TurnsAreConsistent, PTL

-----------------------------------------------------------------------------
(* What a step does to the requests *)

\* The fields of a request that has begun which a later step may not change.
KeepsSubject(T, new) ==
    /\ new.kind = T.kind /\ new.conv = T.conv
    /\ T.shown \in {"completed", "unfinished"} => new.shown = T.shown
    /\ new.pc # "new"

\* A request that is open changes only itself, and never what it is about.
LEMMA GoingMoves ==
    ASSUME ChatAssumption, ChatInv, NEW t \in Turns, Goes(t)
    PROVE  /\ turns[t].pc \notin {"new", "closed"}
           /\ \A u \in Turns \ {t} : turns'[u] = turns[u]
           /\ KeepsSubject(turns[t], turns'[t])
           /\ messages \subseteq messages' /\ conversations \subseteq conversations'
           /\ conversations' \subseteq conversations \union {turns[t].conv}
  <1> DEFINE T == turns[t]
  <1>1. T \in TurnState /\ Shaped(T) /\ turns \in [Turns -> TurnState]
    BY RunningTurn DEF ChatInv, StoreTyped
  <1>2. /\ T.pc = "history" => NextStep(t) # "new"
        /\ T.pc = "retrieving" => NextStep(t) # "new"
        /\ T.pc = "asking" => NextStep(t) # "new"
    <2>1. T.kind \in {"answer", "stream", "study", "search", "none"}
      BY <1>1 DEF TurnState, ChatAssumption
    <2> QED BY <1>1, <2>1, StepsAre DEF Shaped
  <1>3. ASSUME NEW e \in {"error", "lost", "ok"}, Close(t, e)
        PROVE  /\ \A u \in Turns \ {t} : turns'[u] = turns[u]
               /\ KeepsSubject(T, turns'[t])
    <2>1. turns' = [turns EXCEPT ![t] = ClosedAs(T, e)]
      BY <1>3 DEF Close, ClosedAs
    <2> QED BY <1>1, <2>1, ClosedIsTyped DEF KeepsSubject
  <1>4. CASE ReadHistory(t) \/ Ask(t)
    <2>1. CASE Fail(t)
      BY <1>3, <1>4, <2>1 DEF Fail, ReadHistory, Ask, UNCHANGED_Store
    <2>2. CASE ReadHistory(t)
      <3>1. PICK h : turns' = [turns EXCEPT ![t] = [T EXCEPT !.history = h, !.pc = NextStep(t)]]
        <4>1. PICK s : turns' = [turns EXCEPT ![t].history = Latest(s), ![t].pc = NextStep(t)]
          BY <2>2 DEF ReadHistory
        <4>2. turns' = [turns EXCEPT ![t] = [T EXCEPT !.history = Latest(s), !.pc = NextStep(t)]]
          BY <1>1, <4>1
        <4> QED BY <4>2
      <3>2. T.pc = "history" /\ UNCHANGED_Store
        BY <2>2 DEF ReadHistory
      <3> QED BY <1>1, <1>2, <3>1, <3>2 DEF UNCHANGED_Store, KeepsSubject, TurnState
    <2>3. CASE Ask(t) /\ ~ Fail(t)
      BY <1>1, <1>2, <2>3 DEF Ask, UNCHANGED_Store, KeepsSubject, TurnState
    <2> QED BY <1>4, <2>1, <2>2, <2>3
  <1>5. CASE Retrieve(t)
    <2>1. CASE Fail(t)
      BY <1>3, <1>5, <2>1 DEF Fail, Retrieve, UNCHANGED_Store
    <2>2. CASE ~ Fail(t)
      BY <1>1, <1>2, <1>5, <2>2 DEF Retrieve, UNCHANGED_Store, KeepsSubject, TurnState
    <2> QED BY <2>1, <2>2
  <1>6. CASE CallSucceeds(t) \/ CallRetried(t)
    BY <1>1, <1>6 DEF CallSucceeds, CallRetried, Calling, UNCHANGED_Store, KeepsSubject, TurnState
  <1>7. CASE Delta(t) \/ Completed(t) \/ Unfinished(t) \/ StreamEnds(t)
    BY <1>1, <1>7 DEF Delta, Completed, Unfinished, StreamEnds, Streaming, Unended,
       UNCHANGED_Store, KeepsSubject, TurnState
  <1>8. CASE CallFails(t) \/ StreamBreaks(t) \/ Disconnect(t) \/ CommitFails(t) \/ CrashTurn(t)
    <2>1. PICK e \in {"error", "lost", "ok"} : Close(t, e)
      BY <1>8 DEF CallFails, StreamBreaks, Disconnect, CommitFails, CrashTurn, Fail
    <2> QED BY <1>3, <1>8, <2>1 DEF CallFails, StreamBreaks, Disconnect, CommitFails, CrashTurn,
               Calling, Streaming, UNCHANGED_Store
  <1>9. CASE Persist(t)
    <2>1. CASE Fail(t)
      BY <1>3, <1>9, <2>1 DEF Fail, Persist, UNCHANGED_Store
    <2>2. CASE ~ Fail(t)
      BY <1>1, <1>9, <2>2 DEF Persist, UNCHANGED_Store, KeepsSubject, TurnState
    <2> QED BY <2>1, <2>2
  <1>10. CASE Commit(t)
    <2>1. CASE Close(t, "ok")
      BY <1>3, <1>10, <2>1 DEF Commit, CommitRows
    <2>2. CASE ~ Close(t, "ok")
      BY <1>1, <1>10, <2>2 DEF Commit, CommitRows, KeepsSubject, TurnState
    <2> QED BY <2>1, <2>2
  <1>11. CASE Reply(t)
    <2>1. T.pc = "replying" /\ T.shown = "nothing"
      BY <1>1, <1>11 DEF Reply, Shaped
    <2> QED BY <1>1, <1>11, <2>1 DEF Reply, UNCHANGED_Store, KeepsSubject, TurnState
  <1> QED
    BY <1>4, <1>5, <1>6, <1>7, <1>8, <1>9, <1>10, <1>11 DEF Goes, TurnStep

\* A request that has not begun changes only itself, when it begins or is refused.
LEMMA StartingMoves ==
    ASSUME ChatAssumption, ChatInv, NEW t \in Turns, NEW kind, NEW c,
           Begin(t, kind, c) \/ ConversationMissing(t, kind, c) \/ TitleMissing(t)
    PROVE  /\ NextTurn(t) /\ turns[t] = NewTurn
           /\ \A u \in Turns \ {t} : turns'[u] = turns[u]
           /\ turns'[t].pc # "new"
           /\ UNCHANGED_Store
  <1>1. turns[t] \in TurnState /\ Shaped(turns[t]) /\ turns \in [Turns -> TurnState]
    BY RunningTurn DEF ChatInv, StoreTyped
  <1>2. NextTurn(t) /\ turns[t] = NewTurn /\ UNCHANGED_Store
    BY <1>1 DEF Begin, ConversationMissing, TitleMissing, NextTurn, Shaped, UNCHANGED_Store
  <1>3. StepsOf(kind)[1] # "new"
    BY DEF StepsOf
  <1>4. CASE Begin(t, kind, c)
    <2> DEFINE first == StepsOf(kind)[1]
               opened == IF kind = "search" \/ c \in conversations THEN {} ELSE {"conversation"}
    <2>1. turns' = [turns EXCEPT ![t] = [turns[t] EXCEPT !.pc = first, !.kind = kind, !.conv = c,
                                                         !.flushed = opened]]
      BY <1>4 DEF Begin
    <2> HIDE DEF first, opened
    <2>2. [turns[t] EXCEPT !.pc = first, !.kind = kind, !.conv = c, !.flushed = opened].pc = first
      BY <1>1 DEF TurnState
    <2> QED BY <1>1, <1>2, <1>3, <2>1, <2>2 DEF first
  <1>5. CASE Close(t, "error")
    <2>1. turns' = [turns EXCEPT ![t] = ClosedAs(turns[t], "error")]
      BY <1>5 DEF Close, ClosedAs
    <2>2. ClosedAs(turns[t], "error").pc = "closed"
      BY <1>1, ClosedIsTyped
    <2> QED BY <1>1, <1>2, <2>1, <2>2
  <1> QED BY <1>2, <1>4, <1>5 DEF ConversationMissing, TitleMissing, Fail

-----------------------------------------------------------------------------
(* What a turn reads of the turns before it *)

\* A history has the turns one after the other, and the latest of them.
Recent(h, c) ==
    /\ \A i, j, k \in DOMAIN h :
          i < j /\ j < k /\ h[i].turn = h[k].turn => h[j].turn = h[i].turn
    /\ \A m \in RowsOf(c) \ {h[i] : i \in DOMAIN h} :
          \A i \in DOMAIN h : m.turn <= h[i].turn

\* The end of a chronology is such a history.
LEMMA LatestIsRecent ==
    ASSUME ChatAssumption, StoreTyped, NEW c, NEW s \in Chronologies(c)
    PROVE  Recent(Latest(s), c)
  <1> DEFINE first == IF Len(s) > HistoryLimit THEN Len(s) - HistoryLimit + 1 ELSE 1
             h == Latest(s)
  <1>1. /\ s \in Seq(RowsOf(c)) /\ RowsOf(c) \subseteq Message
        /\ \A m \in RowsOf(c) : \E i \in DOMAIN s : s[i] = m
        /\ \A i, j \in DOMAIN s : i < j => s[i].turn <= s[j].turn
    BY ChronologiesAreLists
  <1>2. /\ first \in 1..(Len(s) + 1)
        /\ h \in Seq(RowsOf(c))
        /\ Len(h) = Len(s) - first + 1
        /\ \A i \in 1..Len(h) : h[i] = s[first + i - 1]
    BY <1>1, LatestIsList
  <1> HIDE DEF first, h
  <1>3. /\ DOMAIN s = 1..Len(s) /\ DOMAIN h = 1..Len(h) /\ Len(s) \in Nat /\ Len(h) \in Nat
        /\ first \in Nat
    BY <1>1, <1>2
  <1>4. \A i \in DOMAIN h : first + i - 1 \in DOMAIN s /\ h[i] = s[first + i - 1]
    BY <1>2, <1>3
  <1>5. \A i \in DOMAIN s : s[i].turn \in Int
    <2>1. \A m \in Message : m.turn \in Int
      BY DEF Message, Turns
    <2>2. \A i \in DOMAIN s : s[i] \in Message
      BY <1>1, <1>3
    <2> QED BY <2>1, <2>2
  <1>6. ASSUME NEW i \in DOMAIN h, NEW j \in DOMAIN h, NEW k \in DOMAIN h,
               i < j, j < k, h[i].turn = h[k].turn
        PROVE  h[j].turn = h[i].turn
    <2>1. first + i - 1 < first + j - 1 /\ first + j - 1 < first + k - 1
      BY <1>3, <1>6
    <2>2. h[i].turn <= h[j].turn /\ h[j].turn <= h[k].turn
      BY <1>1, <1>4, <2>1
    <2>3. h[i].turn \in Int /\ h[j].turn \in Int
      BY <1>4, <1>5
    <2> QED BY <1>6, <2>2, <2>3
  <1>7. ASSUME NEW m \in RowsOf(c) \ {h[i] : i \in DOMAIN h}, NEW i \in DOMAIN h
        PROVE  m.turn <= h[i].turn
    <2>1. PICK a \in DOMAIN s : s[a] = m
      BY <1>1
    <2>2. a < first
      <3> SUFFICES ASSUME ~ (a < first)
                   PROVE  FALSE
        OBVIOUS
      <3>1. a - first + 1 \in DOMAIN h /\ first + (a - first + 1) - 1 = a
        BY <1>2, <1>3
      <3>2. h[a - first + 1] = m
        BY <1>4, <2>1, <3>1
      <3> QED BY <3>1, <3>2
    <2>3. a < first + i - 1
      BY <1>3, <2>2
    <2> QED BY <1>1, <1>4, <2>1, <2>3
  <1>8. Recent(h, c)
    BY <1>6, <1>7 DEF Recent
  <1> QED BY <1>8 DEF h

\* Whatever else happens between the turns of a conversation: a history never mixes
\* turns, and leaves out only what is older than all it has.
THEOREM HistoriesAreAlwaysRecent == ChatSpec => HistoryIsRecent
  <1> DEFINE A == \A t \in Turns :
          turns[t].pc = "history" /\ turns'[t].pc \in {"retrieving", "asking"} =>
              LET h == turns'[t].history IN
              /\ \A i, j, k \in DOMAIN h :
                    i < j /\ j < k /\ h[i].turn = h[k].turn => h[j].turn = h[i].turn
              /\ \A m \in RowsOf(turns[t].conv) \ {h[i] : i \in DOMAIN h} :
                    \A i \in DOMAIN h : m.turn <= h[i].turn
  <1>1. ChatInv /\ [ChatNext]_chatVars => [A]_turns
    <2> SUFFICES ASSUME ChatInv, ChatNext, NEW t \in Turns, turns[t].pc = "history",
                        turns'[t].pc \in {"retrieving", "asking"}
                 PROVE  Recent(turns'[t].history, turns[t].conv)
      BY DEF chatVars, Recent
    <2>1. PICK u \in Turns :
            \/ \E kind \in Kinds, c \in Conversations \union {NoConversation} :
                  Begin(u, kind, c) \/ ConversationMissing(u, kind, c)
            \/ TitleMissing(u)
            \/ Goes(u)
      BY DEF ChatNext, Goes
    <2>2. CASE Goes(u)
      <3>1. u = t
        BY <2>2, GoingMoves, ChatAssumption
      <3>2. turns[t] \in TurnState /\ turns \in [Turns -> TurnState]
        BY RunningTurn DEF ChatInv, StoreTyped
      <3>3. ~ CrashTurn(t)
        <4> SUFFICES ASSUME CrashTurn(t)
                     PROVE  FALSE
          OBVIOUS
        <4>1. turns' = [turns EXCEPT ![t] = ClosedAs(turns[t], "lost")]
          BY DEF CrashTurn, Close, ClosedAs
        <4>2. turns'[t].pc = "closed"
          BY <3>2, <4>1, ClosedIsTyped, ChatAssumption
        <4> QED BY <4>2
      <3>4. ReadHistory(t)
        BY <2>2, <3>1, <3>3 DEF Goes, TurnStep, Retrieve, Ask, CallSucceeds, CallRetried, CallFails,
           Delta, Completed, Unfinished, StreamEnds, StreamBreaks, Disconnect, Persist, Commit,
           CommitFails, Reply, Calling, Streaming
      <3>5. PICK s \in Chronologies(turns[t].conv) :
              turns' = [turns EXCEPT ![t].history = Latest(s), ![t].pc = NextStep(t)]
        BY <3>4 DEF ReadHistory
      <3>6. turns' = [turns EXCEPT ![t] = [turns[t] EXCEPT !.history = Latest(s),
                                                           !.pc = NextStep(t)]]
        BY <3>2, <3>5
      <3>7. turns'[t].history = Latest(s)
        BY <3>2, <3>6 DEF TurnState
      <3> QED BY <3>7, LatestIsRecent, ChatAssumption DEF ChatInv
    <2>3. CASE ~ Goes(u)
      <3>1. turns[u] = NewTurn /\ \A v \in Turns \ {u} : turns'[v] = turns[v]
        BY <2>1, <2>3, StartingMoves, ChatAssumption
      <3>2. u # t
        BY <3>1 DEF NewTurn
      <3> QED BY <3>1, <3>2
    <2> QED BY <2>2, <2>3
  <1> QED BY <1>1, TurnsAreConsistent, PTL DEF ChatSpec, HistoryIsRecent

-----------------------------------------------------------------------------
(* The page *)

\* Requests begin one after the other, each in a conversation of an earlier one or in
\* its own.
TurnsInOrder ==
    /\ \A u, v \in Turns : u < v /\ turns[v].pc # "new" => turns[u].pc # "new"
    /\ \A u \in Turns : turns[u].conv <= u
    /\ \A c \in conversations : \E u \in Turns : turns[u].conv = c /\ turns[u].pc # "new"

\* The page has one request at a time.
PageWaits ==
    /\ view.sending # NoTurn => view.last = view.sending /\ turns[view.sending].pc # "new"
    /\ \A u \in Turns : u # view.sending => turns[u].pc \in {"new", "closed"}

\* After the terminal event the page has what the event said.
FinalIsSeen ==
    view.sawFinal =>
        /\ view.sending # NoTurn
        /\ turns[view.sending].kind = "stream"
        /\ turns[view.sending].shown \in {"completed", "unfinished"}
        /\ view.conversation = turns[view.sending].conv
        /\ view.status = IF turns[view.sending].shown = "completed" THEN "complete"
                         ELSE "incomplete"

\* What is shown as complete is stored.
CompleteIsStored ==
    view.sending = NoTurn /\ view.status = "complete" =>
        Has(view.last, "user") /\ Has(view.last, "assistant")

\* A stream that named its conversation, and did not commit it.
RolledBack(c) ==
    \E t \in Turns : /\ turns[t].conv = c
                     /\ turns[t].shown \in {"completed", "unfinished"}
                     /\ turns[t].end \in {"error", "lost"}

\* The conversation that the page carries is there, or was rolled back, or its first
\* stream is about to end.
PageKnows ==
    \/ view.conversation \in conversations \union {NoConversation}
    \/ RolledBack(view.conversation)
    \/ view.sawFinal

\* The page has asked for a conversation that is not there.
Lost == \E t \in Turns : turns[t].end = "error" /\ turns[t].kind = "none"

\* It stays with it: nothing begins any more.
LostIsOver ==
    Lost =>
        /\ view.conversation \notin conversations \union {NoConversation}
        /\ RolledBack(view.conversation)
        /\ \A u \in Turns : turns[u].pc \in {"new", "closed"}
        /\ view.sending # NoTurn => turns[view.sending].kind = "none"

ViewInv ==
    /\ ViewTypeOK
    /\ TurnsInOrder
    /\ PageWaits
    /\ FinalIsSeen
    /\ CompleteIsStored
    /\ PageKnows
    /\ LostIsOver

\* A conversation that was rolled back stays so: its stream is over.
LEMMA RollbacksStay ==
    ASSUME ChatInv, NEW t \in Turns, turns[t].pc # "closed",
           \A u \in Turns \ {t} : turns'[u] = turns[u],
           NEW c, RolledBack(c)
    PROVE  RolledBack(c)'
  <1>1. PICK u \in Turns : /\ turns[u].conv = c
                           /\ turns[u].shown \in {"completed", "unfinished"}
                           /\ turns[u].end \in {"error", "lost"}
    BY DEF RolledBack
  <1>2. turns[u].pc = "closed"
    BY <1>1, RunningTurn DEF Shaped
  <1>3. turns'[u] = turns[u]
    BY <1>2
  <1> QED BY <1>1, <1>3 DEF RolledBack

\* The server goes on with the request of the page.
LEMMA ServerKeepsView ==
    ASSUME ChatAssumption, ChatInv, ViewInv, NEW t \in Turns, Goes(t), UNCHANGED view
    PROVE  ViewInv'
  <1>1. /\ turns[t].pc \notin {"new", "closed"}
        /\ \A u \in Turns \ {t} : turns'[u] = turns[u]
        /\ KeepsSubject(turns[t], turns'[t])
        /\ conversations \subseteq conversations'
        /\ conversations' \subseteq conversations \union {turns[t].conv}
    BY GoingMoves
  <1>2. t = view.sending /\ t # NoTurn
    BY <1>1 DEF ViewInv, PageWaits, Turns, NoTurn
  <1>3. turns[t].kind # "none"
    BY <1>1, RunningTurn DEF Shaped
  <1>4. \A u \in Turns : /\ turns'[u].kind = turns[u].kind /\ turns'[u].conv = turns[u].conv
                         /\ (turns'[u].pc = "new") = (turns[u].pc = "new")
    BY <1>1 DEF KeepsSubject
  <1>5. TurnsInOrder'
    BY <1>1, <1>4 DEF ViewInv, TurnsInOrder
  <1>6. PageWaits' /\ ViewTypeOK' /\ CompleteIsStored'
    BY <1>1, <1>2, <1>4 DEF ViewInv, PageWaits, ViewTypeOK, CompleteIsStored
  <1>7. FinalIsSeen'
    BY <1>1, <1>2 DEF ViewInv, FinalIsSeen, KeepsSubject
  <1>8. PageKnows'
    <2>1. RolledBack(view.conversation) => RolledBack(view.conversation)'
      BY <1>1, RollbacksStay
    <2> QED BY <1>1, <2>1 DEF ViewInv, PageKnows
  <1>9. ~ Lost'
    <2>1. ~ Lost
      BY <1>1 DEF ViewInv, LostIsOver
    <2> QED BY <1>1, <1>3, <1>4, <2>1 DEF Lost
  <1> QED BY <1>5, <1>6, <1>7, <1>8, <1>9 DEF ViewInv, LostIsOver

\* The page learns of the end of its request, from the event or from the response.
LEMMA PageKeepsView ==
    ASSUME ChatAssumption, ChatInv, ViewInv, PageStep
    PROVE  ViewInv'
  <1>1. UNCHANGED chatVars
    BY DEF PageStep, SeeFinalEvent, AnswerArrives, BodyEnds, BodyEndsEarly, RequestThrows, Settle
  <1>2. turns' = turns /\ conversations' = conversations /\ messages' = messages
    BY <1>1 DEF chatVars
  <1>3. TurnsInOrder'
    BY <1>2 DEF ViewInv, TurnsInOrder
  <1>4. /\ view.sending # NoTurn /\ view.sending \in Turns /\ view.last = view.sending
        /\ view \in ViewState
    BY DEF PageStep, SeeFinalEvent, AnswerArrives, BodyEnds, BodyEndsEarly, RequestThrows, SentIsOver,
       ViewInv, ViewTypeOK, PageWaits, ViewState
  <1> DEFINE sent == turns[view.sending]
  <1>5. sent \in TurnState /\ Shaped(sent) /\ Linked(view.sending, sent)
    BY <1>4, RunningTurn
  <1>6. Lost' = Lost /\ \A c : RolledBack(c)' = RolledBack(c)
    BY <1>2 DEF Lost, RolledBack
  <1>7. CASE SeeFinalEvent
    <2>1. /\ sent.kind = "stream" /\ sent.shown \in {"completed", "unfinished"}
          /\ view' = [view EXCEPT !.sawFinal = TRUE, !.conversation = sent.conv,
                        !.status = IF sent.shown = "completed" THEN "complete" ELSE "incomplete"]
      BY <1>7 DEF SeeFinalEvent, Sent
    <2>2. sent.conv \in Conversations \union {NoConversation}
      BY <1>5 DEF TurnState
    <2>3. /\ view' \in ViewState /\ view'.sending = view.sending /\ view'.last = view.last
          /\ view'.sawFinal = TRUE /\ view'.conversation = sent.conv
          /\ view'.status = IF sent.shown = "completed" THEN "complete" ELSE "incomplete"
      BY <1>4, <2>1, <2>2 DEF ViewState
    <2>4. ~ Lost
      BY <1>4, <2>1 DEF ViewInv, LostIsOver
    <2>5. PageWaits'
      BY <1>2, <2>3 DEF ViewInv, PageWaits
    <2>6. FinalIsSeen'
      BY <1>2, <1>4, <2>1, <2>3 DEF FinalIsSeen
    <2>7. CompleteIsStored' /\ PageKnows' /\ ViewTypeOK'
      BY <1>4, <2>3 DEF CompleteIsStored, PageKnows, ViewTypeOK
    <2> QED BY <1>3, <1>6, <2>4, <2>5, <2>6, <2>7 DEF ViewInv, LostIsOver
  <1>8. CASE ~ SeeFinalEvent
    <2>1. PICK conversation \in {view.conversation, sent.conv, NoConversation},
               status \in {"complete", "incomplete", "failed", view.status} :
            /\ Settle(conversation, status)
            /\ sent.pc = "closed"
            /\ \/ AnswerArrives /\ conversation = sent.conv /\ status = "complete"
               \/ BodyEnds /\ conversation = view.conversation /\ status = view.status
               \/ BodyEndsEarly /\ conversation = NoConversation /\ status = "incomplete"
               \/ RequestThrows /\ conversation = view.conversation /\ status = "failed"
      <3>1. CASE AnswerArrives
        BY <3>1 DEF AnswerArrives, SentIsOver, Sent
      <3>2. CASE BodyEnds
        BY <3>2 DEF BodyEnds, SentIsOver, Sent
      <3>3. CASE BodyEndsEarly
        BY <3>3 DEF BodyEndsEarly, SentIsOver, Sent
      <3>4. CASE RequestThrows
        BY <3>4 DEF RequestThrows, SentIsOver, Sent
      <3> QED BY <1>8, <3>1, <3>2, <3>3, <3>4 DEF PageStep
    <2>2. conversation \in Conversations \union {NoConversation}
          /\ status \in {"none", "streaming", "complete", "incomplete", "failed"}
      BY <1>4, <1>5, <2>1 DEF ViewState, TurnState
    <2>3. /\ view' \in ViewState /\ view'.sending = NoTurn /\ view'.last = view.last
          /\ view'.sawFinal = FALSE /\ view'.conversation = conversation
          /\ view'.status = status
      BY <1>4, <2>1, <2>2 DEF ViewState, Settle
    <2>4. PageWaits' /\ FinalIsSeen' /\ ViewTypeOK'
      BY <1>2, <2>1, <2>3 DEF ViewInv, PageWaits, FinalIsSeen, ViewTypeOK
    <2>5. sent.end = "ok" /\ sent.kind \in {"answer", "stream"} =>
            /\ Has(view.sending, "user") /\ sent.conv \in conversations
            /\ Has(view.sending, "assistant") <=> sent.shown = "completed"
      <3> SUFFICES ASSUME sent.end = "ok", sent.kind \in {"answer", "stream"}
                   PROVE  /\ Has(view.sending, "user") /\ sent.conv \in conversations
                          /\ Has(view.sending, "assistant") <=> sent.shown = "completed"
        OBVIOUS
      <3>1. Has(view.sending, "user") /\ (Has(view.sending, "assistant") <=> sent.shown = "completed")
        BY <1>5 DEF Linked
      <3>2. PICK m \in messages : m.turn = view.sending
        BY <3>1 DEF Has
      <3>3. sent.conv \in conversations
        BY <3>2 DEF ChatInv, MessagesWhole, Whole
      <3> QED BY <3>1, <3>3
    <2>6. CompleteIsStored'
      <3>1. status = "complete" => Has(view.sending, "user") /\ Has(view.sending, "assistant")
        <4>1. CASE AnswerArrives
          <5>1. sent.kind = "answer" /\ sent.end = "ok" /\ sent.shown = "completed"
            BY <1>5, <4>1 DEF AnswerArrives, Sent, Shaped
          <5> QED BY <2>5, <5>1
        <4>2. CASE BodyEnds /\ status = view.status
          <5>1. /\ sent.kind = "stream" /\ sent.end = "ok"
                /\ view.status = IF sent.shown = "completed" THEN "complete" ELSE "incomplete"
            BY <4>2 DEF BodyEnds, Sent, ViewInv, FinalIsSeen
          <5> QED BY <2>5, <4>2, <5>1
        <4> QED BY <2>1, <4>1, <4>2
      <3>2. \A role : Has(view.sending, role) => Has(view.last, role)'
        BY <1>2, <1>4, <2>3 DEF Has
      <3> QED BY <2>3, <3>1, <3>2 DEF CompleteIsStored
    <2>7. PageKnows' /\ LostIsOver'
      <3>1. CASE AnswerArrives /\ conversation = sent.conv
        <4>1. sent.kind = "answer" /\ sent.conv \in conversations
          BY <2>5, <3>1 DEF AnswerArrives, Sent
        <4>2. ~ Lost
          BY <1>4, <4>1 DEF ViewInv, LostIsOver
        <4> QED BY <1>2, <1>6, <2>3, <3>1, <4>1, <4>2 DEF PageKnows, LostIsOver
      <3>2. CASE BodyEnds /\ conversation = view.conversation
        <4>1. sent.kind = "stream" /\ sent.conv \in conversations /\ view.conversation = sent.conv
          BY <2>5, <3>2 DEF BodyEnds, Sent, ViewInv, FinalIsSeen
        <4>2. ~ Lost
          BY <1>4, <4>1 DEF ViewInv, LostIsOver
        <4> QED BY <1>2, <1>6, <2>3, <3>2, <4>1, <4>2 DEF PageKnows, LostIsOver
      <3>3. CASE BodyEndsEarly /\ conversation = NoConversation
        <4>1. sent.kind = "stream"
          BY <3>3 DEF BodyEndsEarly, Sent
        <4>2. ~ Lost
          BY <1>4, <4>1 DEF ViewInv, LostIsOver
        <4> QED BY <1>6, <2>3, <3>3, <4>2 DEF PageKnows, LostIsOver
      <3>4. CASE RequestThrows /\ conversation = view.conversation
        <4>1. view.sawFinal => RolledBack(view.conversation)
          BY <1>4, <3>4 DEF RequestThrows, Sent, ViewInv, FinalIsSeen, RolledBack
        <4>2. PageKnows'
          BY <1>2, <1>6, <2>3, <3>4, <4>1 DEF ViewInv, PageKnows
        <4>3. LostIsOver'
          BY <1>2, <1>6, <2>3, <3>4 DEF ViewInv, LostIsOver
        <4> QED BY <4>2, <4>3
      <3> QED BY <2>1, <3>1, <3>2, <3>3, <3>4
    <2> QED BY <1>3, <2>4, <2>6, <2>7 DEF ViewInv
  <1> QED BY <1>7, <1>8

\* What a request is after it has begun, or was refused.
LEMMA StartsAs ==
    ASSUME ChatAssumption, ChatInv, NEW t \in Turns, NEW kind \in Kinds,
           NEW c \in Conversations \union {NoConversation}
    PROVE  /\ Begin(t, kind, c) => turns'[t].kind = kind /\ turns'[t].conv = c
           /\ ConversationMissing(t, kind, c) => turns'[t] = ClosedAs(NewTurn, "error")
  <1>1. turns[t] \in TurnState /\ turns \in [Turns -> TurnState]
    BY DEF ChatInv, StoreTyped
  <1>2. ASSUME Begin(t, kind, c)
        PROVE  turns'[t].kind = kind /\ turns'[t].conv = c
    <2> DEFINE first == StepsOf(kind)[1]
               opened == IF kind = "search" \/ c \in conversations THEN {} ELSE {"conversation"}
               new == [turns[t] EXCEPT !.pc = first, !.kind = kind, !.conv = c, !.flushed = opened]
    <2>1. turns' = [turns EXCEPT ![t] = new]
      BY <1>2 DEF Begin
    <2> HIDE DEF first, opened
    <2>2. new.kind = kind /\ new.conv = c
      BY <1>1 DEF TurnState
    <2> HIDE DEF new
    <2> QED BY <1>1, <2>1, <2>2
  <1>3. ASSUME ConversationMissing(t, kind, c)
        PROVE  turns'[t] = ClosedAs(NewTurn, "error")
    <2>1. turns' = [turns EXCEPT ![t] = ClosedAs(turns[t], "error")]
      BY <1>3 DEF ConversationMissing, Fail, Close, ClosedAs
    <2>2. turns[t] = NewTurn
      BY <1>3, StartingMoves
    <2> QED BY <1>1, <2>1, <2>2
  <1> QED BY <1>2, <1>3

\* A message that the user sends.
LEMMA SubmitKeepsView ==
    ASSUME ChatAssumption, ChatInv, ViewInv, NEW t \in Turns, NEW kind \in Kinds, Submit(t, kind)
    PROVE  /\ \E c \in Conversations \union {NoConversation} :
                Begin(t, kind, c) \/ ConversationMissing(t, kind, c)
           /\ ViewInv'
  <1> DEFINE c == IF view.conversation = NoConversation THEN t ELSE view.conversation
  <1>1. Begin(t, kind, c) \/ ConversationMissing(t, kind, c)
    BY DEF Submit
  <1>2. /\ view.sending = NoTurn /\ kind \in {"answer", "stream"}
        /\ view' = [view EXCEPT !.sending = t, !.last = t, !.sawFinal = FALSE,
                                !.status = "streaming"]
        /\ view \in ViewState
    BY DEF Submit, MaySend, ViewInv, ViewTypeOK
  <1>3. /\ c \in Conversations \union {NoConversation} /\ c # NoConversation
        /\ c = t \/ c = view.conversation
        /\ view.conversation # NoConversation => c = view.conversation
    BY <1>2 DEF ViewState, Conversations, NoConversation, Turns
  <1> HIDE DEF c
  <1>4. /\ view' \in ViewState /\ view'.sending = t /\ view'.last = t /\ view'.sawFinal = FALSE
        /\ view'.status = "streaming" /\ view'.conversation = view.conversation /\ t # NoTurn
    <2>1. t # NoTurn
      BY DEF NoTurn, Turns
    <2>2. t \in Turns \union {NoTurn} /\ FALSE \in BOOLEAN
          /\ "streaming" \in {"none", "streaming", "complete", "incomplete", "failed"}
      OBVIOUS
    <2> QED BY <1>2, <2>1, <2>2 DEF ViewState
  <1>5. /\ NextTurn(t) /\ turns[t] = NewTurn
        /\ \A u \in Turns \ {t} : turns'[u] = turns[u]
        /\ turns'[t].pc # "new"
        /\ UNCHANGED_Store
    BY <1>1, StartingMoves
  <1>6. /\ \A u \in Turns : u < t => turns[u].pc # "new"
        /\ turns[t].pc = "new" /\ turns[t].kind = "none" /\ turns[t].end = "open"
        /\ conversations' = conversations
    BY <1>5 DEF NextTurn, NewTurn, UNCHANGED_Store
  <1>7. \A u \in Turns : turns[u].conv = t => turns[u].pc = "new"
    <2> SUFFICES ASSUME NEW u \in Turns, turns[u].conv = t, turns[u].pc # "new"
                 PROVE  FALSE
      OBVIOUS
    <2>1. t <= u /\ t # u /\ t \in Int /\ u \in Int
      BY <1>6 DEF ViewInv, TurnsInOrder, Turns
    <2> QED BY <1>6, <2>1 DEF ViewInv, TurnsInOrder
  <1>8. \A u \in Turns : turns[u].pc # "new" => u < t
    BY <1>6 DEF ViewInv, TurnsInOrder, Turns
  <1>9. turns'[t].conv <= t
    <2>1. CASE Begin(t, kind, c)
      <3>1. turns'[t].conv = c /\ (c \in conversations \/ c = t)
        BY <1>3, <2>1, StartsAs DEF Begin
      <3>2. c \in conversations => c <= t
        <4> SUFFICES ASSUME c \in conversations
                     PROVE  c <= t
          OBVIOUS
        <4>1. PICK u \in Turns : turns[u].conv = c /\ turns[u].pc # "new"
          BY DEF ViewInv, TurnsInOrder
        <4>2. c <= u /\ u < t /\ c \in Int /\ u \in Int /\ t \in Int
          BY <1>3, <1>8, <4>1 DEF ViewInv, TurnsInOrder, Turns, Conversations, NoConversation
        <4> QED BY <4>2
      <3> QED BY <3>1, <3>2 DEF Turns
    <2>2. CASE ConversationMissing(t, kind, c)
      <3>1. turns'[t].conv = NoConversation
        BY <1>3, <2>2, StartsAs DEF ClosedAs, NewTurn
      <3> QED BY <3>1 DEF NoConversation, Turns
    <2> QED BY <1>1, <2>1, <2>2
  <1>10. TurnsInOrder'
    <2>1. \A u, v \in Turns : u < v /\ turns'[v].pc # "new" => turns'[u].pc # "new"
      BY <1>5, <1>6 DEF ViewInv, TurnsInOrder
    <2>2. \A u \in Turns : turns'[u].conv <= u
      BY <1>5, <1>9 DEF ViewInv, TurnsInOrder
    <2>3. \A k \in conversations' : \E u \in Turns : turns'[u].conv = k /\ turns'[u].pc # "new"
      BY <1>5, <1>6 DEF ViewInv, TurnsInOrder
    <2> QED BY <2>1, <2>2, <2>3 DEF TurnsInOrder
  <1>11. PageWaits' /\ ViewTypeOK' /\ FinalIsSeen' /\ CompleteIsStored'
    <2>1. ASSUME NEW u \in Turns, u # t
          PROVE  turns'[u].pc \in {"new", "closed"}
      <3>1. u # NoTurn
        BY DEF Turns, NoTurn
      <3> QED BY <1>2, <1>5, <2>1, <3>1 DEF ViewInv, PageWaits
    <2>2. PageWaits'
      BY <1>4, <1>5, <2>1 DEF PageWaits
    <2> QED BY <1>4, <2>2 DEF ViewTypeOK, FinalIsSeen, CompleteIsStored
  <1>12. RolledBack(view.conversation) => RolledBack(view.conversation)'
    <2>1. PICK k : k = view.conversation
      OBVIOUS
    <2>2. RolledBack(k) => RolledBack(k)'
      BY <1>5, <1>6, RollbacksStay
    <2>3. view'.conversation = k
      BY <1>4, <2>1
    <2> QED BY <2>1, <2>2, <2>3 DEF RolledBack
  <1>13. ~ view.sawFinal
    BY <1>2 DEF ViewInv, FinalIsSeen
  <1>14. PageKnows'
    BY <1>4, <1>6, <1>12, <1>13 DEF ViewInv, PageKnows
  <1>15. LostIsOver'
    <2>1. CASE Begin(t, kind, c)
      <3>1. turns'[t].kind # "none"
        BY <1>2, <1>3, <2>1, StartsAs
      <3>2. ~ Lost
        <4> SUFFICES ASSUME Lost
                     PROVE  FALSE
          OBVIOUS
        <4>1. /\ view.conversation \notin conversations \union {NoConversation}
              /\ RolledBack(view.conversation)
          BY DEF ViewInv, LostIsOver
        <4>2. c = view.conversation /\ c = t
          BY <1>3, <2>1, <4>1 DEF Begin
        <4>3. PICK u \in Turns : turns[u].conv = t /\ turns[u].end \in {"error", "lost"}
          BY <4>1, <4>2 DEF RolledBack
        <4>4. turns[u].pc = "closed"
          BY <4>3, RunningTurn DEF Shaped
        <4> QED BY <1>7, <4>3, <4>4
      <3> QED BY <1>5, <3>1, <3>2 DEF LostIsOver, Lost
    <2>2. CASE ConversationMissing(t, kind, c)
      <3>1. turns'[t].pc = "closed" /\ turns'[t].kind = "none"
        BY <1>3, <2>2, StartsAs DEF ClosedAs, NewTurn
      <3>2. PICK u \in Turns : turns[u].conv = c /\ turns[u].kind = "stream"
        BY <2>2 DEF ConversationMissing
      <3>3. turns[u].pc # "new"
        BY <3>2, RunningTurn DEF Shaped, NewTurn
      <3>4. c # t /\ c = view.conversation /\ c \notin conversations
        BY <1>3, <1>7, <2>2, <3>2, <3>3 DEF ConversationMissing
      <3>5. RolledBack(view.conversation)'
        BY <1>3, <1>12, <1>13, <3>4 DEF ViewInv, PageKnows
      <3>6. \A v \in Turns : turns'[v].pc \in {"new", "closed"}
        BY <1>4, <1>11, <3>1 DEF PageWaits
      <3>7. view'.conversation \notin conversations' \union {NoConversation}
        BY <1>3, <1>4, <1>6, <3>4
      <3> QED BY <1>4, <3>1, <3>5, <3>6, <3>7 DEF LostIsOver
    <2> QED BY <1>1, <2>1, <2>2
  <1> QED BY <1>1, <1>3, <1>10, <1>11, <1>14, <1>15 DEF ViewInv

-----------------------------------------------------------------------------
(* The invariant of the page *)

\* The page has been opened.
LEMMA ViewStarts ==
    ASSUME ChatAssumption, ViewInit
    PROVE  ChatInv /\ ViewInv
  <1>1. ChatInit /\ ChatInv
    BY ChatStarts DEF ViewInit
  <1>2. \A u \in Turns : turns[u] = NewTurn
    BY <1>1 DEF ChatInit
  <1>3. /\ view \in ViewState /\ view.conversation = NoConversation /\ view.sending = NoTurn
        /\ ~ view.sawFinal /\ view.status = "none"
    BY DEF ViewInit, ViewState
  <1>4. TurnsInOrder
    BY <1>1, <1>2 DEF TurnsInOrder, NewTurn, NoConversation, Turns, ChatInit
  <1>5. ~ Lost
    BY <1>2 DEF Lost, NewTurn
  <1> QED
    BY <1>1, <1>2, <1>3, <1>4, <1>5 DEF ViewInv, ViewTypeOK, PageWaits, FinalIsSeen,
       CompleteIsStored, PageKnows, LostIsOver, NewTurn

\* What the page does is, for the server, what any client may do.
LEMMA ViewStepIsChatStep ==
    ASSUME ChatAssumption, ChatInv, ViewInv, [ViewNext]_viewVars
    PROVE  [ChatNext]_chatVars /\ ViewInv'
  <1>1. CASE UNCHANGED viewVars
    <2>1. UNCHANGED chatVars /\ view' = view
      BY <1>1 DEF viewVars
    <2>2. UNCHANGED <<conversations, messages, turns>>
      BY <2>1 DEF chatVars
    <2> QED
      BY <2>1, <2>2 DEF ViewInv, ViewTypeOK, TurnsInOrder, PageWaits, FinalIsSeen, CompleteIsStored,
         PageKnows, LostIsOver, Lost, RolledBack, Has
  <1>2. ASSUME NEW t \in Turns, NEW kind \in Kinds, Submit(t, kind)
        PROVE  [ChatNext]_chatVars /\ ViewInv'
    BY <1>2, SubmitKeepsView DEF ChatNext
  <1>3. CASE PageStep
    <2>1. UNCHANGED chatVars
      BY <1>3 DEF PageStep, SeeFinalEvent, AnswerArrives, BodyEnds, BodyEndsEarly, RequestThrows,
         Settle
    <2> QED BY <1>3, <2>1, PageKeepsView
  <1>4. ASSUME NEW t \in Turns, Goes(t), UNCHANGED view
        PROVE  [ChatNext]_chatVars /\ ViewInv'
    BY <1>4, ServerKeepsView DEF ChatNext, Goes
  <1> QED BY <1>1, <1>2, <1>3, <1>4 DEF ViewNext, ServerStep, Goes

\* What is invariant of the page and the server together.
THEOREM PageIsConsistent == ViewSpec => [](ChatInv /\ ViewInv)
  <1>1. ViewInit => ChatInv /\ ViewInv
    BY ChatAssumption, ViewStarts
  <1>2. ChatInv /\ ViewInv /\ [ViewNext]_viewVars => (ChatInv /\ ViewInv)'
    BY ChatAssumption, ViewStepIsChatStep, ChatStepKeeps
  <1> QED BY <1>1, <1>2, PTL DEF ViewSpec

\* The page refines the clients: all that is proved of ChatSpec is true of it.
THEOREM PageIsAClient == ViewSpec => ChatSpec
  <1>1. ViewInit => ChatInit
    BY DEF ViewInit
  <1>2. ChatInv /\ ViewInv /\ [ViewNext]_viewVars => [ChatNext]_chatVars
    BY ChatAssumption, ViewStepIsChatStep
  <1> QED BY <1>1, <1>2, PageIsConsistent, PTL DEF ViewSpec, ChatSpec

\* When nothing is being sent, a message shown as complete is stored with its question,
\* and the conversation that the page carries exists or was rolled back after its name
\* had been sent.
THEOREM ViewAlwaysAgreesWithStore == ViewSpec => []ViewAgreesWithStore
  <1>1. ViewInv => ViewAgreesWithStore
    BY DEF ViewInv, CompleteIsStored, PageKnows, FinalIsSeen, RolledBack, ViewAgreesWithStore
  <1> QED BY <1>1, PageIsConsistent, PTL

\* The page is never told that its conversation is missing while a stream that is to
\* commit it runs: only after one that never did.
THEOREM FollowUpsAreAlwaysFound == ViewSpec => []FollowUpsAreFound
  <1>1. ChatInv /\ ViewInv => FollowUpsAreFound
    <2> SUFFICES ASSUME ChatInv, ViewInv, NEW t \in Turns,
                        turns[t].end = "error", turns[t].kind = "none"
                 PROVE  /\ \A u \in Turns : turns[u].kind # "none" => turns[u].pc = "closed"
                        /\ \E u \in Turns : turns[u].end \in {"error", "lost"}
                                            /\ turns[u].kind = "stream"
      BY DEF FollowUpsAreFound
    <2>1. RolledBack(view.conversation) /\ \A u \in Turns : turns[u].pc \in {"new", "closed"}
      BY DEF ViewInv, LostIsOver, Lost
    <2>2. \A u \in Turns : turns[u].pc = "new" => turns[u].kind = "none"
      BY RunningTurn DEF Shaped, NewTurn
    <2>3. PICK u \in Turns : /\ turns[u].shown \in {"completed", "unfinished"}
                             /\ turns[u].end \in {"error", "lost"}
      BY <2>1 DEF RolledBack
    <2>4. turns[u].kind = "stream"
      BY <2>3, RunningTurn DEF Shaped
    <2> QED BY <2>1, <2>2, <2>3, <2>4
  <1> QED BY <1>1, PageIsConsistent, PTL

\* Clients and page keep every variable in its type.
THEOREM ChatTypeCorrect == Spec => []TypeOK
  <1> DEFINE Inv == ChatInv /\ ViewTypeOK /\ (part = "page" => ViewInv)
  <1>1. Init => Inv
    BY ChatAssumption, ViewStarts DEF Init, ViewInv
  <1>2. Inv /\ [Next]_vars => Inv'
    <2> SUFFICES ASSUME Inv, [Next]_vars
                 PROVE  Inv'
      OBVIOUS
    <2>1. CASE part = "clients" /\ ChatNext /\ UNCHANGED <<view, part>>
      BY <2>1, ChatAssumption, ChatStepKeeps DEF ViewTypeOK
    <2>2. CASE part = "page" /\ ViewNext /\ UNCHANGED part
      <3>1. [ChatNext]_chatVars /\ ViewInv'
        BY <2>2, ChatAssumption, ViewStepIsChatStep
      <3> QED BY <3>1, ChatAssumption, ChatStepKeeps DEF ViewInv
    <2>3. CASE UNCHANGED vars
      <3>1. UNCHANGED viewVars /\ UNCHANGED chatVars /\ part' = part /\ view' = view
        BY <2>3 DEF vars, viewVars
      <3>2. ChatInv'
        BY <3>1, ChatAssumption, ChatStepKeeps
      <3>3. part = "page" => ViewInv'
        BY <3>1, ChatAssumption, ViewStepIsChatStep
      <3> QED BY <3>1, <3>2, <3>3 DEF ViewTypeOK
    <2> QED BY <2>1, <2>2, <2>3 DEF Next
  <1>3. Inv => TypeOK
    BY WhatConsistencyMeans DEF TypeOK
  <1> QED BY <1>1, <1>2, <1>3, PTL DEF Spec
=============================================================================
