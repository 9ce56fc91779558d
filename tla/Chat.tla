-------------------------------- MODULE Chat --------------------------------
(***************************************************************************)
(* Turns of a conversation: one retrieval-grounded request each, answered  *)
(* at once, as a stream of events, or as study material, in one database   *)
(* transaction around a call of the LLM provider; and the bare search.     *)
(***************************************************************************)
EXTENDS Naturals, FiniteSets, Sequences, SequencesExt

CONSTANTS
    MaxTurns,      \* bound: how many requests
    MaxOpen,       \* bound: how many of them at a time
    Kinds,         \* the kinds of request the clients make
    HistoryLimit,  \* DEFAULT_CHAT_HISTORY_LIMIT, history_max_messages
    MaxRetries,    \* of the provider
    ChatFaults,    \* the kinds of fault the environment may inject
    MaxChatFaults  \* bound: how many of them in a behaviour

\* audit: the audit row cannot be flushed; retrieval: the search raises;
\* commit: the commit fails; crash: the process dies; blank: the client sends a
\* message without words.
ChatFaultKinds == {"audit", "retrieval", "commit", "crash", "blank"}

\* Requests, numbered in the order in which their transactions begin: the number
\* stands for the transaction's now().
Turns == 1..MaxTurns

\* A conversation has the number of the request that created it.
Conversations == Turns
NoConversation == 0

ASSUME ChatAssumption ==
    /\ MaxTurns \in Nat /\ MaxOpen \in Nat
    /\ Kinds \subseteq {"answer", "stream", "study", "search"}
    /\ HistoryLimit \in Nat
    /\ MaxRetries \in Nat
    /\ ChatFaults \subseteq ChatFaultKinds
    /\ MaxChatFaults \in Nat

VARIABLES
    conversations, \* committed conversations rows
    messages,      \* committed messages rows
    usage,         \* the turns with a committed llm_usage row
    audits,        \* the turns with a committed rag_queries row
    turns,         \* control state of each request
    generations,   \* how often the provider has generated an answer for a turn
    chatFaults     \* faults injected so far

chatVars == <<conversations, messages, usage, audits, turns, generations,
              chatFaults>>
-----------------------------------------------------------------------------
(* State *)

Message == [turn: Turns, role: {"user", "assistant"}, conv: Conversations]

TurnPc == {"new", "history", "retrieving", "asking", "calling", "received",
           "committing", "replying", "closed"}

\* Rows a transaction has flushed and not committed.
Row == {"conversation", "audit", "user", "assistant", "usage"}

TurnState ==
    [pc: TurnPc, kind: Kinds \union {"none"},
     conv: Conversations \union {NoConversation},
     history: Seq(Message),         \* what list_recent_messages returned
     blank: BOOLEAN,                \* nothing of the message is left to search for
     broken: BOOLEAN,               \* a flush has failed: only a rollback helps
     flushed: SUBSET Row,
     calls: 0..(MaxRetries + 1),    \* requests sent to the provider
     shown: {"nothing", "partial", "completed", "unfinished"},
     end: {"open", "ok", "error", "lost"}]

NewTurn == [pc |-> "new", kind |-> "none", conv |-> NoConversation, history |-> <<>>,
            blank |-> FALSE, broken |-> FALSE, flushed |-> {}, calls |-> 0, shown |-> "nothing",
            end |-> "open"]

ChatTypeOK ==
    /\ conversations \subseteq Conversations
    /\ messages \subseteq Message
    /\ usage \subseteq Turns
    /\ audits \subseteq Turns
    /\ turns \in [Turns -> TurnState]
    /\ generations \in [Turns -> Nat]
    /\ chatFaults \in 0..MaxChatFaults

ChatInit ==
    /\ conversations = {}
    /\ messages = {}
    /\ usage = {}
    /\ audits = {}
    /\ turns = [t \in Turns |-> NewTurn]
    /\ generations = [t \in Turns |-> 0]
    /\ chatFaults = 0

ChatFault(kind) ==
    /\ kind \in ChatFaults
    /\ chatFaults < MaxChatFaults
    /\ chatFaults' = chatFaults + 1

Stored(t) == {[turn |-> t, role |-> r, conv |-> turns[t].conv] :
                 r \in turns[t].flushed \intersect {"user", "assistant"}}

Flushed(t, row) == IF row \in turns[t].flushed THEN {t} ELSE {}

CommitRows(t) ==
    /\ messages' = messages \union Stored(t)
    /\ usage' = usage \union Flushed(t, "usage")
    /\ audits' = audits \union Flushed(t, "audit")
    /\ conversations' = conversations \union
          (IF "conversation" \in turns[t].flushed THEN {turns[t].conv} ELSE {})

UNCHANGED_Store == UNCHANGED <<conversations, messages, usage, audits>>

\* The transaction is gone, and what it flushed with it.
Close(t, end) ==
    turns' = [turns EXCEPT ![t] =
        [@ EXCEPT !.pc = "closed", !.history = <<>>, !.flushed = {}, !.broken = FALSE,
                  !.calls = 0, !.end = end]]

\* The route rolls back and the error handlers answer (or the stream breaks).
Fail(t) == Close(t, "error")

\* What follows a step, by the order in which each service does them: a study
\* run stores its question before it searches, a chat after.
StepsOf(kind) ==
    CASE kind = "study" -> <<"history", "asking", "retrieving", "calling">>
      [] kind = "search" -> <<"retrieving", "replying">>
      [] OTHER -> <<"history", "retrieving", "asking", "calling">>

NextStep(t) ==
    LET steps == StepsOf(turns[t].kind)
    IN  steps[1 + CHOOSE i \in DOMAIN steps : steps[i] = turns[t].pc]
-----------------------------------------------------------------------------
(* Before the provider is called *)

NextTurn(t) ==
    /\ turns[t].pc = "new" /\ \A u \in Turns : u < t => turns[u].pc # "new"
    /\ Cardinality({u \in 1..(t - 1) : turns[u].pc # "closed"}) < MaxOpen

\* get_conversation or create_conversation; a search has no conversation.
Begin(t, kind, c) ==
    /\ NextTurn(t)
    /\ (kind = "search") = (c = NoConversation)
    /\ c \in conversations \/ c = NoConversation \/ c = t
    /\ turns' = [turns EXCEPT ![t] =
          [@ EXCEPT !.pc = StepsOf(kind)[1], !.kind = kind, !.conv = c,
                    !.flushed = IF kind = "search" \/ c \in conversations
                                THEN {} ELSE {"conversation"}]]
    /\ UNCHANGED <<conversations, messages, usage, audits, generations, chatFaults>>

\* A conversation whose transaction has not committed, or never did (its identity
\* is in the first events of its stream), is not found.
ConversationMissing(t, kind, c) ==
    /\ NextTurn(t)
    /\ kind # "search"
    /\ c \notin conversations
    /\ \E u \in Turns : turns[u].conv = c /\ turns[u].kind = "stream"
    /\ Fail(t)
    /\ UNCHANGED_Store /\ UNCHANGED <<generations, chatFaults>>

\* A first message of white space has no first line to make a title of.
TitleMissing(t) ==
    /\ NextTurn(t)
    /\ ChatFault("blank")
    /\ Fail(t)
    /\ UNCHANGED_Store /\ UNCHANGED generations

RowsOf(c) == {m \in messages : m.conv = c}

\* Rows by created_at, which is the now() of their transaction: the database
\* orders the question and the answer of a turn as it likes.
Chronologies(c) ==
    {s \in SetToSeqs(RowsOf(c)) : \A i, j \in DOMAIN s : i < j => s[i].turn <= s[j].turn}

\* Mutant of Latest: without desc, the limit keeps the first messages.
Earliest(s) == SubSeq(s, 1, IF Len(s) < HistoryLimit THEN Len(s) ELSE HistoryLimit)

\* ORDER BY created_at DESC LIMIT n, reversed.
Latest(s) == SubSeq(s, IF Len(s) > HistoryLimit THEN Len(s) - HistoryLimit + 1 ELSE 1, Len(s))

ReadHistory(t) ==
    /\ turns[t].pc = "history"
    /\ \E s \in Chronologies(turns[t].conv) :
          turns' = [turns EXCEPT ![t].history = Latest(s), ![t].pc = NextStep(t)]
    /\ UNCHANGED_Store /\ UNCHANGED <<generations, chatFaults>>

\* search() ends with the audit row, whose failure it logs and swallows: the
\* session, however, can do nothing from then on.  When normalization leaves no
\* query (a lone quotation mark) it searches, and audits, nothing.
Retrieve(t) ==
    /\ turns[t].pc = "retrieving"
    /\ \/ /\ turns' = [turns EXCEPT ![t].flushed = @ \union {"audit"},
                                    ![t].pc = NextStep(t)]
          /\ UNCHANGED chatFaults
       \/ /\ ChatFault("blank")
          /\ turns' = [turns EXCEPT ![t].blank = TRUE, ![t].pc = NextStep(t)]
       \/ /\ ChatFault("audit")
          /\ turns' = [turns EXCEPT ![t].broken = TRUE, ![t].flushed = {},
                                    ![t].pc = NextStep(t)]
       \/ ChatFault("retrieval") /\ Fail(t)
    /\ UNCHANGED_Store /\ UNCHANGED generations

\* Mutant of Ask: the question is committed, as of a chat without transactions.
AskAndCommit(t) ==
    /\ turns[t].pc = "asking"
    /\ messages' = messages \union {[turn |-> t, role |-> "user", conv |-> turns[t].conv]}
    /\ turns' = [turns EXCEPT ![t].flushed = @ \union {"user"}, ![t].pc = NextStep(t)]
    /\ UNCHANGED <<conversations, usage, audits, generations, chatFaults>>

\* add_message for the user's message; PendingRollbackError in a broken session.
Ask(t) ==
    /\ turns[t].pc = "asking"
    /\ \/ /\ ~turns[t].broken
          /\ turns' = [turns EXCEPT ![t].flushed = @ \union {"user"},
                                    ![t].pc = NextStep(t)]
       \/ turns[t].broken /\ Fail(t)
    /\ UNCHANGED_Store /\ UNCHANGED <<generations, chatFaults>>
-----------------------------------------------------------------------------
(* The provider *)

\* Mutant of Generate: the repeated request carries no Idempotency-Key.
GenerateWithoutKey(t) == generations' = [generations EXCEPT ![t] = @ + 1]

\* A provider that honours the Idempotency-Key header (the identity of the
\* question) generates one answer for all requests that carry the same key.
Generate(t) == generations' = [generations EXCEPT ![t] = 1]

\* complete and structured_response send a request.
Calling(t) == turns[t].pc = "calling" /\ turns[t].kind \in {"answer", "study"}

\* An answer whose JSON, schema and citations are valid.
CallSucceeds(t) ==
    /\ Calling(t)
    /\ Generate(t)
    /\ turns' = [turns EXCEPT ![t].pc = "received", ![t].calls = @ + 1]
    /\ UNCHANGED_Store /\ UNCHANGED chatFaults

\* Mutant of CallRetried: MaxRetries + 1 repetitions.
CallRetriedOnceMore(t) ==
    /\ Calling(t)
    /\ turns[t].calls <= MaxRetries
    /\ \/ Generate(t)
       \/ UNCHANGED generations
    /\ turns' = [turns EXCEPT ![t].calls = @ + 1]
    /\ UNCHANGED_Store /\ UNCHANGED chatFaults

\* A timeout, a network error or a retryable status, with an attempt left.  The
\* provider may have answered all the same.
CallRetried(t) ==
    /\ Calling(t)
    /\ turns[t].calls < MaxRetries
    /\ \/ Generate(t)
       \/ UNCHANGED generations
    /\ turns' = [turns EXCEPT ![t].calls = @ + 1]
    /\ UNCHANGED_Store /\ UNCHANGED chatFaults

\* The last attempt fails, the status is final, or the answer is malformed or
\* cites a source that it was not given.
CallFails(t) ==
    /\ Calling(t)
    /\ \/ Generate(t)
       \/ UNCHANGED generations
    /\ Fail(t)
    /\ UNCHANGED_Store /\ UNCHANGED chatFaults

Streaming(t) == turns[t].pc = "calling" /\ turns[t].kind = "stream"
Unended(t) == turns[t].shown \in {"nothing", "partial"}

\* Events go to the client as they come; parse_responses_sse ends with the body.
Delta(t) ==
    /\ Streaming(t)
    /\ Unended(t)
    /\ Generate(t)
    /\ turns' = [turns EXCEPT ![t].shown = "partial", ![t].calls = 1]
    /\ UNCHANGED_Store /\ UNCHANGED chatFaults

\* response.completed with valid citations: the answer is flushed, and the event
\* sent, before anything is committed.
Completed(t) ==
    /\ Streaming(t)
    /\ Unended(t)
    /\ Generate(t)
    /\ turns' = [turns EXCEPT ![t].shown = "completed", ![t].calls = 1,
                              ![t].flushed = @ \union {"assistant", "usage"}]
    /\ UNCHANGED_Store /\ UNCHANGED chatFaults

\* response.incomplete or response.failed.
Unfinished(t) ==
    /\ Streaming(t)
    /\ Unended(t)
    /\ turns' = [turns EXCEPT ![t].shown = "unfinished", ![t].calls = 1]
    /\ UNCHANGED_Store /\ UNCHANGED <<generations, chatFaults>>

\* The body ends, with or without a final event.
StreamEnds(t) ==
    /\ Streaming(t)
    /\ turns' = [turns EXCEPT ![t].pc = "committing", ![t].calls = 1]
    /\ UNCHANGED_Store /\ UNCHANGED <<generations, chatFaults>>

\* An error status, a broken connection, or an answer with invalid citations;
\* a stream is never repeated.
StreamBreaks(t) ==
    /\ Streaming(t)
    /\ Fail(t)
    /\ UNCHANGED_Store /\ UNCHANGED <<generations, chatFaults>>

\* The client goes away: the generator is closed, and neither branch of the
\* route runs.
Disconnect(t) ==
    /\ Streaming(t)
    /\ Close(t, "lost")
    /\ UNCHANGED_Store /\ UNCHANGED <<generations, chatFaults>>
-----------------------------------------------------------------------------
(* After the provider has answered *)

\* _persist_assistant_response; a study run records no usage.
Persist(t) ==
    /\ turns[t].pc = "received"
    /\ \/ /\ ~turns[t].broken
          /\ turns' = [turns EXCEPT ![t].pc = "committing", ![t].flushed = @ \union
                (IF turns[t].kind = "study" THEN {"assistant"} ELSE {"assistant", "usage"})]
       \/ turns[t].broken /\ Fail(t)
    /\ UNCHANGED_Store /\ UNCHANGED <<generations, chatFaults>>

\* Mutant of Commit: each message is committed when it is added.
CommitAnswerOnly(t) ==
    /\ turns[t].pc = "committing"
    /\ messages' = messages \union {m \in Stored(t) : m.role = "assistant"}
    /\ UNCHANGED <<conversations, usage, audits>>
    /\ IF turns[t].kind = "stream" THEN Close(t, "ok")
       ELSE turns' = [turns EXCEPT ![t].pc = "replying", ![t].flushed = {}]
    /\ UNCHANGED <<generations, chatFaults>>

\* The end of a stream tells its client nothing more; the others reply next.
Commit(t) ==
    /\ turns[t].pc = "committing"
    /\ CommitRows(t)
    /\ IF turns[t].kind = "stream" THEN Close(t, "ok")
       ELSE turns' = [turns EXCEPT ![t].pc = "replying", ![t].flushed = {}]
    /\ UNCHANGED <<generations, chatFaults>>

CommitFails(t) ==
    /\ turns[t].pc = "committing"
    /\ ChatFault("commit")
    /\ Fail(t)
    /\ UNCHANGED_Store /\ UNCHANGED generations

\* The response.  A search has committed nothing: its session is closed.
Reply(t) ==
    /\ turns[t].pc = "replying"
    /\ turns' = [turns EXCEPT ![t] =
          [@ EXCEPT !.pc = "closed", !.history = <<>>, !.flushed = {}, !.broken = FALSE,
                    !.calls = 0, !.shown = "completed", !.end = "ok"]]
    /\ UNCHANGED_Store /\ UNCHANGED <<generations, chatFaults>>

CrashTurn(t) ==
    /\ turns[t].pc \notin {"new", "closed"}
    /\ ChatFault("crash")
    /\ Close(t, "lost")
    /\ UNCHANGED_Store /\ UNCHANGED generations
-----------------------------------------------------------------------------

TurnStep(t) ==
    \/ ReadHistory(t)
    \/ Retrieve(t)
    \/ Ask(t)
    \/ CallSucceeds(t)
    \/ CallRetried(t)
    \/ CallFails(t)
    \/ Delta(t)
    \/ Completed(t)
    \/ Unfinished(t)
    \/ StreamEnds(t)
    \/ StreamBreaks(t)
    \/ Persist(t)
    \/ Commit(t)
    \/ Reply(t)

ChatNext ==
    \E t \in Turns :
        \/ \E kind \in Kinds, c \in Conversations \union {NoConversation} :
              Begin(t, kind, c) \/ ConversationMissing(t, kind, c)
        \/ TitleMissing(t)
        \/ TurnStep(t)
        \/ Disconnect(t)
        \/ CommitFails(t)
        \/ CrashTurn(t)

ChatSpec == ChatInit /\ [][ChatNext]_chatVars

-----------------------------------------------------------------------------
(* Properties *)

Has(t, role) == \E m \in messages : m.turn = t /\ m.role = role

\* A turn is stored whole: an answer with its question, in the same existing
\* conversation, with its audit (if there was anything to search for) and, for a
\* chat, its usage.
TurnsAreWhole ==
    \A m \in messages :
        /\ m.conv \in conversations
        /\ m.turn \in audits <=> ~turns[m.turn].blank
        /\ m.role = "assistant" =>
              /\ [m EXCEPT !.role = "user"] \in messages
              /\ (m.turn \in usage) = (turns[m.turn].kind # "study")

\* What a client is told is what is stored: success, the turn (or, of a stream
\* that did not complete, the question alone); an error, nothing at all.
EndsAsStored ==
    \A t \in Turns :
        /\ turns[t].end = "ok" /\ turns[t].kind # "search" =>
              Has(t, "user") /\ (Has(t, "assistant") <=> turns[t].shown = "completed")
        /\ turns[t].end = "error" =>
              ~Has(t, "user") /\ ~Has(t, "assistant") /\ t \notin usage \union audits

\* However many turns of a conversation run at once, a history never mixes them,
\* and leaves nothing out that is later than what it has.
HistoryIsRecent ==
    [][\A t \in Turns :
          turns[t].pc = "history" /\ turns'[t].pc \in {"retrieving", "asking"} =>
              LET h == turns'[t].history IN
              /\ \A i, j, k \in DOMAIN h :
                    i < j /\ j < k /\ h[i].turn = h[k].turn => h[j].turn = h[i].turn
              /\ \A m \in RowsOf(turns[t].conv) \ {h[i] : i \in DOMAIN h} :
                    \A i \in DOMAIN h : m.turn <= h[i].turn
      ]_turns

\* A turn's answer is generated, and paid for, at most once, whatever is repeated
\* after a timeout.
GeneratedOnce == \A t \in Turns : generations[t] <= 1

\* "Persists retrieval query events": whoever has got the answer of a search has
\* left an audit row.
SearchesAreAudited ==
    \A t \in Turns : turns[t].end = "ok" /\ turns[t].kind = "search" => t \in audits
=============================================================================
