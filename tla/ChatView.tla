------------------------------ MODULE ChatView ------------------------------
(***************************************************************************)
(* The chat workspace of the web client over the service of Chat: a user   *)
(* sends one message after the other, and the page carries the identity of *)
(* the conversation from one to the next.                                  *)
(***************************************************************************)
EXTENDS Chat

NoTurn == 0

VARIABLE view \* the state of the page

viewVars == <<chatVars, view>>
-----------------------------------------------------------------------------

ViewState ==
    [conversation: Conversations \union {NoConversation}, \* conversationId
     sending: Turns \union {NoTurn},                      \* isSending, and what
     last: Turns \union {NoTurn},                         \* what the last message asked for
     sawFinal: BOOLEAN,           \* a terminal event has been dispatched
     status: {"none", "streaming", "complete", "incomplete", "failed"}]

ViewTypeOK == view \in ViewState

ViewInit ==
    /\ ChatInit
    /\ view = [conversation |-> NoConversation, sending |-> NoTurn, last |-> NoTurn,
               sawFinal |-> FALSE, status |-> "none"]

\* Mutant of MaySend: the form waits for the terminal event only.
MaySendOnceShown == view.sending = NoTurn \/ view.sawFinal

\* The form refuses a second message while the first is being answered.
MaySend == view.sending = NoTurn

\* The payload names the conversation of the messages before, if there is one.
Submit(t, kind) ==
    /\ MaySend
    /\ kind \in {"answer", "stream"}
    /\ LET c == IF view.conversation = NoConversation THEN t ELSE view.conversation
       IN  Begin(t, kind, c) \/ ConversationMissing(t, kind, c)
    /\ view' = [view EXCEPT !.sending = t, !.last = t, !.sawFinal = FALSE,
                            !.status = "streaming"]

Sent == turns[view.sending]

\* onComplete, onIncomplete or onError: the event arrives while the server is
\* still to commit, or does not arrive at all when the connection breaks.
SeeFinalEvent ==
    /\ view.sending # NoTurn
    /\ Sent.kind = "stream"
    /\ Sent.shown \in {"completed", "unfinished"}
    /\ ~view.sawFinal
    /\ view' = [view EXCEPT !.sawFinal = TRUE, !.conversation = Sent.conv,
                            !.status = IF Sent.shown = "completed" THEN "complete"
                                       ELSE "incomplete"]
    /\ UNCHANGED chatVars

Settle(conversation, status) ==
    /\ view' = [view EXCEPT !.sending = NoTurn, !.sawFinal = FALSE,
                            !.conversation = conversation, !.status = status]
    /\ UNCHANGED chatVars

SentIsOver == view.sending # NoTurn /\ Sent.pc = "closed"

\* chat() returns.
AnswerArrives ==
    /\ SentIsOver
    /\ Sent.kind = "answer" /\ Sent.end = "ok"
    /\ Settle(Sent.conv, "complete")

\* The body of the stream ends, after its terminal event.
BodyEnds ==
    /\ SentIsOver
    /\ Sent.kind = "stream" /\ Sent.end = "ok"
    /\ view.sawFinal
    /\ Settle(view.conversation, view.status)

\* The body ends without one: the event that streamChat makes up has no
\* conversation, and the page forgets the one it had.
BodyEndsEarly ==
    /\ SentIsOver
    /\ Sent.kind = "stream" /\ Sent.end = "ok"
    /\ Sent.shown \in {"nothing", "partial"}
    /\ Settle(NoConversation, "incomplete")

\* Mutant of RequestThrows: what fails after the terminal event is ignored.
RequestThrowsTooLate ==
    /\ SentIsOver
    /\ Sent.end \in {"error", "lost"}
    /\ Settle(view.conversation, IF view.sawFinal THEN view.status ELSE "failed")

\* An error status, or a read of the body that rejects.
RequestThrows ==
    /\ SentIsOver
    /\ Sent.end \in {"error", "lost"}
    /\ Settle(view.conversation, "failed")

PageStep ==
    \/ SeeFinalEvent
    \/ AnswerArrives
    \/ BodyEnds
    \/ BodyEndsEarly
    \/ RequestThrows

ServerStep ==
    \E t \in Turns : TurnStep(t) \/ Disconnect(t) \/ CommitFails(t) \/ CrashTurn(t)

ViewNext ==
    \/ \E t \in Turns, kind \in Kinds : Submit(t, kind)
    \/ PageStep
    \/ ServerStep /\ UNCHANGED view

ViewSpec == ViewInit /\ [][ViewNext]_viewVars
-----------------------------------------------------------------------------

\* A message shown as complete is stored with its question once the request is
\* over, and the next message continues it: the conversation the page carries
\* exists, unless it was rolled back after the terminal event had named it.
ViewAgreesWithStore ==
    view.sending = NoTurn =>
        /\ view.status = "complete" => Has(view.last, "user") /\ Has(view.last, "assistant")
        /\ view.conversation \notin conversations \union {NoConversation} =>
              \E t \in Turns : /\ turns[t].conv = view.conversation
                               /\ turns[t].shown \in {"completed", "unfinished"}
                               /\ turns[t].end \in {"error", "lost"}

\* A message of the page is refused for want of its conversation only if that was
\* rolled back: it is never sent into one that is still to be committed.
FollowUpsAreFound ==
    view.last # NoTurn => \A t \in Turns :
        turns[t].end = "error" /\ turns[t].kind = "none" =>
            /\ \A u \in Turns : turns[u].kind # "none" => turns[u].pc = "closed"
            /\ \E u \in Turns : turns[u].end \in {"error", "lost"} /\ turns[u].kind = "stream"
=============================================================================
