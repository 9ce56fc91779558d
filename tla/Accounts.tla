------------------------------- MODULE Accounts -------------------------------
(***************************************************************************)
(* Accounts and the tokens that stand for them, and the reports that the   *)
(* workflows of n8n leave in their owner's name.  Both tables are written  *)
(* by a look-up followed by an insert, which a unique constraint settles.  *)
(* Requests are numbered in the order in which they begin; a row has the   *)
(* number of the request that inserted it.  One action is one statement or *)
(* commit; a flush that meets an uncommitted row with its key waits.       *)
(***************************************************************************)
EXTENDS Naturals, Sequences, FiniteSets

CONSTANTS
    MaxRequests,
    Emails, Passwords,
    ReportKeys,      \* a report's workflow, run and status
    Production,      \* settings.app.env; otherwise development auth is enabled
    TokenTtl, MaxClock,
    MaxAccountFaults \* statements or commits that fail for another reason

ASSUME AccountsAssumption ==
    /\ MaxRequests \in Nat /\ MaxAccountFaults \in Nat
    /\ TokenTtl \in Nat \ {0} /\ MaxClock \in Nat
    /\ Production \in BOOLEAN
    /\ "NONE" \notin ReportKeys /\ "NONE" \notin Emails /\ "NONE" \notin Passwords

VARIABLES
    users,   \* the committed accounts, by the number of their registration
    reports, \* the committed reports, by the number of their request
    requests,
    clock,
    accountFaults

accountVars == <<users, reports, requests, clock, accountFaults>>

Requests == 1..MaxRequests
\* An account may be there from the start; the development header names an
\* owner who has none.
EarlierAccount == MaxRequests + 1
DevOwner == MaxRequests + 2
Owners == 1..DevOwner
NoUser == [email |-> "NONE", password |-> "NONE"]
Users == [email: Emails, password: Passwords]
\* A report without a run_id has the key "NONE": the column is null.
Reports == [owner: Owners, key: ReportKeys \union {"NONE"}]

RequestPc == {"new", "known", "checked", "open", "conflict", "answered", "refused", "failed"}
\* The token of a request is the number of the login that issued it, 0 the
\* development header; what a request was answered with is a row's number.
Row == [kind: {"register", "login", "report"}, pc: RequestPc, user: Users \union {NoUser},
        token: {0} \union Requests, key: ReportKeys \union {"NONE"},
        row: {0} \union Owners, owner: {0} \union Owners, expires: 0..(MaxClock + TokenTtl)]

AccountsTypeOK ==
    /\ DOMAIN users \subseteq Owners \ {DevOwner} /\ \A u \in DOMAIN users : users[u] \in Users
    /\ DOMAIN reports \subseteq Requests /\ \A p \in DOMAIN reports : reports[p] \in Reports
    /\ requests \in Seq(Row)
    /\ clock \in 0..MaxClock
    /\ accountFaults \in 0..MaxAccountFaults

AccountsInit ==
    /\ users \in {<< >>} \union [{EarlierAccount} -> Users]
    /\ reports = << >> /\ requests = << >>
    /\ clock = 0 /\ accountFaults = 0

With(table, r, row) == [i \in DOMAIN table \union {r} |-> IF i = r THEN row ELSE table[i]]
Stands(r, kind, pc) == r \in DOMAIN requests /\ requests[r].kind = kind /\ requests[r].pc = pc
Advance(r, pc) == requests' = [requests EXCEPT ![r].pc = pc]
Reply(r, pc, row) == requests' = [requests EXCEPT ![r].pc = pc, ![r].row = row]

Arrive ==
    /\ Len(requests) < MaxRequests
    /\ \E kind \in {"register", "login", "report"}, u \in Users \union {NoUser},
          t \in {0} \union Requests, k \in ReportKeys \union {"NONE"} :
          /\ (kind = "report") <=> (u = NoUser)
          /\ (kind # "report") => t = 0 /\ k = "NONE"
          /\ (t # 0) => Stands(t, "login", "answered")
          /\ requests' = Append(requests, [kind |-> kind, pc |-> "new", user |-> u, token |-> t,
                key |-> k, row |-> 0, owner |-> 0, expires |-> 0])
    /\ UNCHANGED <<users, reports, clock, accountFaults>>

PassTime ==
    /\ clock < MaxClock
    /\ clock' = clock + 1
    /\ UNCHANGED <<users, reports, requests, accountFaults>>
-----------------------------------------------------------------------------
(* POST /auth/register and /auth/login *)

AccountOf(email) == {u \in DOMAIN users : users[u].email = email}

\* Mutant of EmailTaken: the column has no unique constraint.
EmailNeverTaken(r) == FALSE
\* What the unique constraint says of an insert, once no other one is open.
EmailTaken(r) == AccountOf(requests[r].user.email) # {}

CheckEmail(r) ==
    /\ Stands(r, "register", "new")
    /\ Advance(r, IF AccountOf(requests[r].user.email) # {} THEN "refused" ELSE "checked")
    /\ UNCHANGED <<users, reports, clock, accountFaults>>

\* UserRepository.create rolls back after a conflict; the handler answers 409.
InsertUser(r) ==
    /\ Stands(r, "register", "checked")
    /\ \A q \in DOMAIN requests :
          Stands(q, "register", "open") => requests[q].user.email # requests[r].user.email
    /\ Advance(r, IF EmailTaken(r) THEN "refused" ELSE "open")
    /\ UNCHANGED <<users, reports, clock, accountFaults>>

CommitUser(r) ==
    /\ Stands(r, "register", "open")
    /\ users' = With(users, r, requests[r].user)
    /\ Reply(r, "answered", r)
    /\ UNCHANGED <<reports, clock, accountFaults>>

\* verify_password holds for the password that was hashed, and for no other.
LogIn(r) ==
    LET found == {u \in DOMAIN users : users[u] = requests[r].user} IN
    /\ Stands(r, "login", "new")
    /\ \/ /\ found = {} /\ Advance(r, "refused")
       \/ \E u \in found : requests' = [requests EXCEPT
             ![r].pc = "answered", ![r].row = u, ![r].expires = clock + TokenTtl]
    /\ UNCHANGED <<users, reports, clock, accountFaults>>
-----------------------------------------------------------------------------
(* POST /automation/reports *)

\* decode_access_token
Valid(t) == clock < requests[t].expires

\* A token's verdict is final; the header is for development only.
Authenticate(r) ==
    LET t == requests[r].token
        owner == IF t = 0 THEN DevOwner ELSE requests[t].row IN
    /\ Stands(r, "report", "new")
    /\ \/ /\ IF t = 0 THEN Production ELSE ~Valid(t)
          /\ Advance(r, "refused")
       \/ /\ IF t = 0 THEN ~Production ELSE Valid(t)
          /\ requests' = [requests EXCEPT ![r].pc = "known", ![r].owner = owner]
    /\ UNCHANGED <<users, reports, clock, accountFaults>>

ReportOf(r) == [owner |-> requests[r].owner, key |-> requests[r].key]

\* get_report_by_idempotency_key, which also tells what the constraint lets in:
\* it does not hold between nulls.
SameReport(r) == {p \in DOMAIN reports : reports[p] = ReportOf(r) /\ requests[r].key # "NONE"}

LookUpReport(r) ==
    /\ Stands(r, "report", "known")
    /\ \/ SameReport(r) = {} /\ Advance(r, "checked")
       \/ \E p \in SameReport(r) : Reply(r, "answered", p)
    /\ UNCHANGED <<users, reports, clock, accountFaults>>

InsertReport(r) ==
    /\ Stands(r, "report", "checked")
    /\ \A q \in DOMAIN requests :
          Stands(q, "report", "open") => ReportOf(q) # ReportOf(r) \/ requests[r].key = "NONE"
    /\ Advance(r, IF SameReport(r) # {} THEN "conflict" ELSE "open")
    /\ UNCHANGED <<users, reports, clock, accountFaults>>

CommitReport(r) ==
    /\ Stands(r, "report", "open")
    /\ reports' = With(reports, r, ReportOf(r))
    /\ Reply(r, "answered", r)
    /\ UNCHANGED <<users, clock, accountFaults>>

\* After the rollback the row that was in the way is the answer.
ReadConflict(r) ==
    /\ Stands(r, "report", "conflict")
    /\ \E p \in SameReport(r) : Reply(r, "answered", p)
    /\ UNCHANGED <<users, reports, clock, accountFaults>>

\* Any other error, or a crash: the transaction is rolled back, or was the
\* server's to undo, and the caller has no answer.
LoseRequest(r) ==
    /\ r \in DOMAIN requests
    /\ requests[r].pc \in {"new", "known", "checked", "open", "conflict"}
    /\ accountFaults < MaxAccountFaults
    /\ accountFaults' = accountFaults + 1
    /\ Advance(r, "failed")
    /\ UNCHANGED <<users, reports, clock>>

AccountsNext ==
    \/ Arrive
    \/ PassTime
    \/ \E r \in Requests : CheckEmail(r)
    \/ \E r \in Requests : InsertUser(r)
    \/ \E r \in Requests : CommitUser(r)
    \/ \E r \in Requests : LogIn(r)
    \/ \E r \in Requests : Authenticate(r)
    \/ \E r \in Requests : LookUpReport(r)
    \/ \E r \in Requests : InsertReport(r)
    \/ \E r \in Requests : CommitReport(r)
    \/ \E r \in Requests : ReadConflict(r)
    \/ \E r \in Requests : LoseRequest(r)

AccountsSpec == AccountsInit /\ [][AccountsNext]_accountVars
-----------------------------------------------------------------------------
\* What has been answered stands, whatever raced with it: a registration that
\* was answered has its row, and no other account has its email; a report that
\* was answered names a row of its own owner and key, and repeats of one run
\* name one row (register_account, create_automation_report).
AnswersStand ==
    \A r \in DOMAIN requests : requests[r].pc = "answered" =>
        /\ requests[r].kind = "register" => AccountOf(requests[r].user.email) = {r}
        /\ requests[r].kind = "report" =>
              /\ requests[r].row \in DOMAIN reports
              /\ reports[requests[r].row] = ReportOf(r)
              /\ requests[r].key # "NONE" => SameReport(r) = {requests[r].row}
=============================================================================
