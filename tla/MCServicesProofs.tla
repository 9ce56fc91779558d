--------------------------- MODULE MCServicesProofs ---------------------------
(***************************************************************************)
(* Theorems about the services of MCServices.  Accounts, for any number of *)
(* requests, emails, keys and clocks, and Migrations have their proofs     *)
(* here, the others in modules of their own; last come the types of all    *)
(* the services, side by side.                                             *)
(***************************************************************************)
EXTENDS MCServices, ServicesProofs, KnowledgeBasesProofs, RetrievalProofs, FiniteSetTheorems,
    SequenceTheorems, TLAPS
-----------------------------------------------------------------------------
(* Strengthenings *)

\* An account that was not there from the start is that of its registration.
UsersAreRegistered ==
    \A u \in DOMAIN users : u # EarlierAccount =>
        Stands(u, "register", "answered") /\ users[u] = requests[u].user

\* A registration that has inserted its row is the only one with its email.
OpenEmailsAreFree ==
    \A r \in DOMAIN requests : Stands(r, "register", "open") =>
        /\ AccountOf(requests[r].user.email) = {}
        /\ \A q \in DOMAIN requests : q # r /\ Stands(q, "register", "open") =>
              requests[q].user.email # requests[r].user.email

\* A report is that of its request.
ReportsAreAnswered ==
    \A p \in DOMAIN reports : Stands(p, "report", "answered") /\ reports[p] = ReportOf(p)

\* The unique constraint of the table.
ReportsDiffer ==
    \A p, q \in DOMAIN reports :
        reports[p] = reports[q] /\ reports[p].key # "NONE" => p = q

\* A request that has inserted its report is the only one with its owner and key.
OpenReportsAreFree ==
    \A r \in DOMAIN requests : Stands(r, "report", "open") /\ requests[r].key # "NONE" =>
        /\ SameReport(r) = {}
        /\ \A q \in DOMAIN requests : q # r /\ Stands(q, "report", "open") =>
              ReportOf(q) # ReportOf(r)

\* A token is that of a login that was answered, with an account.
TokensStand ==
    \A r \in DOMAIN requests :
        /\ requests[r].token # 0 => Stands(requests[r].token, "login", "answered")
        /\ Stands(r, "login", "answered") => requests[r].row \in Owners

\* A report that is under way has an owner; the other requests name a user.
OwnersAreKnown ==
    \A r \in DOMAIN requests :
        IF requests[r].kind = "report"
        THEN requests[r].pc \in {"known", "checked", "open", "conflict"} =>
                requests[r].owner \in Owners
        ELSE requests[r].user \in Users

AccountsInv ==
    /\ AccountsTypeOK /\ Len(requests) <= MaxRequests
    /\ TokensStand
    /\ OwnersAreKnown
    /\ UsersAreRegistered
    /\ OpenEmailsAreFree
    /\ ReportsAreAnswered
    /\ ReportsDiffer
    /\ OpenReportsAreFree
    /\ AnswersStand
-----------------------------------------------------------------------------
(* What a step does to the requests *)

\* One request moves on, and stays what it was asked.
RequestStep(r, new) ==
    /\ r \in DOMAIN requests
    /\ new \in Row
    /\ requests' = [requests EXCEPT ![r] = new]
    /\ new.kind = requests[r].kind
    /\ new.user = requests[r].user
    /\ new.key = requests[r].key
    /\ new.token = requests[r].token

\* The others stay as they are.
LEMMA StepKeepsRequests ==
    ASSUME AccountsInv, NEW r, NEW new, RequestStep(r, new)
    PROVE  /\ requests' \in Seq(Row) /\ Len(requests') = Len(requests)
           /\ DOMAIN requests' = DOMAIN requests
           /\ requests'[r] = new
           /\ \A q \in DOMAIN requests \ {r} : requests'[q] = requests[q]
           /\ requests[r] \in Row
  BY DEF AccountsInv, AccountsTypeOK, RequestStep

\* The forms in which the actions write it.
LEMMA MovesAreSteps ==
    ASSUME AccountsInv, NEW r \in DOMAIN requests
    PROVE  /\ \A pc \in RequestPc : Advance(r, pc) =>
                 RequestStep(r, [requests[r] EXCEPT !.pc = pc]) /\ requests'[r].pc = pc
           /\ \A pc \in RequestPc, row \in {0} \union Owners : Reply(r, pc, row) =>
                 /\ RequestStep(r, [requests[r] EXCEPT !.pc = pc, !.row = row])
                 /\ requests'[r].pc = pc /\ requests'[r].row = row
  <1>1. requests[r] \in Row
    BY DEF AccountsInv, AccountsTypeOK
  <1>2. ASSUME NEW pc \in RequestPc, Advance(r, pc)
        PROVE  RequestStep(r, [requests[r] EXCEPT !.pc = pc]) /\ requests'[r].pc = pc
    <2>1. [requests[r] EXCEPT !.pc = pc] \in Row
      BY <1>1 DEF Row
    <2> QED BY <1>1, <1>2, <2>1 DEF RequestStep, Advance, Row, AccountsInv, AccountsTypeOK
  <1>3. ASSUME NEW pc \in RequestPc, NEW row \in {0} \union Owners, Reply(r, pc, row)
        PROVE  /\ RequestStep(r, [requests[r] EXCEPT !.pc = pc, !.row = row])
               /\ requests'[r].pc = pc /\ requests'[r].row = row
    <2>1. [requests[r] EXCEPT !.pc = pc, !.row = row] \in Row
      BY <1>1 DEF Row
    <2>2. requests' = [requests EXCEPT ![r] = [requests[r] EXCEPT !.pc = pc, !.row = row]]
      BY <1>1, <1>3 DEF Reply, AccountsInv, AccountsTypeOK, Row
    <2> QED BY <1>1, <2>1, <2>2 DEF RequestStep, Row, AccountsInv, AccountsTypeOK
  <1> QED BY <1>2, <1>3

\* A step that writes no row, and neither gains nor loses a claim to one.
QuietRequest(r, new) ==
    /\ RequestStep(r, new)
    /\ UNCHANGED <<users, reports, clock>>
    /\ accountFaults' \in 0..MaxAccountFaults
    /\ requests[r].pc # "answered"
    /\ new.pc # "open"
    /\ new.pc = "answered" => new.kind = "login" /\ new.row \in Owners
    /\ new.kind = "report" /\ new.pc \in {"known", "checked", "conflict"} => new.owner \in Owners

\* Quiet steps keep the invariant: nothing is about the request that moves.
LEMMA QuietRequestKeepsInv ==
    ASSUME AccountsInv, NEW r, NEW new, QuietRequest(r, new)
    PROVE  AccountsInv'
  <1> USE DEF QuietRequest
  <1>0. /\ requests' \in Seq(Row) /\ Len(requests') = Len(requests)
        /\ DOMAIN requests' = DOMAIN requests
        /\ requests'[r] = new
        /\ \A q \in DOMAIN requests \ {r} : requests'[q] = requests[q]
        /\ requests[r] \in Row
    BY StepKeepsRequests
  <1>1. \A q \in DOMAIN requests : /\ requests'[q].kind = requests[q].kind
                                   /\ requests'[q].user = requests[q].user
                                   /\ requests'[q].key = requests[q].key
                                   /\ requests'[q].token = requests[q].token
    BY <1>0 DEF RequestStep
  <1>2. AccountsTypeOK' /\ Len(requests') <= MaxRequests
    BY <1>0 DEF AccountsInv, AccountsTypeOK
  <1>3. TokensStand' /\ OwnersAreKnown'
    BY <1>0, <1>1 DEF AccountsInv, TokensStand, OwnersAreKnown, Stands
  <1>4. UsersAreRegistered'
    BY <1>0, <1>1 DEF AccountsInv, UsersAreRegistered, Stands
  <1>5. OpenEmailsAreFree'
    BY <1>0, <1>1 DEF AccountsInv, OpenEmailsAreFree, Stands, AccountOf
  <1>6. ReportsAreAnswered'
    BY <1>0, <1>1 DEF AccountsInv, ReportsAreAnswered, Stands, ReportOf
  <1>7. ReportsDiffer'
    BY DEF AccountsInv, ReportsDiffer
  <1>8. OpenReportsAreFree'
    BY <1>0, <1>1 DEF AccountsInv, OpenReportsAreFree, Stands, ReportOf, SameReport
  <1>9. AnswersStand'
    BY <1>0, <1>1 DEF AccountsInv, AnswersStand, AccountOf, ReportOf, SameReport, RequestStep
  <1> QED BY <1>2, <1>3, <1>4, <1>5, <1>6, <1>7, <1>8, <1>9 DEF AccountsInv
-----------------------------------------------------------------------------
(* The steps *)

\* A request fails, is refused, or finds neither row nor conflict: nothing that
\* is claimed changes.
LEMMA QuietActions ==
    ASSUME AccountsInv, AccountsAssumption, NEW r \in Requests,
           \/ CheckEmail(r) \/ LogIn(r) \/ Authenticate(r) \/ LoseRequest(r)
           \/ LookUpReport(r) /\ requests'[r].pc = "checked"
           \/ InsertUser(r) /\ requests'[r].pc = "refused"
           \/ InsertReport(r) /\ requests'[r].pc = "conflict"
    PROVE  AccountsInv'
  <1>0. r \in DOMAIN requests /\ requests[r] \in Row
    <2>1. r \in DOMAIN requests
      BY DEF CheckEmail, LogIn, Authenticate, LoseRequest, LookUpReport, InsertUser,
             InsertReport, Stands
    <2> QED BY <2>1 DEF AccountsInv, AccountsTypeOK
  <1>f. accountFaults \in 0..MaxAccountFaults
    BY DEF AccountsInv, AccountsTypeOK
  <1>o. requests[r].kind = "report" /\ requests[r].pc \in {"known", "checked"} =>
           requests[r].owner \in Owners
    BY <1>0 DEF AccountsInv, OwnersAreKnown
  <1>m. ASSUME NEW pc \in RequestPc \ {"open", "answered"}, Advance(r, pc),
               UNCHANGED <<users, reports, clock>>, accountFaults' \in 0..MaxAccountFaults,
               requests[r].pc # "answered",
               requests[r].kind = "report" /\ pc \in {"known", "checked", "conflict"} =>
                   requests[r].pc \in {"known", "checked"}
        PROVE  AccountsInv'
    <2> DEFINE new == [requests[r] EXCEPT !.pc = pc]
    <2>1. RequestStep(r, new)
      BY <1>0, <1>m, MovesAreSteps
    <2>2. new.pc = pc /\ new.kind = requests[r].kind /\ new.owner = requests[r].owner
      BY <1>0 DEF Row
    <2>3. QuietRequest(r, new)
      BY <1>o, <1>m, <2>1, <2>2 DEF QuietRequest
    <2> QED BY <2>3, QuietRequestKeepsInv
  <1>1. CASE CheckEmail(r)
    <2>1. PICK pc \in {"refused", "checked"} : Advance(r, pc)
      BY <1>1 DEF CheckEmail
    <2> QED BY <1>1, <1>f, <1>m, <2>1 DEF CheckEmail, Stands, RequestPc
  <1>2. CASE InsertUser(r) /\ requests'[r].pc = "refused"
    <2>1. PICK pc \in {"refused", "open"} : Advance(r, pc)
      BY <1>2 DEF InsertUser
    <2>2. requests'[r].pc = pc
      BY <1>0, <2>1, MovesAreSteps DEF RequestPc
    <2> QED BY <1>2, <1>f, <1>m, <2>1, <2>2 DEF InsertUser, Stands, RequestPc
  <1>3. CASE LookUpReport(r) /\ requests'[r].pc = "checked"
    <2>1. Advance(r, "checked")
      <3>1. ASSUME NEW p \in SameReport(r), Reply(r, "answered", p)
            PROVE  FALSE
        <4>1. p \in {0} \union Owners
          BY <3>1 DEF SameReport, AccountsInv, AccountsTypeOK, Owners, Requests, DevOwner
        <4>2. requests'[r].pc = "answered"
          BY <1>0, <3>1, <4>1, MovesAreSteps DEF RequestPc
        <4> QED BY <1>3, <4>2
      <3> QED BY <1>3, <3>1 DEF LookUpReport
    <2> QED BY <1>3, <1>f, <1>m, <2>1 DEF LookUpReport, Stands, RequestPc
  <1>4. CASE InsertReport(r) /\ requests'[r].pc = "conflict"
    <2>1. PICK pc \in {"conflict", "open"} : Advance(r, pc)
      BY <1>4 DEF InsertReport
    <2>2. requests'[r].pc = pc
      BY <1>0, <2>1, MovesAreSteps DEF RequestPc
    <2> QED BY <1>4, <1>f, <1>m, <2>1, <2>2 DEF InsertReport, Stands, RequestPc
  <1>5. CASE LoseRequest(r)
    <2>1. accountFaults' \in 0..MaxAccountFaults
      BY <1>5, <1>f, AccountsAssumption DEF LoseRequest, AccountsAssumption
    <2> QED BY <1>5, <1>m, <2>1 DEF LoseRequest, RequestPc
  <1>6. CASE LogIn(r)
    <2>1. CASE Advance(r, "refused")
      BY <1>6, <1>f, <1>m, <2>1 DEF LogIn, Stands, RequestPc
    <2>2. CASE \E u \in DOMAIN users : requests' = [requests EXCEPT
             ![r].pc = "answered", ![r].row = u, ![r].expires = clock + TokenTtl]
      <3>1. PICK u \in DOMAIN users : requests' = [requests EXCEPT
             ![r].pc = "answered", ![r].row = u, ![r].expires = clock + TokenTtl]
        BY <2>2
      <3> DEFINE new == [requests[r] EXCEPT
                !.pc = "answered", !.row = u, !.expires = clock + TokenTtl]
      <3>2. requests' = [requests EXCEPT ![r] = new]
        BY <1>0, <3>1 DEF AccountsInv, AccountsTypeOK, Row
      <3>3. u \in Owners /\ clock + TokenTtl \in 0..(MaxClock + TokenTtl)
        BY AccountsAssumption DEF AccountsInv, AccountsTypeOK, AccountsAssumption
      <3>4. /\ new \in Row /\ new.pc = "answered" /\ new.row = u
            /\ new.kind = requests[r].kind /\ new.user = requests[r].user
            /\ new.key = requests[r].key /\ new.token = requests[r].token
        BY <1>0, <3>3 DEF Row, RequestPc
      <3>5. RequestStep(r, new)
        BY <1>0, <3>2, <3>4 DEF RequestStep
      <3>6. QuietRequest(r, new)
        BY <1>6, <1>f, <3>3, <3>4, <3>5 DEF QuietRequest, LogIn, Stands
      <3> QED BY <3>6, QuietRequestKeepsInv
    <2> QED BY <1>6, <2>1, <2>2 DEF LogIn
  <1>7. CASE Authenticate(r)
    <2> DEFINE t == requests[r].token
               owner == IF t = 0 THEN DevOwner ELSE requests[t].row
               new == [requests[r] EXCEPT !.pc = "known", !.owner = owner]
    <2>1. CASE Advance(r, "refused")
      BY <1>7, <1>f, <1>m, <2>1 DEF Authenticate, Stands, RequestPc
    <2>2. CASE requests' = [requests EXCEPT ![r].pc = "known", ![r].owner = owner]
      <3>1. owner \in Owners
        BY <1>0, AccountsAssumption
        DEF AccountsInv, TokensStand, Owners, DevOwner, AccountsAssumption, Stands
      <3> HIDE DEF owner
      <3>2. requests' = [requests EXCEPT ![r] = new]
        BY <1>0, <2>2 DEF AccountsInv, AccountsTypeOK, Row
      <3>3. /\ new \in Row /\ new.pc = "known" /\ new.owner = owner
            /\ new.kind = requests[r].kind /\ new.user = requests[r].user
            /\ new.key = requests[r].key /\ new.token = requests[r].token
        BY <1>0, <3>1 DEF Row, RequestPc
      <3>4. RequestStep(r, new)
        BY <1>0, <3>2, <3>3 DEF RequestStep
      <3>5. QuietRequest(r, new)
        BY <1>7, <1>f, <3>1, <3>3, <3>4 DEF QuietRequest, Authenticate, Stands
      <3> QED BY <3>5, QuietRequestKeepsInv
    <2> QED BY <1>7, <2>1, <2>2 DEF Authenticate
  <1> QED BY <1>1, <1>2, <1>3, <1>4, <1>5, <1>6, <1>7

\* A new request claims nothing yet.
LEMMA ArriveKeepsInv ==
    ASSUME AccountsInv, AccountsAssumption, Arrive
    PROVE  AccountsInv'
  <1> DEFINE n == Len(requests) + 1
  <1>1. PICK kind \in {"register", "login", "report"}, u \in Users \union {NoUser},
             t \in {0} \union Requests, k \in ReportKeys \union {"NONE"} :
          /\ (kind = "report") <=> (u = NoUser)
          /\ (t # 0) => Stands(t, "login", "answered")
          /\ requests' = Append(requests, [kind |-> kind, pc |-> "new", user |-> u,
                token |-> t, key |-> k, row |-> 0, owner |-> 0, expires |-> 0])
    BY DEF Arrive
  <1> DEFINE new == [kind |-> kind, pc |-> "new", user |-> u, token |-> t, key |-> k,
                     row |-> 0, owner |-> 0, expires |-> 0]
  <1>2. new \in Row
    BY AccountsAssumption DEF Row, RequestPc, AccountsAssumption
  <1>3. requests \in Seq(Row) /\ Len(requests) < MaxRequests
    BY DEF AccountsInv, AccountsTypeOK, Arrive
  <1>4. /\ requests' \in Seq(Row) /\ Len(requests') = n
        /\ DOMAIN requests' = DOMAIN requests \union {n} /\ n \notin DOMAIN requests
        /\ requests'[n] = new
        /\ \A q \in DOMAIN requests : requests'[q] = requests[q]
    BY <1>1, <1>2, <1>3
  <1>5. UNCHANGED <<users, reports, clock, accountFaults>>
    BY DEF Arrive
  <1>6. new.pc = "new" /\ new.token = t /\ new.kind = kind /\ new.user = u
    OBVIOUS
  <1> HIDE DEF n, new
  <1>7. AccountsTypeOK' /\ Len(requests') <= MaxRequests
    BY <1>3, <1>4, <1>5, AccountsAssumption
    DEF AccountsInv, AccountsTypeOK, AccountsAssumption, n
  <1>8. TokensStand'
    BY <1>1, <1>4, <1>6 DEF AccountsInv, TokensStand, Stands
  <1>9. OwnersAreKnown'
    BY <1>1, <1>4, <1>6 DEF AccountsInv, OwnersAreKnown
  <1>10. UsersAreRegistered'
    BY <1>4, <1>5, <1>6 DEF AccountsInv, UsersAreRegistered, Stands
  <1>11. OpenEmailsAreFree'
    BY <1>4, <1>5, <1>6 DEF AccountsInv, OpenEmailsAreFree, Stands, AccountOf
  <1>12. ReportsAreAnswered'
    BY <1>4, <1>5, <1>6 DEF AccountsInv, ReportsAreAnswered, Stands, ReportOf
  <1>13. ReportsDiffer'
    BY <1>5 DEF AccountsInv, ReportsDiffer
  <1>14. OpenReportsAreFree'
    BY <1>4, <1>5, <1>6 DEF AccountsInv, OpenReportsAreFree, Stands, ReportOf, SameReport
  <1>15. AnswersStand'
    BY <1>4, <1>5, <1>6 DEF AccountsInv, AnswersStand, AccountOf, ReportOf, SameReport
  <1> QED
    BY <1>7, <1>8, <1>9, <1>10, <1>11, <1>12, <1>13, <1>14, <1>15 DEF AccountsInv

\* What follows a move that opens or answers a request, and leaves the tables.
LEMMA OpeningKeepsTypes ==
    ASSUME AccountsInv, NEW r, NEW new, RequestStep(r, new),
           UNCHANGED <<users, reports, clock, accountFaults>>,
           new.kind # "login", new.owner = requests[r].owner,
           new.kind = "report" => requests[r].pc \in {"known", "checked", "open", "conflict"},
           requests[r].pc # "answered"
    PROVE  /\ AccountsTypeOK' /\ Len(requests') <= MaxRequests
           /\ TokensStand' /\ OwnersAreKnown'
           /\ UsersAreRegistered' /\ ReportsAreAnswered' /\ ReportsDiffer'
  <1>0. /\ requests' \in Seq(Row) /\ Len(requests') = Len(requests)
        /\ DOMAIN requests' = DOMAIN requests
        /\ requests'[r] = new
        /\ \A q \in DOMAIN requests \ {r} : requests'[q] = requests[q]
    BY StepKeepsRequests
  <1>1. \A q \in DOMAIN requests : /\ requests'[q].kind = requests[q].kind
                                   /\ requests'[q].user = requests[q].user
                                   /\ requests'[q].key = requests[q].key
                                   /\ requests'[q].token = requests[q].token
    BY <1>0 DEF RequestStep
  <1>2. AccountsTypeOK' /\ Len(requests') <= MaxRequests
    BY <1>0 DEF AccountsInv, AccountsTypeOK
  <1>3. TokensStand'
    BY <1>0, <1>1 DEF AccountsInv, TokensStand, Stands
  <1>4. OwnersAreKnown'
    BY <1>0, <1>1 DEF AccountsInv, OwnersAreKnown
  <1>5. UsersAreRegistered'
    BY <1>0, <1>1 DEF AccountsInv, UsersAreRegistered, Stands
  <1>6. ReportsAreAnswered'
    BY <1>0, <1>1 DEF AccountsInv, ReportsAreAnswered, Stands, ReportOf
  <1>7. ReportsDiffer'
    BY DEF AccountsInv, ReportsDiffer
  <1> QED BY <1>2, <1>3, <1>4, <1>5, <1>6, <1>7

\* An insert that the unique constraint on the email lets in.
LEMMA InsertUserKeepsInv ==
    ASSUME AccountsInv, AccountsAssumption, NEW r \in Requests, InsertUser(r)
    PROVE  AccountsInv'
  <1> DEFINE new == [requests[r] EXCEPT !.pc = "open"]
  <1>1. CASE requests'[r].pc = "refused"
    BY <1>1, QuietActions
  <1>2. CASE requests'[r].pc # "refused"
    <2>1. r \in DOMAIN requests
      BY DEF InsertUser, Stands
    <2>2. requests[r] \in Row
      BY <2>1 DEF AccountsInv, AccountsTypeOK
    <2>3. PICK pc \in {"refused", "open"} :
            Advance(r, pc) /\ (pc = "open" => ~ EmailTaken(r))
      BY DEF InsertUser
    <2>4. pc = "open" /\ RequestStep(r, new)
      BY <1>2, <2>1, <2>3, MovesAreSteps DEF RequestPc
    <2>5. new.pc = "open" /\ new.kind = "register" /\ new.owner = requests[r].owner
      BY <2>2 DEF InsertUser, Stands, Row
    <2>6. requests[r].pc = "checked" /\ UNCHANGED <<users, reports, clock, accountFaults>>
      BY DEF InsertUser, Stands
    <2> HIDE DEF new
    <2>7. /\ DOMAIN requests' = DOMAIN requests
          /\ requests'[r] = new
          /\ \A q \in DOMAIN requests \ {r} : requests'[q] = requests[q]
      BY <2>4, StepKeepsRequests
    <2>8. \A q \in DOMAIN requests : requests'[q].user = requests[q].user
      BY <2>4, <2>7 DEF RequestStep
    <2>9. /\ AccountsTypeOK' /\ Len(requests') <= MaxRequests
          /\ TokensStand' /\ OwnersAreKnown'
          /\ UsersAreRegistered' /\ ReportsAreAnswered' /\ ReportsDiffer'
      BY <2>4, <2>5, <2>6, OpeningKeepsTypes
    <2>10. OpenEmailsAreFree'
      <3>1. AccountOf(requests[r].user.email) = {}
        BY <2>3, <2>4 DEF EmailTaken
      <3>2. \A q \in DOMAIN requests :
               Stands(q, "register", "open") => requests[q].user.email # requests[r].user.email
        BY DEF InsertUser
      <3> QED BY <2>5, <2>6, <2>7, <2>8, <3>1, <3>2
              DEF AccountsInv, OpenEmailsAreFree, Stands, AccountOf
    <2>11. OpenReportsAreFree'
      BY <2>5, <2>6, <2>7 DEF AccountsInv, OpenReportsAreFree, Stands, ReportOf, SameReport
    <2>12. AnswersStand'
      BY <2>5, <2>6, <2>7, <2>8 DEF AccountsInv, AnswersStand, AccountOf, ReportOf, SameReport
    <2> QED BY <2>9, <2>10, <2>11, <2>12 DEF AccountsInv
  <1> QED BY <1>1, <1>2

\* An insert that the unique constraint on the run lets in.
LEMMA InsertReportKeepsInv ==
    ASSUME AccountsInv, AccountsAssumption, NEW r \in Requests, InsertReport(r)
    PROVE  AccountsInv'
  <1> DEFINE new == [requests[r] EXCEPT !.pc = "open"]
  <1>1. CASE requests'[r].pc = "conflict"
    BY <1>1, QuietActions
  <1>2. CASE requests'[r].pc # "conflict"
    <2>1. r \in DOMAIN requests
      BY DEF InsertReport, Stands
    <2>2. requests[r] \in Row
      BY <2>1 DEF AccountsInv, AccountsTypeOK
    <2>3. PICK pc \in {"conflict", "open"} :
            Advance(r, pc) /\ (pc = "open" => SameReport(r) = {})
      BY DEF InsertReport
    <2>4. pc = "open" /\ RequestStep(r, new)
      BY <1>2, <2>1, <2>3, MovesAreSteps DEF RequestPc
    <2>5. new.pc = "open" /\ new.kind = "report" /\ new.owner = requests[r].owner
      BY <2>2 DEF InsertReport, Stands, Row
    <2>6. requests[r].pc = "checked" /\ UNCHANGED <<users, reports, clock, accountFaults>>
      BY DEF InsertReport, Stands
    <2> HIDE DEF new
    <2>7. /\ DOMAIN requests' = DOMAIN requests
          /\ requests'[r] = new
          /\ \A q \in DOMAIN requests \ {r} : requests'[q] = requests[q]
      BY <2>4, StepKeepsRequests
    <2>8. \A q \in DOMAIN requests : /\ requests'[q].user = requests[q].user
                                     /\ requests'[q].key = requests[q].key
                                     /\ ReportOf(q)' = ReportOf(q)
      BY <2>4, <2>5, <2>7 DEF RequestStep, ReportOf
    <2>9. /\ AccountsTypeOK' /\ Len(requests') <= MaxRequests
          /\ TokensStand' /\ OwnersAreKnown'
          /\ UsersAreRegistered' /\ ReportsAreAnswered' /\ ReportsDiffer'
      BY <2>4, <2>5, <2>6, OpeningKeepsTypes
    <2>10. OpenReportsAreFree'
      <3>1. SameReport(r) = {}
        BY <2>3, <2>4
      <3>2. \A q \in DOMAIN requests :
               Stands(q, "report", "open") => ReportOf(q) # ReportOf(r) \/ requests[r].key = "NONE"
        BY DEF InsertReport
      <3>3. \A q \in DOMAIN requests : SameReport(q)' = SameReport(q)
        BY <2>6, <2>8 DEF SameReport
      <3>4. \A q \in DOMAIN requests : ReportOf(q).key = requests[q].key
        BY DEF ReportOf
      <3> QED BY <2>5, <2>6, <2>7, <2>8, <3>1, <3>2, <3>3, <3>4
              DEF AccountsInv, OpenReportsAreFree, Stands
    <2>11. OpenEmailsAreFree'
      BY <2>5, <2>6, <2>7, <2>8 DEF AccountsInv, OpenEmailsAreFree, Stands, AccountOf
    <2>12. AnswersStand'
      BY <2>5, <2>6, <2>7, <2>8 DEF AccountsInv, AnswersStand, AccountOf, ReportOf, SameReport
    <2> QED BY <2>9, <2>10, <2>11, <2>12 DEF AccountsInv
  <1> QED BY <1>1, <1>2

\* The row of an account appears with the answer to its registration.
LEMMA CommitUserKeepsInv ==
    ASSUME AccountsInv, AccountsAssumption, NEW r \in Requests, CommitUser(r)
    PROVE  AccountsInv'
  <1> DEFINE new == [requests[r] EXCEPT !.pc = "answered", !.row = r]
             email == requests[r].user.email
  <1>1. r \in DOMAIN requests /\ Stands(r, "register", "open")
    BY DEF CommitUser, Stands
  <1>2. requests[r] \in Row /\ r \in Owners \ {EarlierAccount, DevOwner}
    BY <1>1, AccountsAssumption DEF AccountsInv, AccountsTypeOK, AccountsAssumption, Owners,
       Requests, EarlierAccount, DevOwner
  <1>3. RequestStep(r, new)
    BY <1>1, <1>2, MovesAreSteps DEF CommitUser, RequestPc
  <1>4. new.pc = "answered" /\ new.kind = "register"
    BY <1>1, <1>2 DEF Stands, Row
  <1>5. UNCHANGED <<reports, clock, accountFaults>>
    BY DEF CommitUser
  <1> HIDE DEF new
  <1>6. /\ requests' \in Seq(Row) /\ Len(requests') = Len(requests)
        /\ DOMAIN requests' = DOMAIN requests
        /\ requests'[r] = new
        /\ \A q \in DOMAIN requests \ {r} : requests'[q] = requests[q]
    BY <1>3, StepKeepsRequests
  <1>7. \A q \in DOMAIN requests : /\ requests'[q].kind = requests[q].kind
                                   /\ requests'[q].user = requests[q].user
                                   /\ requests'[q].key = requests[q].key
                                   /\ requests'[q].token = requests[q].token
    BY <1>3, <1>6 DEF RequestStep
  <1>8. requests[r].user \in Users
    BY <1>1 DEF AccountsInv, OwnersAreKnown, Stands
  <1>9. AccountOf(email) = {} /\ r \notin DOMAIN users
    BY <1>1, <1>2 DEF AccountsInv, OpenEmailsAreFree, UsersAreRegistered, Stands
  <1>10. /\ DOMAIN users' = DOMAIN users \union {r}
         /\ users'[r] = requests[r].user
         /\ \A u \in DOMAIN users : users'[u] = users[u]
    BY <1>9 DEF CommitUser, With
  <1>11. /\ AccountOf(email)' = {r}
         /\ \A q \in DOMAIN requests : requests[q].user.email # email =>
               AccountOf(requests[q].user.email)' = AccountOf(requests[q].user.email)
    BY <1>7, <1>1, <1>9, <1>10 DEF AccountOf
  <1>12. AccountsTypeOK' /\ Len(requests') <= MaxRequests
    BY <1>2, <1>5, <1>6, <1>8, <1>10 DEF AccountsInv, AccountsTypeOK
  <1>13. TokensStand'
    <2>1. \A q \in Requests : Stands(q, "login", "answered")' <=> Stands(q, "login", "answered")
      BY <1>1, <1>4, <1>6 DEF Stands
    <2>2. \A q \in DOMAIN requests :
            /\ requests[q].token # 0 => Stands(requests[q].token, "login", "answered")
            /\ Stands(q, "login", "answered") => requests'[q].row \in Owners
      BY <1>1, <1>6 DEF AccountsInv, TokensStand, Stands
    <2>3. DOMAIN requests \subseteq Requests
      BY AccountsAssumption DEF AccountsInv, AccountsTypeOK, Requests, AccountsAssumption
    <2>4. \A q \in DOMAIN requests : requests[q].token # 0 => requests[q].token \in Requests
      BY <2>2, <2>3 DEF Stands
    <2> QED BY <1>6, <1>7, <2>1, <2>2, <2>3, <2>4 DEF TokensStand
  <1>14. OwnersAreKnown'
    BY <1>4, <1>6, <1>7 DEF AccountsInv, OwnersAreKnown
  <1>15. UsersAreRegistered'
    BY <1>1, <1>4, <1>6, <1>7, <1>10 DEF AccountsInv, UsersAreRegistered, Stands
  <1>16. OpenEmailsAreFree'
    <2>1. \A q \in DOMAIN requests \ {r} :
             Stands(q, "register", "open") => requests[q].user.email # email
      BY <1>1 DEF AccountsInv, OpenEmailsAreFree
    <2> QED BY <1>4, <1>6, <1>7, <1>11, <2>1
            DEF AccountsInv, OpenEmailsAreFree, Stands, AccountOf
  <1>17. ReportsAreAnswered'
    BY <1>1, <1>5, <1>6, <1>7 DEF AccountsInv, ReportsAreAnswered, Stands, ReportOf
  <1>18. ReportsDiffer'
    BY <1>5 DEF AccountsInv, ReportsDiffer
  <1>19. OpenReportsAreFree'
    BY <1>1, <1>4, <1>5, <1>6, <1>7
    DEF AccountsInv, OpenReportsAreFree, Stands, ReportOf, SameReport
  <1>20. AnswersStand'
    <2>1. \A q \in DOMAIN requests \ {r} : requests[q].pc = "answered" /\ requests[q].kind = "register"
             => AccountOf(requests[q].user.email)' = {q}
      <3> SUFFICES ASSUME NEW q \in DOMAIN requests \ {r}, requests[q].pc = "answered",
                          requests[q].kind = "register"
                   PROVE  AccountOf(requests[q].user.email)' = {q}
        OBVIOUS
      <3>1. AccountOf(requests[q].user.email) = {q}
        BY DEF AccountsInv, AnswersStand
      <3>2. requests[q].user.email # email
        BY <1>9, <3>1
      <3> QED BY <1>11, <3>1, <3>2
    <2> QED BY <1>1, <1>4, <1>5, <1>6, <1>7, <1>11, <2>1
            DEF AccountsInv, AnswersStand, ReportOf, SameReport, Stands, AccountOf
  <1> QED BY <1>12, <1>13, <1>14, <1>15, <1>16, <1>17, <1>18, <1>19, <1>20 DEF AccountsInv

\* The row of a report appears with the answer to its request.
LEMMA CommitReportKeepsInv ==
    ASSUME AccountsInv, AccountsAssumption, NEW r \in Requests, CommitReport(r)
    PROVE  AccountsInv'
  <1> DEFINE new == [requests[r] EXCEPT !.pc = "answered", !.row = r]
  <1>1. r \in DOMAIN requests /\ Stands(r, "report", "open")
    BY DEF CommitReport, Stands
  <1>2. requests[r] \in Row /\ r \in Owners
    BY <1>1, AccountsAssumption DEF AccountsInv, AccountsTypeOK, AccountsAssumption, Owners,
       Requests, DevOwner
  <1>3. RequestStep(r, new)
    BY <1>1, <1>2, MovesAreSteps DEF CommitReport, RequestPc
  <1>4. new.pc = "answered" /\ new.kind = "report" /\ new.row = r /\ new.owner = requests[r].owner
    BY <1>1, <1>2 DEF Stands, Row
  <1>5. UNCHANGED <<users, clock, accountFaults>>
    BY DEF CommitReport
  <1> HIDE DEF new
  <1>6. /\ requests' \in Seq(Row) /\ Len(requests') = Len(requests)
        /\ DOMAIN requests' = DOMAIN requests
        /\ requests'[r] = new
        /\ \A q \in DOMAIN requests \ {r} : requests'[q] = requests[q]
    BY <1>3, StepKeepsRequests
  <1>7. \A q \in DOMAIN requests : /\ requests'[q].kind = requests[q].kind
                                   /\ requests'[q].user = requests[q].user
                                   /\ requests'[q].key = requests[q].key
                                   /\ requests'[q].token = requests[q].token
                                   /\ ReportOf(q)' = ReportOf(q)
    BY <1>3, <1>4, <1>6 DEF RequestStep, ReportOf
  <1>8. ReportOf(r) \in Reports
    BY <1>1, <1>2 DEF AccountsInv, OwnersAreKnown, Stands, Reports, ReportOf, Row
  <1>9. r \notin DOMAIN reports /\ (requests[r].key # "NONE" => SameReport(r) = {})
    BY <1>1 DEF AccountsInv, OpenReportsAreFree, ReportsAreAnswered, Stands
  <1>10. /\ DOMAIN reports' = DOMAIN reports \union {r}
         /\ reports'[r] = ReportOf(r)
         /\ \A p \in DOMAIN reports : reports'[p] = reports[p]
    BY <1>9 DEF CommitReport, With
  <1>11. ReportOf(r).key = requests[r].key
    BY DEF ReportOf
  <1>12. /\ requests[r].key # "NONE" => SameReport(r)' = {r}
         /\ \A q \in DOMAIN requests : ReportOf(q) # ReportOf(r) => SameReport(q)' = SameReport(q)
    BY <1>1, <1>7, <1>9, <1>10 DEF SameReport
  <1>13. AccountsTypeOK' /\ Len(requests') <= MaxRequests
    BY <1>5, <1>6, <1>8, <1>10 DEF AccountsInv, AccountsTypeOK, Requests
  <1>14. TokensStand'
    BY <1>1, <1>4, <1>6, <1>7 DEF AccountsInv, TokensStand, Stands
  <1>15. OwnersAreKnown'
    BY <1>4, <1>6, <1>7 DEF AccountsInv, OwnersAreKnown
  <1>16. UsersAreRegistered'
    BY <1>1, <1>4, <1>5, <1>6, <1>7 DEF AccountsInv, UsersAreRegistered, Stands
  <1>17. OpenEmailsAreFree'
    BY <1>1, <1>4, <1>5, <1>6, <1>7 DEF AccountsInv, OpenEmailsAreFree, Stands, AccountOf
  <1>18. ReportsAreAnswered'
    BY <1>1, <1>4, <1>6, <1>7, <1>10 DEF AccountsInv, ReportsAreAnswered, Stands
  <1>19. ReportsDiffer'
    BY <1>9, <1>10, <1>11 DEF AccountsInv, ReportsDiffer, SameReport
  <1>20. OpenReportsAreFree'
    <2>1. \A q \in DOMAIN requests \ {r} : Stands(q, "report", "open") /\ requests[q].key # "NONE" =>
             ReportOf(q) # ReportOf(r)
      BY <1>1 DEF AccountsInv, OpenReportsAreFree
    <2> QED BY <1>4, <1>6, <1>7, <1>12, <2>1 DEF AccountsInv, OpenReportsAreFree, Stands
  <1>21. AnswersStand'
    <2>1. ASSUME NEW q \in DOMAIN requests \ {r}, requests[q].pc = "answered",
                 requests[q].kind = "report"
          PROVE  /\ requests'[q].row \in DOMAIN reports'
                 /\ reports'[requests'[q].row] = ReportOf(q)'
                 /\ requests'[q].key # "NONE" => SameReport(q)' = {requests'[q].row}
      <3>1. /\ requests[q].row \in DOMAIN reports
            /\ reports[requests[q].row] = ReportOf(q)
            /\ requests[q].key # "NONE" => SameReport(q) = {requests[q].row}
        BY <2>1 DEF AccountsInv, AnswersStand
      <3>2. requests[q].key # "NONE" => ReportOf(q) # ReportOf(r)
        <4>1. ReportOf(q) = ReportOf(r) => requests[q].key = requests[r].key
          BY DEF ReportOf
        <4> QED BY <1>9, <3>1, <4>1 DEF SameReport
      <3> QED BY <1>6, <1>7, <1>10, <1>12, <2>1, <3>1, <3>2
    <2>2. \A q \in DOMAIN requests \ {r} :
             requests[q].pc = "answered" /\ requests[q].kind = "register" =>
                AccountOf(requests[q].user.email)' = {q}
      BY <1>5, <1>7 DEF AccountsInv, AnswersStand, AccountOf
    <2>3. /\ requests'[r].row \in DOMAIN reports'
          /\ reports'[requests'[r].row] = ReportOf(r)'
          /\ requests'[r].key # "NONE" => SameReport(r)' = {requests'[r].row}
      BY <1>1, <1>4, <1>6, <1>7, <1>10, <1>12
    <2> QED BY <1>4, <1>6, <1>7, <2>1, <2>2, <2>3 DEF AnswersStand
  <1> QED BY <1>13, <1>14, <1>15, <1>16, <1>17, <1>18, <1>19, <1>20, <1>21 DEF AccountsInv

\* The answer is a row that is there, before the insert or in its way.
LEMMA AnswerFromTableKeepsInv ==
    ASSUME AccountsInv, AccountsAssumption, NEW r \in Requests, NEW p \in SameReport(r),
           Stands(r, "report", "known") \/ Stands(r, "report", "conflict"),
           Reply(r, "answered", p), UNCHANGED <<users, reports, clock, accountFaults>>
    PROVE  AccountsInv'
  <1> DEFINE new == [requests[r] EXCEPT !.pc = "answered", !.row = p]
  <1>1. r \in DOMAIN requests
    BY DEF Stands
  <1>2. requests[r] \in Row
    BY <1>1 DEF AccountsInv, AccountsTypeOK
  <1>3. p \in DOMAIN reports /\ reports[p] = ReportOf(r) /\ requests[r].key # "NONE" /\ p \in Owners
    BY DEF SameReport, AccountsInv, AccountsTypeOK, Owners, Requests, DevOwner
  <1>4. RequestStep(r, new)
    BY <1>1, <1>3, MovesAreSteps DEF RequestPc
  <1>5. /\ new.pc = "answered" /\ new.kind = "report" /\ new.row = p
        /\ new.owner = requests[r].owner
    BY <1>2 DEF Stands, Row
  <1>6. requests[r].pc \in {"known", "conflict"} /\ requests[r].kind = "report"
    BY DEF Stands
  <1> HIDE DEF new
  <1>7. /\ DOMAIN requests' = DOMAIN requests
        /\ requests'[r] = new
        /\ \A q \in DOMAIN requests \ {r} : requests'[q] = requests[q]
    BY <1>4, StepKeepsRequests
  <1>8. \A q \in DOMAIN requests : /\ requests'[q].kind = requests[q].kind
                                   /\ requests'[q].user = requests[q].user
                                   /\ requests'[q].key = requests[q].key
                                   /\ ReportOf(q)' = ReportOf(q)
                                   /\ SameReport(q)' = SameReport(q)
    <2>1. \A q \in DOMAIN requests : /\ requests'[q].kind = requests[q].kind
                                     /\ requests'[q].user = requests[q].user
                                     /\ requests'[q].key = requests[q].key
                                     /\ requests'[q].owner = requests[q].owner
      BY <1>4, <1>5, <1>7 DEF RequestStep
    <2> QED BY <2>1 DEF ReportOf, SameReport
  <1>9. /\ AccountsTypeOK' /\ Len(requests') <= MaxRequests
        /\ TokensStand' /\ OwnersAreKnown'
        /\ UsersAreRegistered' /\ ReportsAreAnswered' /\ ReportsDiffer'
    BY <1>4, <1>5, <1>6, OpeningKeepsTypes
  <1>10. OpenEmailsAreFree'
    BY <1>5, <1>6, <1>7, <1>8 DEF AccountsInv, OpenEmailsAreFree, Stands, AccountOf
  <1>11. OpenReportsAreFree'
    BY <1>5, <1>6, <1>7, <1>8 DEF AccountsInv, OpenReportsAreFree, Stands
  <1>12. SameReport(r) = {p}
    BY <1>3 DEF AccountsInv, ReportsDiffer, SameReport, ReportOf
  <1>13. AnswersStand'
    BY <1>3, <1>5, <1>7, <1>8, <1>12 DEF AccountsInv, AnswersStand, AccountOf
  <1> QED BY <1>9, <1>10, <1>11, <1>13 DEF AccountsInv

\* Every report that is looked up is answered or goes on to its insert.
LEMMA LookUpReportKeepsInv ==
    ASSUME AccountsInv, AccountsAssumption, NEW r \in Requests, LookUpReport(r)
    PROVE  AccountsInv'
  <1>1. CASE Advance(r, "checked")
    <2>1. requests'[r].pc = "checked"
      BY <1>1, MovesAreSteps DEF LookUpReport, Stands, RequestPc
    <2> QED BY <2>1, QuietActions
  <1>2. CASE \E p \in SameReport(r) : Reply(r, "answered", p)
    BY <1>2, AnswerFromTableKeepsInv DEF LookUpReport
  <1> QED BY <1>1, <1>2 DEF LookUpReport
-----------------------------------------------------------------------------
(* The theorems *)

\* Nothing has been asked of the initial state.
LEMMA InitEstablishesInv ==
    ASSUME AccountsInit, AccountsAssumption
    PROVE  AccountsInv
  <1>1. requests = << >> /\ DOMAIN requests = {} /\ Len(requests) = 0 /\ requests \in Seq(Row)
    BY DEF AccountsInit
  <1>2. DOMAIN reports = {}
    BY DEF AccountsInit
  <1>3. DOMAIN users \subseteq {EarlierAccount} /\ \A u \in DOMAIN users : users[u] \in Users
    BY DEF AccountsInit
  <1>4. AccountsTypeOK
    BY <1>1, <1>2, <1>3, AccountsAssumption DEF AccountsTypeOK, AccountsInit,
       AccountsAssumption, Owners, EarlierAccount, DevOwner
  <1> QED BY <1>1, <1>2, <1>3, <1>4, AccountsAssumption
          DEF AccountsInv, TokensStand, OwnersAreKnown, UsersAreRegistered, OpenEmailsAreFree,
              ReportsAreAnswered, ReportsDiffer, OpenReportsAreFree, AnswersStand,
              AccountsAssumption

\* Every step of the tables keeps them.
LEMMA StepKeepsInv ==
    ASSUME AccountsInv, AccountsAssumption, [AccountsNext]_accountVars
    PROVE  AccountsInv'
  <1>1. CASE PassTime
    <2>1. clock' \in 0..MaxClock /\ UNCHANGED <<users, reports, requests, accountFaults>>
      BY <1>1, AccountsAssumption DEF PassTime, AccountsInv, AccountsTypeOK, AccountsAssumption
    <2> QED BY <2>1 DEF AccountsInv, AccountsTypeOK, TokensStand, OwnersAreKnown,
              UsersAreRegistered, OpenEmailsAreFree, ReportsAreAnswered, ReportsDiffer,
              OpenReportsAreFree, AnswersStand, Stands, AccountOf, ReportOf, SameReport
  <1>2. ASSUME NEW r \in Requests, ReadConflict(r)
        PROVE  AccountsInv'
    BY <1>2, AnswerFromTableKeepsInv DEF ReadConflict
  <1>3. CASE UNCHANGED accountVars
    BY <1>3 DEF accountVars, AccountsInv, AccountsTypeOK, TokensStand, OwnersAreKnown,
       UsersAreRegistered, OpenEmailsAreFree, ReportsAreAnswered, ReportsDiffer,
       OpenReportsAreFree, AnswersStand, Stands, AccountOf, ReportOf, SameReport
  <1> QED BY <1>1, <1>2, <1>3, ArriveKeepsInv, QuietActions, InsertUserKeepsInv, CommitUserKeepsInv,
             LookUpReportKeepsInv, InsertReportKeepsInv, CommitReportKeepsInv DEF AccountsNext

\* The invariant holds in every reachable state.
THEOREM AccountsAreConsistent == AccountsSpec => []AccountsInv
  <1>1. AccountsInit => AccountsInv
    BY InitEstablishesInv, AccountsAssumption
  <1>2. AccountsInv /\ [AccountsNext]_accountVars => AccountsInv'
    BY StepKeepsInv, AccountsAssumption
  <1> QED BY <1>1, <1>2, PTL DEF AccountsSpec

\* However registrations, logins and reports race, fail or are repeated: an
\* account that was answered is the only one with its email, and the report that
\* was answered is of its owner and key, one for all the repeats of a run
\* (register_account, create_automation_report).
THEOREM AnswersAlwaysStand == AccountsSpec => []AnswersStand
  <1>1. AccountsInv => AnswersStand
    BY DEF AccountsInv
  <1> QED BY <1>1, AccountsAreConsistent, PTL

\* Every variable of the tables keeps its type.
THEOREM AccountsTypeCorrect == AccountsSpec => []AccountsTypeOK
  <1>1. AccountsInv => AccountsTypeOK
    BY DEF AccountsInv
  <1> QED BY <1>1, AccountsAreConsistent, PTL
-----------------------------------------------------------------------------
(* Migrations: what the scripts are made of *)

\* Items are pairs and triples; an operation makes and removes such items.
ItemsAreFine(items) == \A i \in items : Len(i) \in 2..3
ScriptIsFine(script) == \E S : script \in Seq(S) /\ \A o \in S : ItemsAreFine(o.items)

\* Every operation of alembic that the scripts use is one of these.
LEMMA OperationsAreFine ==
    /\ \A t, columns, parents, keys :
          ItemsAreFine(CreateTable(t, columns, parents, keys).items)
    /\ \A t, columns : /\ ItemsAreFine(CreateIndex(t, columns).items)
                       /\ ItemsAreFine(DropIndex(t, columns).items)
    /\ \A t, c : /\ ItemsAreFine(AddColumn(t, c).items)
                 /\ ItemsAreFine(DropColumn(t, c).items)
    /\ \A t : ItemsAreFine(DropTable(t).items)
    /\ \A t, item : Len(item) \in 2..3 => /\ ItemsAreFine(Ensure(t, item).items)
                                          /\ ItemsAreFine(EnsureNot(t, item).items)
    /\ Len(HnswIndex) \in 2..3 /\ Len(TsvIndex) \in 2..3 /\ Len(Extension) \in 2..3
  <1>1. \A t, x : /\ Len(Column(t, x)) = 3 /\ Len(ForeignKey(t, x)) = 3
                  /\ Len(Unique(t, x)) = 3 /\ Len(Index(t, x)) = 3
    BY DEF Column, ForeignKey, Unique, Index
  <1>2. Len(HnswIndex) = 3 /\ Len(TsvIndex) = 3 /\ Len(Extension) = 2
    BY DEF HnswIndex, TsvIndex, Extension
  <1>3. \A t, columns, parents, keys : ItemsAreFine(Table(t, columns, parents, keys))
    BY <1>1 DEF ItemsAreFine, Table
  <1>4. \A t, columns, parents, keys :
          ItemsAreFine(CreateTable(t, columns, parents, keys).items)
    BY <1>3 DEF CreateTable
  <1>5. \A t, columns : /\ ItemsAreFine(CreateIndex(t, columns).items)
                        /\ ItemsAreFine(DropIndex(t, columns).items)
    BY <1>1 DEF ItemsAreFine, CreateIndex, DropIndex
  <1>6. \A t, c : /\ ItemsAreFine(AddColumn(t, c).items)
                  /\ ItemsAreFine(DropColumn(t, c).items)
    BY <1>1 DEF ItemsAreFine, AddColumn, DropColumn
  <1>7. \A t : ItemsAreFine(DropTable(t).items)
    BY DEF ItemsAreFine, DropTable
  <1>8. \A t, item : Len(item) \in 2..3 => /\ ItemsAreFine(Ensure(t, item).items)
                                           /\ ItemsAreFine(EnsureNot(t, item).items)
    BY DEF ItemsAreFine, Ensure, EnsureNot
  <1> QED BY <1>2, <1>4, <1>5, <1>6, <1>7, <1>8

\* A script of fine operations is fine.
LEMMA ScriptOf ==
    ASSUME NEW S, NEW script \in Seq(S), \A o \in S : ItemsAreFine(o.items)
    PROVE  ScriptIsFine(script)
  BY DEF ScriptIsFine

\* How the scripts are put together.
LEMMA FineScripts ==
    /\ \A o : ItemsAreFine(o.items) => ScriptIsFine(<<o>>)
    /\ \A p, q : ScriptIsFine(p) /\ ScriptIsFine(q) => ScriptIsFine(p \o q)
    /\ ScriptIsFine(<< >>)
    /\ \A t, n : n \in Nat => \A f : DOMAIN f = 1..n => ScriptIsFine(CreateIndexes(t, f))
  <1>1. ASSUME NEW o, ItemsAreFine(o.items) PROVE ScriptIsFine(<<o>>)
    <2> DEFINE s == <<o>>
    <2>1. s \in Seq({o}) /\ \A p \in {o} : ItemsAreFine(p.items)
      BY <1>1
    <2> HIDE DEF s
    <2>2. ScriptIsFine(s)
      BY <2>1, ScriptOf
    <2> QED BY <2>2 DEF s
  <1>2. ASSUME NEW p, NEW q, ScriptIsFine(p), ScriptIsFine(q) PROVE ScriptIsFine(p \o q)
    <2>1. PICK S : p \in Seq(S) /\ \A o \in S : ItemsAreFine(o.items)
      BY <1>2 DEF ScriptIsFine
    <2>2. PICK T : q \in Seq(T) /\ \A o \in T : ItemsAreFine(o.items)
      BY <1>2 DEF ScriptIsFine
    <2>3. p \in Seq(S \union T) /\ q \in Seq(S \union T)
      BY <2>1, <2>2
    <2>4. p \o q \in Seq(S \union T)
      BY <2>3, ConcatProperties
    <2>5. \A o \in S \union T : ItemsAreFine(o.items)
      BY <2>1, <2>2
    <2> QED BY <2>4, <2>5 DEF ScriptIsFine
  <1>3. ScriptIsFine(<< >>)
    <2> DEFINE s == << >>
    <2>1. s \in Seq({})
      OBVIOUS
    <2> HIDE DEF s
    <2>2. ScriptIsFine(s)
      BY <2>1, ScriptOf
    <2> QED BY <2>2 DEF s
  <1>4. ASSUME NEW t, NEW n \in Nat, NEW f, DOMAIN f = 1..n
        PROVE  ScriptIsFine(CreateIndexes(t, f))
    <2> DEFINE S == {CreateIndex(t, f[i]) : i \in 1..n}
    <2>1. CreateIndexes(t, f) \in Seq(S)
      <3>1. CreateIndexes(t, f) = [i \in 1..n |-> CreateIndex(t, f[i])]
        BY <1>4 DEF CreateIndexes
      <3> QED BY <3>1
    <2>2. \A o \in S : ItemsAreFine(o.items)
      BY OperationsAreFine
    <2> QED BY <2>1, <2>2 DEF ScriptIsFine
  <1> QED BY <1>1, <1>2, <1>3, <1>4

\* A script of two fine operations.
LEMMA TwoOperations ==
    ASSUME NEW o1, NEW o2, ItemsAreFine(o1.items), ItemsAreFine(o2.items)
    PROVE  ScriptIsFine(<<o1, o2>>)
  <1> DEFINE s == <<o1, o2>>
             S == {o1, o2}
  <1>1. s \in Seq(S) /\ \A o \in S : ItemsAreFine(o.items)
    OBVIOUS
  <1> HIDE DEF s, S
  <1>2. ScriptIsFine(s)
    BY <1>1, ScriptOf
  <1> QED BY <1>2 DEF s

\* A script of three fine operations.
LEMMA ThreeOperations ==
    ASSUME NEW o1, NEW o2, NEW o3, ItemsAreFine(o1.items), ItemsAreFine(o2.items),
           ItemsAreFine(o3.items)
    PROVE  ScriptIsFine(<<o1, o2, o3>>)
  <1> DEFINE s == <<o1, o2, o3>>
             S == {o1, o2, o3}
  <1>1. s \in Seq(S) /\ \A o \in S : ItemsAreFine(o.items)
    OBVIOUS
  <1> HIDE DEF s, S
  <1>2. ScriptIsFine(s)
    BY <1>1, ScriptOf
  <1> QED BY <1>2 DEF s

\* A script of five fine operations.
LEMMA FiveOperations ==
    ASSUME NEW o1, NEW o2, NEW o3, NEW o4, NEW o5, ItemsAreFine(o1.items),
           ItemsAreFine(o2.items), ItemsAreFine(o3.items), ItemsAreFine(o4.items),
           ItemsAreFine(o5.items)
    PROVE  ScriptIsFine(<<o1, o2, o3, o4, o5>>)
  <1> DEFINE s == <<o1, o2, o3, o4, o5>>
             S == {o1, o2, o3, o4, o5}
  <1>1. s \in Seq(S) /\ \A o \in S : ItemsAreFine(o.items)
    OBVIOUS
  <1> HIDE DEF s, S
  <1>2. ScriptIsFine(s)
    BY <1>1, ScriptOf
  <1> QED BY <1>2 DEF s

\* A script of seven fine operations.
LEMMA SevenOperations ==
    ASSUME NEW o1, NEW o2, NEW o3, NEW o4, NEW o5, NEW o6, NEW o7,
           ItemsAreFine(o1.items), ItemsAreFine(o2.items), ItemsAreFine(o3.items),
           ItemsAreFine(o4.items), ItemsAreFine(o5.items), ItemsAreFine(o6.items),
           ItemsAreFine(o7.items)
    PROVE  ScriptIsFine(<<o1, o2, o3, o4, o5, o6, o7>>)
  <1> DEFINE s == <<o1, o2, o3, o4, o5, o6, o7>>
             S == {o1, o2, o3, o4, o5, o6, o7}
  <1>1. s \in Seq(S) /\ \A o \in S : ItemsAreFine(o.items)
    OBVIOUS
  <1> HIDE DEF s, S
  <1>2. ScriptIsFine(s)
    BY <1>1, ScriptOf
  <1> QED BY <1>2 DEF s

\* A script of nine fine operations.
LEMMA NineOperations ==
    ASSUME NEW o1, NEW o2, NEW o3, NEW o4, NEW o5, NEW o6, NEW o7, NEW o8, NEW o9,
           ItemsAreFine(o1.items), ItemsAreFine(o2.items), ItemsAreFine(o3.items),
           ItemsAreFine(o4.items), ItemsAreFine(o5.items), ItemsAreFine(o6.items),
           ItemsAreFine(o7.items), ItemsAreFine(o8.items), ItemsAreFine(o9.items)
    PROVE  ScriptIsFine(<<o1, o2, o3, o4, o5, o6, o7, o8, o9>>)
  <1> DEFINE s == <<o1, o2, o3, o4, o5, o6, o7, o8, o9>>
             S == {o1, o2, o3, o4, o5, o6, o7, o8, o9}
  <1>1. s \in Seq(S) /\ \A o \in S : ItemsAreFine(o.items)
    OBVIOUS
  <1> HIDE DEF s, S
  <1>2. ScriptIsFine(s)
    BY <1>1, ScriptOf
  <1> QED BY <1>2 DEF s

\* Two indexes.
LEMMA TwoIndexes ==
    ASSUME NEW t, NEW a, NEW b
    PROVE  ScriptIsFine(CreateIndexes(t, <<a, b>>))
  <1> DEFINE f == <<a, b>>
  <1>1. DOMAIN f = 1..2
    OBVIOUS
  <1> HIDE DEF f
  <1>2. ScriptIsFine(CreateIndexes(t, f))
    BY <1>1, FineScripts, 2 \in Nat
  <1> QED BY <1>2 DEF f

\* Three indexes.
LEMMA ThreeIndexes ==
    ASSUME NEW t, NEW a, NEW b, NEW c
    PROVE  ScriptIsFine(CreateIndexes(t, <<a, b, c>>))
  <1> DEFINE f == <<a, b, c>>
  <1>1. DOMAIN f = 1..3
    OBVIOUS
  <1> HIDE DEF f
  <1>2. ScriptIsFine(CreateIndexes(t, f))
    BY <1>1, FineScripts, 3 \in Nat
  <1> QED BY <1>2 DEF f

\* Four indexes.
LEMMA FourIndexes ==
    ASSUME NEW t, NEW a, NEW b, NEW c, NEW d
    PROVE  ScriptIsFine(CreateIndexes(t, <<a, b, c, d>>))
  <1> DEFINE f == <<a, b, c, d>>
  <1>1. DOMAIN f = 1..4
    OBVIOUS
  <1> HIDE DEF f
  <1>2. ScriptIsFine(CreateIndexes(t, f))
    BY <1>1, FineScripts, 4 \in Nat
  <1> QED BY <1>2 DEF f

\* Five indexes.
LEMMA FiveIndexes ==
    ASSUME NEW t, NEW a, NEW b, NEW c, NEW d, NEW e
    PROVE  ScriptIsFine(CreateIndexes(t, <<a, b, c, d, e>>))
  <1> DEFINE f == <<a, b, c, d, e>>
  <1>1. DOMAIN f = 1..5
    OBVIOUS
  <1> HIDE DEF f
  <1>2. ScriptIsFine(CreateIndexes(t, f))
    BY <1>1, FineScripts, 5 \in Nat
  <1> QED BY <1>2 DEF f

\* Six indexes.
LEMMA SixIndexes ==
    ASSUME NEW t, NEW a, NEW b, NEW c, NEW d, NEW e, NEW g
    PROVE  ScriptIsFine(CreateIndexes(t, <<a, b, c, d, e, g>>))
  <1> DEFINE f == <<a, b, c, d, e, g>>
  <1>1. DOMAIN f = 1..6
    OBVIOUS
  <1> HIDE DEF f
  <1>2. ScriptIsFine(CreateIndexes(t, f))
    BY <1>1, FineScripts, 6 \in Nat
  <1> QED BY <1>2 DEF f

\* A script that goes on is fine if its parts are.
LEMMA ConcatIsFine == \A p, q : ScriptIsFine(p) /\ ScriptIsFine(q) => ScriptIsFine(p \o q)
  BY FineScripts

\* A table alone.
LEMMA TableIsFine ==
    ASSUME NEW t, NEW columns, NEW parents, NEW keys
    PROVE  ScriptIsFine(<<CreateTable(t, columns, parents, keys)>>)
  BY OperationsAreFine, FineScripts

\* The tables of the documents.
LEMMA DocumentsAreFine ==
    /\ ScriptIsFine(CreateKnowledgeBases)
    /\ ScriptIsFine(CreateDocuments)
    /\ ScriptIsFine(CreateVersions)
    /\ ScriptIsFine(CreateChunks)
    /\ ScriptIsFine(CreateJobs)
    /\ ScriptIsFine(DropDocumentManagement)
  <1>1. ScriptIsFine(CreateKnowledgeBases)
    BY TwoIndexes, ConcatIsFine, TableIsFine, Zenon DEF CreateKnowledgeBases
  <1>2. ScriptIsFine(CreateDocuments)
    BY FiveIndexes, ConcatIsFine, TableIsFine, Zenon DEF CreateDocuments
  <1>3. ScriptIsFine(CreateVersions)
    BY FourIndexes, ConcatIsFine, TableIsFine, Zenon DEF CreateVersions
  <1>4. ScriptIsFine(CreateChunks)
    BY FourIndexes, ConcatIsFine, TableIsFine, Zenon DEF CreateChunks
  <1>5. ScriptIsFine(CreateJobs)
    BY SixIndexes, ConcatIsFine, TableIsFine, Zenon DEF CreateJobs
  <1>6. \A t : ItemsAreFine(DropTable(t).items)
    BY OperationsAreFine
  <1>7. ScriptIsFine(DropDocumentManagement)
    BY <1>6, FiveOperations, Zenon DEF DropDocumentManagement
  <1> QED BY <1>1, <1>2, <1>3, <1>4, <1>5, <1>7

\* The scripts of the searches.
LEMMA SearchesAreFine ==
    /\ ScriptIsFine(AddEmbeddings)
    /\ ScriptIsFine(DropEmbeddings)
    /\ ScriptIsFine(CreateRagQueries)
    /\ ScriptIsFine(DropRagQueries)
    /\ ScriptIsFine(AddJobMetadata)
    /\ ScriptIsFine(DropJobMetadata)
  <1>1. \A t : /\ ItemsAreFine(Ensure(t, HnswIndex).items)
               /\ ItemsAreFine(EnsureNot(t, HnswIndex).items)
               /\ ItemsAreFine(Ensure(t, TsvIndex).items)
               /\ ItemsAreFine(EnsureNot(t, TsvIndex).items)
    BY OperationsAreFine
  <1>2. ItemsAreFine(EnableVector.items)
    BY OperationsAreFine DEF EnableVector
  <1>3. \A t, c : /\ ItemsAreFine(AddColumn(t, c).items)
                  /\ ItemsAreFine(DropColumn(t, c).items)
                  /\ ItemsAreFine(CreateIndex(t, c).items)
                  /\ ItemsAreFine(DropIndex(t, c).items)
                  /\ ItemsAreFine(DropTable(t).items)
    BY OperationsAreFine
  <1>4. ScriptIsFine(AddEmbeddings)
    BY <1>1, <1>2, <1>3, ThreeOperations, Zenon DEF AddEmbeddings
  <1>5. ScriptIsFine(DropEmbeddings)
    BY <1>1, <1>3, TwoOperations, Zenon DEF DropEmbeddings
  <1>6. ScriptIsFine(CreateRagQueries)
    <2>1. \A t, columns, parents, keys :
             ItemsAreFine(CreateTable(t, columns, parents, keys).items)
      BY OperationsAreFine
    <2> QED BY <1>1, <2>1, TwoOperations, TwoIndexes, ConcatIsFine, Zenon DEF CreateRagQueries
  <1>7. ScriptIsFine(DropRagQueries)
    BY <1>1, <1>3, ThreeOperations, Zenon DEF DropRagQueries
  <1>8. ScriptIsFine(AddJobMetadata)
    BY <1>3, ThreeOperations, Zenon DEF AddJobMetadata
  <1>9. ScriptIsFine(DropJobMetadata)
    BY <1>3, ThreeOperations, Zenon DEF DropJobMetadata
  <1> QED BY <1>4, <1>5, <1>6, <1>7, <1>8, <1>9

\* The scripts of the chat, of the automation and of the accounts.
LEMMA RequestsAreFine ==
    /\ ScriptIsFine(CreateChat)
    /\ ScriptIsFine(DropChat)
    /\ ScriptIsFine(CreateAutomation)
    /\ ScriptIsFine(DropAutomation)
    /\ ScriptIsFine(CreateUsers)
    /\ ScriptIsFine(DropUsers)
  <1>1. \A t, c : /\ ItemsAreFine(DropIndex(t, c).items)
                  /\ ItemsAreFine(DropTable(t).items)
    BY OperationsAreFine
  <1>2. ScriptIsFine(CreateChat)
    BY ThreeIndexes, FourIndexes, ConcatIsFine, TableIsFine, Zenon DEF CreateChat
  <1>3. ScriptIsFine(DropChat)
    BY <1>1, SevenOperations, Zenon DEF DropChat
  <1>4. ScriptIsFine(CreateAutomation)
    BY ThreeIndexes, FourIndexes, ConcatIsFine, TableIsFine, Zenon DEF CreateAutomation
  <1>5. ScriptIsFine(DropAutomation)
    BY <1>1, NineOperations, Zenon DEF DropAutomation
  <1>6. ScriptIsFine(CreateUsers)
    BY TableIsFine, Zenon DEF CreateUsers
  <1>7. ScriptIsFine(DropUsers)
    <2>1. ItemsAreFine(DropTable("users").items)
      BY OperationsAreFine
    <2> QED BY <2>1, FineScripts, Zenon DEF DropUsers
  <1> QED BY <1>2, <1>3, <1>4, <1>5, <1>6, <1>7

\* Both ways of every script are fine.
LEMMA ScriptsAreFine ==
    /\ HeadRevision = 8
    /\ \A r \in 1..8 : ScriptIsFine(Scripts[r].up) /\ ScriptIsFine(Scripts[r].down)
  <1>1. HeadRevision = 8
    BY DEF HeadRevision, Scripts
  <1> DEFINE documents == CreateKnowledgeBases \o CreateDocuments \o CreateVersions
                          \o CreateChunks \o CreateJobs
  <1>2. ScriptIsFine(documents) /\ ScriptIsFine(<< >>)
    BY DocumentsAreFine, ConcatIsFine, FineScripts, Zenon
  <1>3. /\ Scripts[1].up = << >> /\ Scripts[1].down = << >>
        /\ Scripts[2].up = documents /\ Scripts[2].down = DropDocumentManagement
        /\ Scripts[3].up = AddEmbeddings /\ Scripts[3].down = DropEmbeddings
        /\ Scripts[4].up = CreateRagQueries /\ Scripts[4].down = DropRagQueries
        /\ Scripts[5].up = CreateChat /\ Scripts[5].down = DropChat
        /\ Scripts[6].up = AddJobMetadata /\ Scripts[6].down = DropJobMetadata
        /\ Scripts[7].up = CreateAutomation /\ Scripts[7].down = DropAutomation
        /\ Scripts[8].up = CreateUsers /\ Scripts[8].down = DropUsers
    BY DEF Scripts
  <1> HIDE DEF documents
  <1>4. ASSUME NEW r \in 1..8
        PROVE  ScriptIsFine(Scripts[r].up) /\ ScriptIsFine(Scripts[r].down)
    <2>1. \/ r = 1 \/ r = 2 \/ r = 3 \/ r = 4 \/ r = 5 \/ r = 6 \/ r = 7 \/ r = 8
      OBVIOUS
    <2> QED BY <1>2, <1>3, <2>1, DocumentsAreFine, SearchesAreFine, RequestsAreFine
  <1> QED BY <1>1, <1>4

\* The work of a migration command: what it has made of the schema, and what is left.
WorkOf(s, r, t, q) == [schema |-> s, revision |-> r, target |-> t, todo |-> q]
IsFineWork(w) ==
    /\ w = WorkOf(w.schema, w.revision, w.target, w.todo)
    /\ ItemsAreFine(w.schema) /\ ScriptIsFine(w.todo)
    /\ w.revision \in 0..HeadRevision /\ w.target \in -1..HeadRevision
    /\ w # NoWork => w.target # -1

MigrationInv ==
    /\ ItemsAreFine(schema)
    /\ revision \in 0..HeadRevision
    /\ IsFineWork(work)

\* What makes work fine.
LEMMA FineWork ==
    /\ \A s, r, t, q : /\ ItemsAreFine(s) /\ ScriptIsFine(q)
                       /\ r \in 0..HeadRevision /\ t \in 0..HeadRevision
                       => IsFineWork(WorkOf(s, r, t, q))
    /\ IsFineWork(NoWork)
  <1>1. HeadRevision = 8
    BY ScriptsAreFine
  <1>2. ASSUME NEW s, NEW r, NEW t, NEW q, ItemsAreFine(s), ScriptIsFine(q),
               r \in 0..HeadRevision, t \in 0..HeadRevision
        PROVE  IsFineWork(WorkOf(s, r, t, q))
    <2> DEFINE w == WorkOf(s, r, t, q)
    <2>1. w.schema = s /\ w.revision = r /\ w.target = t /\ w.todo = q
      BY DEF WorkOf
    <2> HIDE DEF w
    <2>2. w = WorkOf(w.schema, w.revision, w.target, w.todo)
      BY <2>1 DEF w
    <2>3. IsFineWork(w)
      BY <1>1, <1>2, <2>1, <2>2 DEF IsFineWork
    <2> QED BY <2>3 DEF w
  <1>3. IsFineWork(NoWork)
    <2>2. /\ NoWork.schema = {} /\ NoWork.revision = 0 /\ NoWork.target = -1
          /\ NoWork.todo = << >>
      BY DEF NoWork
    <2>3. ScriptIsFine(NoWork.todo)
      BY <2>2, FineScripts
    <2>4. NoWork = WorkOf(NoWork.schema, NoWork.revision, NoWork.target, NoWork.todo)
      BY DEF NoWork, WorkOf
    <2>5. ItemsAreFine(NoWork.schema)
      BY <2>2 DEF ItemsAreFine
    <2>6. NoWork.revision \in 0..HeadRevision /\ NoWork.target \in -1..HeadRevision
      BY <1>1, <2>2
    <2> QED BY <2>3, <2>4, <2>5, <2>6 DEF IsFineWork
  <1> QED BY <1>2, <1>3

\* The operations that are left.
LEMMA FineTail ==
    ASSUME NEW q, ScriptIsFine(q), q # << >>
    PROVE  ItemsAreFine(Head(q).items) /\ ScriptIsFine(Tail(q))
  <1>1. PICK S : q \in Seq(S) /\ \A o \in S : ItemsAreFine(o.items)
    BY DEF ScriptIsFine
  <1>2. Head(q) \in S /\ Tail(q) \in Seq(S)
    BY <1>1, HeadTailProperties
  <1> QED BY <1>1, <1>2, ScriptOf

\* An operation adds no other items than its own.
LEMMA AppliedIsFine ==
    ASSUME NEW s, NEW o, ItemsAreFine(s), ItemsAreFine(o.items)
    PROVE  ItemsAreFine(Apply(s, o))
  <1> DEFINE dropped == {i \in TableItems(s, o.table) :
                            \/ i \in o.items
                            \/ \E c \in ColumnsOf(i) : Column(o.table, c) \in o.items}
  <1>1. Apply(s, o) = CASE o.op = "drop_table" -> s \ TableItems(s, o.table)
                        [] o.op \in {"drop_index", "remove"} -> s \ o.items
                        [] o.op = "drop_column" -> s \ dropped
                        [] OTHER -> s \union o.items
    BY Zenon DEF Apply
  <1> HIDE DEF dropped
  <1>2. Apply(s, o) \subseteq s \union o.items
    BY <1>1
  <1> QED BY <1>2 DEF ItemsAreFine

\* The next script starts, in either direction.
LEMMA NextScriptKeepsInv ==
    ASSUME MigrationInv, NextScript
    PROVE  MigrationInv'
  <1> DEFINE s == work.schema
             r == work.revision
             t == work.target
             up == Scripts[r + 1].up
             down == Scripts[r].down
             higher == [work EXCEPT !.revision = @ + 1]
             lower == [work EXCEPT !.revision = @ - 1]
  <1>1. schema' = schema /\ revision' = revision /\ r # t /\ work # NoWork
    BY DEF NextScript, Running
  <1>2. HeadRevision = 8
    BY ScriptsAreFine
  <1>3. ItemsAreFine(schema) /\ revision \in 0..8
        /\ work = WorkOf(s, r, t, work.todo) /\ ItemsAreFine(s)
    BY <1>2 DEF MigrationInv, IsFineWork
  <1>4. r \in 0..8 /\ t \in 0..8
    BY <1>1, <1>2 DEF MigrationInv, IsFineWork
  <1>5. CASE r < t
    <2>1. work' = [higher EXCEPT !.todo = up]
      BY <1>5, Zenon DEF NextScript
    <2>2. higher = WorkOf(s, r + 1, t, work.todo)
      BY <1>3 DEF WorkOf
    <2>3. r + 1 \in 1..8
      BY <1>4, <1>5
    <2>4. ScriptIsFine(up)
      BY <2>3, ScriptsAreFine
    <2> HIDE DEF higher, up
    <2>5. work' = WorkOf(s, r + 1, t, up)
      BY <2>1, <2>2 DEF WorkOf
    <2>6. IsFineWork(work')
      BY <1>2, <1>3, <1>4, <2>3, <2>4, <2>5, FineWork
    <2> QED BY <1>1, <1>2, <1>3, <2>6 DEF MigrationInv
  <1>6. CASE ~ (r < t)
    <2>1. work' = [lower EXCEPT !.todo = down]
      BY <1>6, Zenon DEF NextScript
    <2>2. lower = WorkOf(s, r - 1, t, work.todo)
      BY <1>3 DEF WorkOf
    <2>3. r \in 1..8 /\ r - 1 \in 0..8
      BY <1>1, <1>4, <1>6
    <2>4. ScriptIsFine(down)
      BY <2>3, ScriptsAreFine
    <2> HIDE DEF lower, down
    <2>5. work' = WorkOf(s, r - 1, t, down)
      BY <2>1, <2>2 DEF WorkOf
    <2>6. IsFineWork(work')
      BY <1>2, <1>3, <1>4, <2>3, <2>4, <2>5, FineWork
    <2> QED BY <1>1, <1>2, <1>3, <2>6 DEF MigrationInv
  <1> QED BY <1>5, <1>6

\* One operation of a script.
LEMMA OperateKeepsInv ==
    ASSUME MigrationInv, Operate
    PROVE  MigrationInv'
  <1> DEFINE s == work.schema
             r == work.revision
             t == work.target
             q == work.todo
             applied == Apply(s, Head(q))
             half == [work EXCEPT !.schema = applied]
  <1>1. q # << >> /\ schema' = schema /\ revision' = revision
    BY DEF Operate
  <1>2. /\ work = WorkOf(s, r, t, q) /\ ItemsAreFine(s) /\ ScriptIsFine(q)
        /\ r \in 0..HeadRevision /\ t \in -1..HeadRevision
        /\ work # NoWork => t # -1
    BY DEF MigrationInv, IsFineWork
  <1>3. HeadRevision = 8
    BY ScriptsAreFine
  <1>4. t \in 0..HeadRevision
    <2>1. work # NoWork
      BY <1>1 DEF NoWork
    <2> QED BY <1>2, <1>3, <2>1
  <1>5. work' = [half EXCEPT !.todo = Tail(q)]
    BY Zenon DEF Operate
  <1>6. half = WorkOf(applied, r, t, q)
    BY <1>2 DEF WorkOf
  <1>7. ItemsAreFine(applied) /\ ScriptIsFine(Tail(q))
    BY <1>1, <1>2, FineTail, AppliedIsFine
  <1> HIDE DEF applied, half
  <1>8. work' = WorkOf(applied, r, t, Tail(q))
    BY <1>5, <1>6 DEF WorkOf
  <1>9. IsFineWork(work')
    BY <1>2, <1>4, <1>7, <1>8, FineWork
  <1> QED BY <1>1, <1>9 DEF MigrationInv

\* MigrationTypeOK: the revisions exist, and a schema is made of pairs and triples.
THEOREM MigrationTypeCorrect ==
    MigrationInit /\ [][MigrationNext]_migrationVars => []MigrationTypeOK
  <1>1. MigrationInit => MigrationInv
    BY ScriptsAreFine, FineWork DEF MigrationInit, MigrationInv, ItemsAreFine
  <1>2. MigrationInv /\ [MigrationNext]_migrationVars => MigrationInv'
    <2> SUFFICES ASSUME MigrationInv, [MigrationNext]_migrationVars PROVE MigrationInv'
      OBVIOUS
    <2>1. ASSUME NEW target \in 0..HeadRevision, StartMigration(target) PROVE MigrationInv'
      <3>1. work' = WorkOf(schema, revision, target, << >>)
            /\ schema' = schema /\ revision' = revision
        BY <2>1 DEF StartMigration, WorkOf
      <3>2. ScriptIsFine(<< >>)
        BY FineScripts
      <3>3. IsFineWork(work')
        BY <3>1, <3>2, FineWork DEF MigrationInv
      <3> QED BY <3>1, <3>3 DEF MigrationInv
    <2>2. CASE CommitMigration
      BY <2>2, FineWork DEF CommitMigration, MigrationInv, IsFineWork
    <2>3. CASE RollBack
      BY <2>3, FineWork DEF RollBack, MigrationInv
    <2>4. CASE UNCHANGED migrationVars
      BY <2>4 DEF migrationVars, MigrationInv
    <2> QED BY <2>1, <2>2, <2>3, <2>4, NextScriptKeepsInv, OperateKeepsInv DEF MigrationNext
  <1>3. MigrationInv => MigrationTypeOK
    BY DEF MigrationInv, IsFineWork, MigrationTypeOK, ItemsAreFine
  <1> QED BY <1>1, <1>2, <1>3, PTL
-----------------------------------------------------------------------------
(* The services together *)

\* What starts with the others is one of the components' own beginnings.
LEMMA PartsBegin ==
    ASSUME ServicesInit
    PROVE  /\ LimiterInit /\ KbInit /\ MigrationInit /\ RetrievalInit /\ ChunkInit
           /\ SingletonsInit /\ AccountsInit /\ RunTyped
  <1>1. /\ LimiterInit /\ KbInit /\ MigrationInit /\ RetrievalInit
        /\ SingletonsInit /\ AccountsInit
    BY DEF ServicesInit
  <1>2. ChunkInit
    <2>1. CASE part = "chunking"
      BY <2>1 DEF ServicesInit
    <2>2. CASE part # "chunking"
      <3> DEFINE none == << << >> >>
      <3>1. none \in Documents
        <4>1. << >> \in [1..0 -> Characters] /\ 0 \in 0..MaxText
          BY ChunkingAssumption
        <4> QED BY <4>1 DEF Documents, Texts
      <3>2. chunker = [document |-> none, section |-> 0, stack |-> << >>, pieces |-> << >>,
               current |-> << >>, length |-> 0, pc |-> "section", chunks |-> << >>]
        BY <2>2 DEF ServicesInit
      <3> HIDE DEF none
      <3> QED BY <3>1, <3>2 DEF ChunkInit
    <2> QED BY <2>1, <2>2
  <1>3. RunTyped
    <2>1. CASE part = "gate"
      BY <2>1, RunIsTyped DEF ServicesInit
    <2>2. CASE part # "gate"
      <3>1. gate = [file |-> << >>, k |-> 1, pc |-> "reading",
               read |-> 0, examples |-> << >>, status |-> "none", reports |-> {},
               path |-> "none", outcome |-> "none"]
        BY <2>2 DEF ServicesInit
      <3> QED BY <3>1, GateAssumption DEF RunTyped, RunState, GatePc
    <2> QED BY <2>1, <2>2
  <1> QED BY <1>1, <1>2, <1>3

\* Every step is one of each component, or leaves it as it is.
LEMMA PartsStep ==
    ASSUME [ServicesNext]_ServicesVars
    PROVE  /\ [LimiterNext]_limiterVars /\ [KbNext]_kbVars /\ [MigrationNext]_migrationVars
           /\ [RetrievalNext]_retrievalVars /\ [ChunkNext]_chunkVars
           /\ [SingletonsNext]_singletonVars /\ [AccountsNext]_accountVars
           /\ [GateNext]_gateVars /\ UNCHANGED part
  <1>1. CASE UNCHANGED ServicesVars
    BY <1>1 DEF ServicesVars
  <1>2. ASSUME NEW p \in Parts, Runs(p)
        PROVE  /\ p # "limiter" => UNCHANGED limiterVars
               /\ p # "bases" => UNCHANGED kbVars
               /\ p # "migrations" => UNCHANGED migrationVars
               /\ p # "retrieval" => UNCHANGED retrievalVars
               /\ p # "chunking" => UNCHANGED chunkVars
               /\ p # "singletons" => UNCHANGED singletonVars
               /\ p # "accounts" => UNCHANGED accountVars
               /\ p # "gate" => UNCHANGED gateVars
               /\ UNCHANGED part
    BY <1>2, Zenon DEF Runs, Unmoved, Parts
  <1> QED BY <1>1, <1>2 DEF ServicesNext, Parts

\* ServicesTypeOK: all the services keep their types, side by side. The requests are finitely
\* many, so that what they build can be counted.
THEOREM ServicesTypeCorrect ==
    ASSUME IsFiniteSet(Threads) PROVE ServicesSpec => []ServicesTypeOK
  <1>1. ServicesSpec => /\ LimiterSpec /\ KbSpec /\ RetrievalSpec /\ ChunkSpec
                        /\ SingletonsSpec /\ AccountsSpec
    BY PartsBegin, PartsStep, PTL DEF ServicesSpec, LimiterSpec, KbSpec, RetrievalSpec, ChunkSpec,
       SingletonsSpec, AccountsSpec
  <1>2. ServicesSpec => MigrationInit /\ [][MigrationNext]_migrationVars
    BY PartsBegin, PartsStep, PTL DEF ServicesSpec
  <1>3. ServicesSpec => []RunTyped
    <2>1. RunTyped /\ [ServicesNext]_ServicesVars => RunTyped'
      BY PartsStep, GateKeepsTypes
    <2> QED BY <2>1, PartsBegin, PTL DEF ServicesSpec
  <1>4. ServicesSpec => [](part \in Parts)
    <2>1. ServicesInit => part \in Parts
      BY DEF ServicesInit
    <2>2. part \in Parts /\ [ServicesNext]_ServicesVars => (part \in Parts)'
      BY PartsStep
    <2> QED BY <2>1, <2>2, PTL DEF ServicesSpec
  <1>5. LimiterInv => LimiterTypeOK
    BY DEF LimiterInv
  <1>6. /\ part \in Parts /\ LimiterTypeOK /\ KbTypeOK /\ MigrationTypeOK /\ RetrievalTypeOK
        /\ ChunkTypeOK /\ SingletonsTypeOK /\ AccountsTypeOK /\ RunTyped
        => ServicesTypeOK
    BY RunIsTyped DEF ServicesTypeOK
  <1> QED
    BY <1>1, <1>2, <1>3, <1>4, <1>5, <1>6, BucketIsCorrect, KbTypeCorrect, MigrationTypeCorrect,
       RetrievalTypeCorrect, ChunksAreInTheText, ObjectsAreBounded, AccountsTypeCorrect, PTL
=============================================================================
