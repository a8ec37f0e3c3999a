--------------------------- MODULE AccountsProofs ---------------------------
(***************************************************************************)
(* Theorems about Accounts, for every set of requests, names, addresses    *)
(* and passwords, and every bound on identifiers.                          *)
(***************************************************************************)
EXTENDS Accounts, TLAPS

(* What the local variables of a handler hold, given where it is *)

Complete == [name : Name, email : Email, password : Password]

Locals ==
  /\ \A r \in Registrant : pc[r] \in {"byname", "byemail", "commit"} => form[r] \in Complete
  /\ \A l \in Login : pc[l] = "verify" => me[l] \in Reading
  /\ \A h \in Owner :
       pc[h] \in {"name", "email", "load", "upload", "commit"} => me[h] \in Reading
  /\ \A s \in Submitter : pc[s] = "commit" => s \in codes

TypeInv == TypeOK /\ Locals

LEMMA TypeInit == Init => TypeInv
BY AccountsAssumption
DEF Init, TypeInv, TypeOK, Locals, Id, Form, Blank, Handler, Owner

LEMMA RegisterType ==
  ASSUME TypeInv, NEW r \in Registrant, RegisterStep(r)
  PROVE  TypeInv'
<1> USE AccountsAssumption DEF TypeInv, TypeOK, Locals, Handler, Owner, tables, locals, Written
<1>1. CASE RegisterBegin(r)
  BY <1>1 DEF RegisterBegin, Goto, Form, Complete
<1>2. CASE RegisterByName(r)
  BY <1>2 DEF Answer, Blank, Form, RegisterByName, Query, Goto
<1>3. CASE RegisterByEmail(r)
  BY <1>3 DEF Answer, Blank, Form, RegisterByEmail, Query, Goto
<1>4. CASE RegisterCommit(r)
  <2>1. NewRow(r) \in Row
    BY <1>4 DEF RegisterCommit, NewRow, Row, Complete
  <2>2. next_id \in Id /\ next_id' \in 1..(LastId + 1)
    BY <1>4 DEF RegisterCommit, Id
  <2>3. users' \in [Id -> Row \cup {None}]
    BY <1>4, <2>1, <2>2 DEF RegisterCommit
  <2> QED
    BY <1>4, <2>2, <2>3 DEF Answer, Goto, Blank, Form, RegisterCommit
<1> QED
  BY <1>1, <1>2, <1>3, <1>4 DEF RegisterStep

LEMMA LoginType ==
  ASSUME TypeInv, NEW l \in Login, LoginStep(l)
  PROVE  TypeInv'
<1> USE AccountsAssumption DEF TypeInv, TypeOK, Locals, Handler, Owner, tables, locals, Written
<1>1. CASE LoginBegin(l)
  BY <1>1 DEF LoginBegin, Goto, Form
<1>2. ASSUME NEW u \in Account, Found(l, u)
      PROVE  me' \in [Handler -> Reading \cup {None}] /\ me'[l] \in Reading
             /\ \A h \in Handler : h # l => me'[h] = me[h]
  BY <1>2 DEF Found, Account, Reading, Row
<1>3. CASE LoginByName(l)
  BY <1>2, <1>3 DEF LoginByName, Goto, Reading
<1>4. CASE LoginByEmail(l)
  <2>1. CASE ~ Taken("email", form[l].email) /\ Answer(l, "failed")
    BY <1>4, <2>1 DEF Answer, Blank, Form, LoginByEmail, Goto
  <2>2. CASE /\ UNCHANGED <<form, seen>>
             /\ \E u \in Account : Found(l, u) /\ Goto(l, "verify")
    BY <1>2, <1>4, <2>2 DEF LoginByEmail, Goto, Reading
  <2> QED
    BY <1>4, <2>1, <2>2 DEF LoginByEmail
<1>5. CASE LoginVerify(l)
  BY <1>5 DEF Answer, Goto, Blank, Form, LoginVerify, Token, Reading
<1> QED
  BY <1>1, <1>3, <1>4, <1>5 DEF LoginStep

LEMMA RefreshType ==
  ASSUME TypeInv, NEW f \in Refresher, Refresh(f)
  PROVE  TypeInv'
<1> USE AccountsAssumption DEF TypeInv, TypeOK, Locals, Handler, Owner, tables, locals, Written
<1>1. tokens' \subseteq Token
  BY DEF Refresh, Token
<1> QED
  BY <1>1 DEF Answer, Goto, Blank, Form, Refresh

LEMMA AuthenticationType ==
  ASSUME TypeInv, NEW h \in Owner, Authenticate(h) \/ Reject(h)
  PROVE  TypeInv'
<1> USE AccountsAssumption DEF TypeInv, TypeOK, Locals, Handler, Owner, tables, locals, Written
<1>1. CASE Authenticate(h)
  <2>1. PICK t \in tokens : /\ users[t.sub] # None
                            /\ me' = [me EXCEPT ![h] = [id |-> t.sub, row |-> users[t.sub], by |-> t.by]]
    BY <1>1 DEF Authenticate
  <2>2. t.sub \in Id /\ t.by \in Registrant /\ users[t.sub] \in Row
    BY <2>1 DEF Token
  <2>3. me' \in [Handler -> Reading \cup {None}] /\ me'[h] \in Reading
        /\ \A g \in Handler : g # h => me'[g] = me[g]
    BY <2>1, <2>2 DEF Reading
  <2>4. form' \in [Handler -> Form] /\ \A g \in Handler : g # h => form'[g] = form[g]
    BY <1>1 DEF Authenticate
  <2>5. FirstStep(h) \in {"name", "load", "upload"}
    BY DEF FirstStep
  <2> QED
    BY <1>1, <2>3, <2>4, <2>5 DEF Authenticate, Goto, Reading
<1>2. CASE Reject(h)
  BY <1>2 DEF Answer, Goto, Blank, Form, Reject
<1> QED
  BY <1>1, <1>2

\* What an update writes is a row, of the registration that made the account.
LEMMA ChangedRow ==
  ASSUME TypeInv, NEW h \in Updater, NEW row \in Row
  PROVE  Changed(h, row) \in Row /\ Changed(h, row).by = row.by
BY DEF TypeInv, TypeOK, Changed, Row, Dirty, Given, Column, Form, Handler, Owner

LEMMA UpdateType ==
  ASSUME TypeInv, NEW h \in Updater, UpdateStep(h)
  PROVE  TypeInv'
<1> USE AccountsAssumption DEF TypeInv, TypeOK, Locals, Handler, Owner, tables, locals, Written
<1>1. CASE CheckName(h)
  BY <1>1 DEF Answer, Blank, Form, CheckName, Query, Goto
<1>2. CASE CheckEmail(h)
  BY <1>2 DEF Answer, Blank, Form, CheckEmail, Query, Goto
<1>3. CASE UpdateCommit(h)
  <2>1. me[h].id \in Id
    BY <1>3 DEF UpdateCommit, Reading
  <2>2. users' \in [Id -> Row \cup {None}]
    BY <1>3, <2>1, ChangedRow DEF UpdateCommit, Write
  <2> QED
    BY <1>3, <2>2 DEF Answer, Goto, Blank, Form, UpdateCommit, Write
<1> QED
  BY <1>1, <1>2, <1>3 DEF UpdateStep

LEMMA DeleteType ==
  ASSUME TypeInv, NEW d \in Deleter, LoadSubmissions(d) \/ DeleteCommit(d)
  PROVE  TypeInv'
<1> USE AccountsAssumption DEF TypeInv, TypeOK, Locals, Handler, Owner, tables, locals, Written
<1>1. CASE LoadSubmissions(d)
  <2>1. seen' \in [Handler -> SUBSET Submission]
    BY <1>1 DEF LoadSubmissions, OwnedBy
  <2> QED
    BY <1>1, <2>1 DEF LoadSubmissions, Goto
<1>2. CASE DeleteCommit(d)
  <2>1. submissions' \subseteq Submission /\ users' \in [Id -> Row \cup {None}]
    BY <1>2 DEF DeleteCommit
  <2> QED
    BY <1>2, <2>1 DEF Answer, Goto, Blank, Form, DeleteCommit
<1> QED
  BY <1>1, <1>2

LEMMA SubmitType ==
  ASSUME TypeInv, NEW s \in Submitter, UploadCode(s) \/ SubmitCommit(s)
  PROVE  TypeInv'
<1> USE AccountsAssumption DEF TypeInv, TypeOK, Locals, Handler, Owner, tables, locals, Written
<1>1. CASE UploadCode(s)
  BY <1>1 DEF UploadCode, Goto
<1>2. CASE SubmitCommit(s)
  <2>1. me[s] \in Reading
    BY <1>2 DEF SubmitCommit
  <2>2. [request |-> s, user |-> me[s].id, by |-> me[s].by] \in Submission
    BY <2>1 DEF Reading, Submission
  <2>3. submissions' \subseteq Submission
    BY <1>2, <2>2 DEF SubmitCommit
  <2> QED
    BY <1>2, <2>3 DEF Answer, Goto, Blank, Form, SubmitCommit
<1> QED
  BY <1>1, <1>2

LEMMA TypeStep == TypeInv /\ [Next]_vars => TypeInv'
<1> SUFFICES ASSUME TypeInv, [Next]_vars
             PROVE  TypeInv'
  OBVIOUS
<1>1. CASE Next
  BY <1>1, RegisterType, LoginType, RefreshType, AuthenticationType, UpdateType, DeleteType,
     SubmitType DEF Next
<1>2. CASE UNCHANGED vars
  BY <1>2 DEF vars, tables, locals, TypeInv, TypeOK, Locals
<1> QED
  BY <1>1, <1>2

LEMMA TypeInvariant == Spec => []TypeInv
BY TypeInit, TypeStep, PTL DEF Spec

\* Every variable keeps its type, whatever the handlers do.
THEOREM TypeCorrect == Spec => []TypeOK
<1>1. TypeInv => TypeOK
  BY DEF TypeInv
<1> QED
  BY <1>1, TypeInvariant, PTL
-----------------------------------------------------------------------------
(* Who stands for what: identifiers come from a sequence and are not drawn *)
(* twice, so that whatever outlives an account names no other.             *)

Drawn == \A u \in Account : u < next_id

\* Identifier i was drawn, and stands for the registration b or for none.
StandsFor(i, b) == i < next_id /\ (users[i] # None => users[i].by = b)

Lineage ==
  /\ Drawn
  /\ \A t \in tokens : StandsFor(t.sub, t.by)
  /\ \A h \in Handler : me[h] \in Reading => StandsFor(me[h].id, me[h].by)

\* A step writes no row under an identifier that was drawn before, but for the
\* row that is there, which stays of the same registration.
IdentitiesLast ==
  /\ next_id <= next_id'
  /\ \A u \in Id : users'[u] # None => u < next_id'
  /\ \A u \in Id : u < next_id /\ users'[u] # None =>
       users[u] # None /\ users'[u].by = users[u].by

LEMMA StepLasts ==
  ASSUME TypeInv, Drawn, [Next]_vars
  PROVE  IdentitiesLast
<1> USE AccountsAssumption DEF TypeInv, TypeOK, tables, Written, Id, IdentitiesLast
<1>1. CASE UNCHANGED <<users, next_id>>
  BY <1>1 DEF Drawn, Account
<1>2. ASSUME NEW r \in Registrant, RegisterCommit(r)
      PROVE  IdentitiesLast
  <2>1. next_id \in 1..LastId /\ next_id' = next_id + 1
    BY <1>2 DEF RegisterCommit
  <2>2. \A u \in Id : u # next_id => users'[u] = users[u]
    BY <1>2, <2>1 DEF RegisterCommit
  <2>3. \A u \in Id : users[u] # None => u < next_id
    BY DEF Drawn, Account
  <2> QED
    BY <2>1, <2>2, <2>3
<1>3. ASSUME NEW h \in Updater, UpdateCommit(h)
      PROVE  IdentitiesLast
  <2>1. me[h] \in Reading
    BY <1>3 DEF UpdateCommit, Locals, Owner
  <2>2. CASE UNCHANGED users
    BY <1>3, <2>2 DEF UpdateCommit, Drawn, Account
  <2>3. CASE users[me[h].id] # None /\ users' = [users EXCEPT ![me[h].id] = Changed(h, users[me[h].id])]
    <3>1. me[h].id \in Id /\ users[me[h].id] \in Row
      BY <2>1, <2>3 DEF Reading
    <3>2. Changed(h, users[me[h].id]).by = users[me[h].id].by
      BY <3>1, ChangedRow
    <3> QED
      BY <1>3, <2>3, <3>1, <3>2 DEF UpdateCommit, Drawn, Account
  <2> QED
    BY <1>3, <2>2, <2>3 DEF UpdateCommit, Write
<1>4. ASSUME NEW d \in Deleter, DeleteCommit(d)
      PROVE  IdentitiesLast
  BY <1>4 DEF DeleteCommit, Drawn, Account
<1> QED
  BY <1>1, <1>2, <1>3, <1>4
  DEF Next, vars, RegisterStep, RegisterBegin, RegisterByName, RegisterByEmail, LoginStep,
      LoginBegin, LoginByName, LoginByEmail, LoginVerify, Refresh, Authenticate, Reject,
      UpdateStep, CheckName, CheckEmail, LoadSubmissions, UploadCode, SubmitCommit, Query

LEMMA LineageInit == Init => Lineage
BY RowAssumption DEF Init, Lineage, Drawn, Account

\* What a step puts into a token or into the local variable of a handler comes
\* from the table, from a token or from a handler.
Sources ==
  /\ \A t \in tokens' : StandsFor(t.sub, t.by)
  /\ \A h \in Handler : me'[h] \in Reading => StandsFor(me'[h].id, me'[h].by)

LEMMA StepSources ==
  ASSUME TypeInv, Lineage, [Next]_vars
  PROVE  Sources
<1> USE DEF Sources, Lineage, TypeInv, TypeOK, Handler, Owner, Written, locals
<1>1. CASE UNCHANGED <<tokens, me>>
  BY <1>1
<1>2. ASSUME NEW h \in Handler, NEW how \in {"done", "failed"}, Answer(h, how), UNCHANGED tokens
      PROVE  Sources
  BY <1>2, RowAssumption DEF Answer
<1>3. ASSUME NEW l \in Login, NEW u \in Account, Found(l, u), UNCHANGED tokens
      PROVE  Sources
  <2>1. me'[l].id = u /\ me'[l].by = users[u].by
    BY <1>3 DEF Found
  <2>2. StandsFor(u, users[u].by)
    BY DEF StandsFor, Drawn
  <2>3. \A h \in Handler : h # l => me'[h] = me[h]
    BY <1>3 DEF Found
  <2> QED
    BY <1>3, <2>1, <2>2, <2>3
<1>4. ASSUME NEW l \in Login, LoginVerify(l)
      PROVE  Sources
  <2>1. me[l] \in Reading /\ me' = [me EXCEPT ![l] = None]
    BY <1>4 DEF LoginVerify, Locals, Answer
  <2>2. \A t \in tokens' : t \in tokens \/ (t.sub = me[l].id /\ t.by = me[l].by)
    BY <1>4 DEF LoginVerify
  <2>3. StandsFor(me[l].id, me[l].by)
    BY <2>1
  <2>4. \A t \in tokens' : StandsFor(t.sub, t.by)
    BY <2>2, <2>3 DEF StandsFor
  <2> QED
    BY <2>1, <2>4, RowAssumption
<1>5. ASSUME NEW f \in Refresher, Refresh(f)
      PROVE  Sources
  <2>1. \A t \in tokens' : t \in tokens \/ \E s \in tokens : t.sub = s.sub /\ t.by = s.by
    BY <1>5 DEF Refresh, Token
  <2> QED
    BY <1>5, <2>1, RowAssumption DEF Refresh, Answer, StandsFor
<1>6. ASSUME NEW h \in Owner, Authenticate(h)
      PROVE  Sources
  <2>1. PICK t \in tokens :
          me' = [me EXCEPT ![h] = [id |-> t.sub, row |-> users[t.sub], by |-> t.by]]
    BY <1>6 DEF Authenticate
  <2>2. StandsFor(me'[h].id, me'[h].by)
    BY <2>1
  <2> QED
    BY <1>6, <2>1, <2>2 DEF Authenticate
<1> QED
  BY <1>1, <1>2, <1>3, <1>4, <1>5, <1>6
  DEF Next, vars, tables, RegisterStep, RegisterBegin, RegisterByName, RegisterByEmail,
  RegisterCommit,
      LoginStep, LoginBegin, LoginByName, LoginByEmail, Reject, UpdateStep, CheckName, CheckEmail,
      UpdateCommit, Write, LoadSubmissions, DeleteCommit, UploadCode, SubmitCommit, Query

LEMMA StandsForLasts ==
  ASSUME TypeInv, TypeInv', IdentitiesLast, NEW i \in Id, NEW b, StandsFor(i, b)
  PROVE  i < next_id' /\ (users'[i] # None => users'[i].by = b)
<1>1. next_id \in Int /\ next_id' \in Int /\ i \in Int
  BY AccountsAssumption DEF TypeInv, TypeOK, Id
<1> QED
  BY <1>1 DEF IdentitiesLast, StandsFor

LEMMA LineageStep == TypeInv /\ TypeInv' /\ Lineage /\ [Next]_vars => Lineage'
<1> SUFFICES ASSUME TypeInv, TypeInv', Lineage, [Next]_vars
             PROVE  Lineage'
  OBVIOUS
<1>1. IdentitiesLast /\ Sources
  BY StepLasts, StepSources DEF Lineage
<1>2. Drawn'
  BY <1>1 DEF Drawn, IdentitiesLast, Account
<1>3. ASSUME NEW t \in tokens'
      PROVE  StandsFor(t.sub, t.by)'
  <2>1. t.sub \in Id /\ StandsFor(t.sub, t.by)
    BY <1>1, <1>3 DEF Sources, TypeInv, TypeOK, Token
  <2> QED
    BY <1>1, <2>1, StandsForLasts DEF StandsFor
<1>4. ASSUME NEW h \in Handler, me'[h] \in Reading
      PROVE  StandsFor(me[h].id, me[h].by)'
  <2>1. me'[h].id \in Id /\ StandsFor(me'[h].id, me'[h].by)
    BY <1>1, <1>4 DEF Sources, Reading
  <2> QED
    BY <1>1, <2>1, StandsForLasts DEF StandsFor
<1> QED
  BY <1>2, <1>3, <1>4 DEF Lineage

LEMMA LineageInvariant == Spec => []Lineage
<1>1. Init => Lineage
  BY LineageInit
<1> QED
  BY <1>1, LineageStep, TypeInvariant, PTL DEF Spec

\* A token, and a handler that has accepted one, stand for the account they
\* were given for or for none, for ever.
THEOREM TokensKeepTheirAccount == Spec => []TokensNameOneAccount
<1>1. TypeInv /\ Lineage => TokensNameOneAccount
  <2> SUFFICES ASSUME TypeInv, Lineage
               PROVE  TokensNameOneAccount
    OBVIOUS
  <2>1. \A h \in Owner : me[h] # None => h \in Handler /\ me[h] \in Reading
    BY DEF TypeInv, TypeOK, Handler
  <2> QED
    BY <2>1 DEF TokensNameOneAccount, Lineage, StandsFor
<1> QED
  BY <1>1, TypeInvariant, LineageInvariant, PTL
-----------------------------------------------------------------------------
(* The unique indexes *)

\* A step changes the table by one row that UniqueBut lets in, or removes one.
LEMMA UniqueStep == TypeInv /\ IdentifiersUnique /\ [Next]_vars => IdentifiersUnique'
<1> SUFFICES ASSUME TypeInv, IdentifiersUnique, [Next]_vars
             PROVE  IdentifiersUnique'
  OBVIOUS
<1> USE DEF IdentifiersUnique, Account
<1>1. CASE UNCHANGED users
  BY <1>1
<1>2. ASSUME NEW u \in Id, NEW new \in Row, UniqueBut(u, new), users' = [users EXCEPT ![u] = new]
      PROVE  IdentifiersUnique'
  <2>1. \A v \in Id : users'[v] = IF v = u THEN new ELSE users[v]
    BY <1>2 DEF TypeInv, TypeOK
  <2>2. \A v \in Id : v # u /\ users[v] # None => users[v].name # new.name /\ users[v].email # new.email
    BY <1>2 DEF UniqueBut
  <2> QED
    BY <2>1, <2>2
<1>3. ASSUME NEW u \in Id, users' = [users EXCEPT ![u] = None]
      PROVE  IdentifiersUnique'
  <2>1. \A v \in Id : users'[v] = IF v = u THEN None ELSE users[v]
    BY <1>3 DEF TypeInv, TypeOK
  <2> QED
    BY <2>1
<1>4. ASSUME NEW r \in Registrant, RegisterCommit(r)
      PROVE  IdentifiersUnique'
  <2>1. NewRow(r) \in Row /\ next_id \in Id
    BY <1>4 DEF RegisterCommit, NewRow, Row, TypeInv, Locals, Complete
  <2> QED
    BY <1>1, <1>2, <1>4, <2>1 DEF RegisterCommit
<1>5. ASSUME NEW h \in Updater, UpdateCommit(h)
      PROVE  IdentifiersUnique'
  <2>1. me[h].id \in Id
    BY <1>5 DEF UpdateCommit, TypeInv, Locals, Owner, Reading
  <2>2. users[me[h].id] # None => Changed(h, users[me[h].id]) \in Row
    BY <2>1, ChangedRow DEF TypeInv, TypeOK
  <2> QED
    BY <1>1, <1>2, <1>5, <2>1, <2>2 DEF UpdateCommit, Write
<1>6. ASSUME NEW d \in Deleter, DeleteCommit(d)
      PROVE  IdentifiersUnique'
  <2>1. me[d].id \in Id
    BY <1>6 DEF DeleteCommit, TypeInv, Locals, Owner, Reading
  <2> QED
    BY <1>3, <1>6, <2>1 DEF DeleteCommit
<1> QED
  BY <1>1, <1>4, <1>5, <1>6
  DEF Next, vars, tables, Written, RegisterStep, RegisterBegin, RegisterByName, RegisterByEmail,
      LoginStep, LoginBegin, LoginByName, LoginByEmail, LoginVerify, Refresh, Authenticate,
      Reject, UpdateStep, CheckName, CheckEmail, LoadSubmissions, UploadCode, SubmitCommit, Query

\* A name and an e-mail address lead to one account at most, for any number of
\* requests that overlap.
THEOREM IdentifiersStayUnique == Spec => []IdentifiersUnique
<1>1. Init => IdentifiersUnique
  BY DEF Init, IdentifiersUnique, Account
<1> QED
  BY <1>1, UniqueStep, TypeInvariant, PTL DEF Spec
-----------------------------------------------------------------------------
(* Submissions and their owners *)

LEMMA OwnersStep == TypeInv /\ Lineage /\ OwnersExist /\ [Next]_vars => OwnersExist'
<1> SUFFICES ASSUME TypeInv, Lineage, OwnersExist, [Next]_vars
             PROVE  OwnersExist'
  OBVIOUS
<1> USE DEF OwnersExist
<1>1. CASE UNCHANGED <<users, submissions>> /\ codes \subseteq codes'
  BY <1>1
<1>2. \A s \in submissions : s.user \in Id
  BY DEF TypeInv, TypeOK, Submission
<1>3. ASSUME NEW r \in Registrant, RegisterCommit(r)
      PROVE  OwnersExist'
  <2>1. \A s \in submissions : s.user # next_id
    BY <1>2, AccountsAssumption DEF Lineage, Drawn, Account, TypeInv, TypeOK, Id
  <2>2. \A u \in Id : u # next_id => users'[u] = users[u]
    BY <1>3 DEF RegisterCommit, TypeInv, TypeOK
  <2> QED
    BY <1>2, <1>3, <2>1, <2>2 DEF RegisterCommit
<1>4. ASSUME NEW h \in Updater, UpdateCommit(h)
      PROVE  OwnersExist'
  <2>1. CASE UNCHANGED users
    BY <1>4, <2>1 DEF UpdateCommit
  <2>2. CASE users[me[h].id] # None /\ users' = [users EXCEPT ![me[h].id] = Changed(h, users[me[h].id])]
    <3>1. me[h].id \in Id
      BY <1>4 DEF UpdateCommit, TypeInv, Locals, Owner, Reading
    <3>2. Changed(h, users[me[h].id]) # None
          /\ Changed(h, users[me[h].id]).by = users[me[h].id].by
      BY <2>2, <3>1, ChangedRow, RowAssumption DEF TypeInv, TypeOK
    <3>3. \A u \in Id : users'[u] = IF u = me[h].id THEN Changed(h, users[me[h].id]) ELSE users[u]
      BY <2>2 DEF TypeInv, TypeOK
    <3> QED
      BY <1>2, <1>4, <3>2, <3>3 DEF UpdateCommit
  <2> QED
    BY <1>4, <2>1, <2>2 DEF UpdateCommit, Write
<1>5. ASSUME NEW d \in Deleter, DeleteCommit(d)
      PROVE  OwnersExist'
  <2>1. \A u \in Id : u # me[d].id => users'[u] = users[u]
    BY <1>5 DEF DeleteCommit, TypeInv, TypeOK
  <2>2. \A s \in submissions' : s \in submissions /\ s.user # me[d].id
    BY <1>5 DEF DeleteCommit, OwnedBy
  <2> QED
    BY <1>2, <1>5, <2>1, <2>2 DEF DeleteCommit
<1>6. ASSUME NEW s \in Submitter, SubmitCommit(s)
      PROVE  OwnersExist'
  <2>1. me[s] \in Reading /\ s \in codes
    BY <1>6 DEF SubmitCommit, TypeInv, Locals, Owner
  <2>2. users[me[s].id] # None => users[me[s].id].by = me[s].by
    BY <2>1 DEF Lineage, StandsFor, Handler, Owner
  <2> QED
    BY <1>6, <2>1, <2>2 DEF SubmitCommit
<1>7. ASSUME NEW s \in Submitter, UploadCode(s)
      PROVE  OwnersExist'
  BY <1>1, <1>7 DEF UploadCode, tables
<1> QED
  BY <1>1, <1>3, <1>4, <1>5, <1>6, <1>7
  DEF Next, vars, tables, Written, RegisterStep, RegisterBegin, RegisterByName, RegisterByEmail,
      LoginStep, LoginBegin, LoginByName, LoginByEmail, LoginVerify, Refresh, Authenticate,
      Reject, UpdateStep, CheckName, CheckEmail, LoadSubmissions, Query

\* Every submission has its code and belongs to an account that is there, the
\* one whose token came with the request.
THEOREM SubmissionsAreOwned == Spec => []OwnersExist
<1>1. Init => OwnersExist
  BY DEF Init, OwnersExist
<1> QED
  BY <1>1, OwnersStep, TypeInvariant, LineageInvariant, PTL DEF Spec
-----------------------------------------------------------------------------
(* Updates *)

\* What an update writes: the values it brings, in the columns to write.
LEMMA ChangedColumns ==
  ASSUME TypeInv, NEW h \in Updater, NEW row \in Row, NEW c \in Column
  PROVE  Changed(h, row)[c] = IF c \in Dirty(h) THEN form[h][c] ELSE row[c]
<1>1. CASE c = "name"
  BY <1>1 DEF Changed, Row
<1>2. CASE c = "email"
  BY <1>2 DEF Changed, Row
<1>3. CASE c = "password"
  BY <1>3 DEF Changed, Row
<1> QED
  BY <1>1, <1>2, <1>3 DEF Column

\* A row that is there before and after a step, and is not the same, was written
\* by an update of its account that succeeds.
LEMMA OnlyUpdatesWrite ==
  ASSUME TypeInv, Lineage, [Next]_vars, NEW u \in Account, users'[u] # None, users'[u] # users[u]
  PROVE  \E h \in Updater : /\ Succeeds(h) /\ me[h].id = u
                            /\ users'[u] = Changed(h, users[u])
<1> USE DEF TypeInv, TypeOK, Account
<1>1. ~ UNCHANGED users
  OBVIOUS
<1>2. ASSUME NEW r \in Registrant, RegisterCommit(r)
      PROVE  FALSE
  <2>1. u < next_id /\ next_id \in Int /\ u \in Int
    BY AccountsAssumption DEF Lineage, Drawn, Id
  <2> QED
    BY <1>2, <2>1 DEF RegisterCommit
<1>3. ASSUME NEW d \in Deleter, DeleteCommit(d)
      PROVE  FALSE
  BY <1>3 DEF DeleteCommit
<1>4. ASSUME NEW h \in Updater, UpdateCommit(h)
      PROVE  /\ Succeeds(h) /\ me[h].id = u
             /\ users'[u] = Changed(h, users[u])
  <2>1. users' = [users EXCEPT ![me[h].id] = Changed(h, users[me[h].id])] /\ Answer(h, "done")
    BY <1>1, <1>4 DEF UpdateCommit, Write
  <2>2. Succeeds(h)
    BY <1>4, <2>1 DEF UpdateCommit, Answer, Goto, Succeeds, Handler, Owner
  <2> QED
    BY <2>1, <2>2
<1> QED
  BY <1>1, <1>2, <1>3, <1>4
  DEF Next, vars, tables, Written, RegisterStep, RegisterBegin, RegisterByName, RegisterByEmail,
      LoginStep, LoginBegin, LoginByName, LoginByEmail, LoginVerify, Refresh, Authenticate,
      Reject, UpdateStep, CheckName, CheckEmail, LoadSubmissions, UploadCode, SubmitCommit, Query

\* A column of an account changes only by an update of that account that brings
\* the new value for it.
THEOREM UpdatesKeepToTheirColumns == Spec => OnlyAskedColumns
<1>1. TypeInv /\ Lineage /\ [Next]_vars =>
        [\A u \in Account, c \in Column :
           users'[u] # None /\ users'[u][c] # users[u][c] =>
             \E h \in Updater : Succeeds(h) /\ me[h].id = u /\ form[h][c] = users'[u][c]]_vars
  <2> SUFFICES ASSUME TypeInv, Lineage, [Next]_vars, NEW u \in Account, NEW c \in Column,
                      users'[u] # None, users'[u][c] # users[u][c]
               PROVE  \E h \in Updater : Succeeds(h) /\ me[h].id = u /\ form[h][c] = users'[u][c]
    OBVIOUS
  <2>1. PICK h \in Updater : /\ Succeeds(h) /\ me[h].id = u
                             /\ users'[u] = Changed(h, users[u])
    BY OnlyUpdatesWrite
  <2>2. users[u] \in Row
    BY DEF TypeInv, TypeOK, Account
  <2>3. users'[u][c] = IF c \in Dirty(h) THEN form[h][c] ELSE users[u][c]
    BY <2>1, <2>2, ChangedColumns
  <2> QED
    BY <2>1, <2>3
<1> QED
  BY <1>1, TypeInvariant, LineageInvariant, PTL DEF Spec, OnlyAskedColumns

\* An update that is answered with success has put every value it brings into
\* the row, but for a value the row had already when the request was let in.
THEOREM UpdatesTakeEffect == Spec => UpdateTakesEffect
<1>1. TypeInv /\ [Next]_vars =>
        [\A h \in Updater : Succeeds(h) =>
           /\ users'[me[h].id] # None
           /\ \A c \in Given(form[h]) :
                form[h][c] \in {users'[me[h].id][c], me[h].row[c]}]_vars
  <2> SUFFICES ASSUME TypeInv, [Next]_vars, NEW h \in Updater, Succeeds(h)
               PROVE  /\ users'[me[h].id] # None
                      /\ \A c \in Given(form[h]) :
                           form[h][c] \in {users'[me[h].id][c], me[h].row[c]}
    OBVIOUS
  <2>1. UpdateCommit(h)
    <3> USE AccountsAssumption
        DEF Succeeds, TypeInv, TypeOK, Handler, Owner, tables, locals, Written, Answer, Goto
    <3>1. pc[h] = "commit" /\ pc'[h] = "done" /\ h \in Handler
      OBVIOUS
    <3>2. ASSUME NEW g \in Handler, g # h, NEW to, pc' = [pc EXCEPT ![g] = to]
          PROVE  FALSE
      BY <3>1, <3>2
    <3>3. ~ \E r \in Registrant : RegisterStep(r)
      BY <3>2 DEF RegisterStep, RegisterBegin, RegisterByName, RegisterByEmail,
         RegisterCommit, Query
    <3>4. ~ \E l \in Login : LoginStep(l)
      BY <3>2 DEF LoginStep, LoginBegin, LoginByName, LoginByEmail, LoginVerify
    <3>5. ~ \E f \in Refresher : Refresh(f)
      BY <3>2 DEF Refresh
    <3>6. ~ \E g \in Owner : Authenticate(g) \/ Reject(g)
      <4> SUFFICES ASSUME NEW g \in Owner, Authenticate(g) \/ Reject(g)
                   PROVE  FALSE
        OBVIOUS
      <4>1. g # h
        BY <3>1 DEF Authenticate, Reject
      <4> QED
        BY <3>2, <4>1 DEF Authenticate, Reject
    <3>7. ~ \E d \in Deleter : LoadSubmissions(d) \/ DeleteCommit(d)
      BY <3>2 DEF LoadSubmissions, DeleteCommit
    <3>8. ~ \E s \in Submitter : UploadCode(s) \/ SubmitCommit(s)
      BY <3>2 DEF UploadCode, SubmitCommit
    <3>9. ASSUME NEW g \in Updater, UpdateStep(g)
          PROVE  g = h /\ UpdateCommit(g)
      <4>1. g = h
        BY <3>2, <3>9 DEF UpdateStep, CheckName, CheckEmail, UpdateCommit, Write, Query
      <4> QED
        BY <3>1, <3>9, <4>1 DEF UpdateStep, CheckName, CheckEmail, Query
    <3> QED
      BY <3>1, <3>3, <3>4, <3>5, <3>6, <3>7, <3>8, <3>9 DEF Next, vars
  <2>2. me[h].id \in Id /\ pc'[h] = "done"
    BY <2>1 DEF UpdateCommit, Succeeds, TypeInv, Locals, Owner, Reading
  <2>3. users[me[h].id] # None /\ users' = [users EXCEPT ![me[h].id] = Changed(h, users[me[h].id])]
    BY <2>1, <2>2 DEF UpdateCommit, Write, Answer, Goto, TypeInv, TypeOK, Handler, Owner
  <2>4. users[me[h].id] \in Row /\ users'[me[h].id] = Changed(h, users[me[h].id])
    BY <2>2, <2>3 DEF TypeInv, TypeOK
  <2>5. users'[me[h].id] # None
    BY <2>4, ChangedRow, RowAssumption
  <2>6. ASSUME NEW c \in Given(form[h])
        PROVE  form[h][c] \in {users'[me[h].id][c], me[h].row[c]}
    <3>1. c \in Column
      BY DEF Given
    <3>2. users'[me[h].id][c] = IF c \in Dirty(h) THEN form[h][c] ELSE users[me[h].id][c]
      BY <2>4, <3>1, ChangedColumns
    <3> QED
      BY <3>2 DEF Dirty
  <2> QED
    BY <2>5, <2>6
<1> QED
  BY <1>1, TypeInvariant, PTL DEF Spec, UpdateTakesEffect
=============================================================================
