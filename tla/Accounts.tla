------------------------------ MODULE Accounts ------------------------------
(***************************************************************************)
(* The accounts of ByteBattles: registration, login and refresh            *)
(* (src/api/app/routes/auth.py, utils/oauth2.py), the changes and the      *)
(* deletion of a profile (routes/users.py), and the submissions a user     *)
(* makes meanwhile, as far as they name their owner.                       *)
(*                                                                         *)
(* Every handler is a plain function in a thread with a session of its     *)
(* own; each of its queries sees what others have committed by then, and   *)
(* its commit is one step in which the unique indexes and the foreign key  *)
(* of the table decide.                                                    *)
(***************************************************************************)
EXTENDS Integers, FiniteSets

CONSTANTS
  Registrant,  \* requests POST /auth/register
  Login,       \* requests POST /auth/login
  Refresher,   \* requests POST /auth/refresh
  Updater,     \* requests PATCH /users/me
  Deleter,     \* requests DELETE /users/me
  Submitter,   \* requests POST /submissions/
  Name, Email, Password,
  None,        \* no row, no value given
  LastId,      \* bound: values drawn from the sequence of users.id
  MaxColumns   \* bound: columns one update brings a value for

Owner == Updater \cup Deleter \cup Submitter    \* they carry an access token
Handler == Registrant \cup Login \cup Refresher \cup Owner
Id == 1..LastId

ASSUME AccountsAssumption ==
  /\ LastId \in Nat /\ MaxColumns \in Nat
  /\ Name \cap Email = {}                      \* USERNAME_REGEX has no @
  /\ None \notin Name \cup Email \cup Password \cup Registrant
  /\ Registrant \cap (Login \cup Refresher \cup Owner) = {}
  /\ Login \cap (Refresher \cup Owner) = {} /\ Refresher \cap Owner = {}
  /\ Updater \cap (Deleter \cup Submitter) = {} /\ Deleter \cap Submitter = {}

VARIABLES
  users,        \* the rows of the table, by id; None where there is none
  next_id,      \* the sequence behind users.id
  submissions,  \* the rows of submissions, as requests and their user_id
  codes,        \* requests whose code object exists
  tokens,       \* tokens signed so far
  pc,           \* where each handler is
  form,         \* the values its request brings; a handler that has ended has no locals
  me,           \* the row it has read: `user` or `current_user`
  seen          \* the submissions delete_current_user has loaded

tables == <<users, next_id, submissions>>
locals == <<form, me, seen>>
vars == <<tables, codes, tokens, pc, locals>>

Column == {"name", "email", "password"}
Form == [name : Name \cup {None}, email : Email \cup {None},
         password : Password \cup {None}]
Given(f) == {c \in Column : f[c] # None}
Blank == [name |-> None, email |-> None, password |-> None]

\* A row; by is history, the registration that made it.
Row == [name : Name, email : Email, password : Password, by : Registrant]

\* What a handler keeps of a row it has read.
Reading == [id : Id, row : Row, by : Registrant]

ASSUME RowAssumption == None \notin Row \cup Reading

Account == {u \in Id : users[u] # None}
Token == [sub : Id, type : {"access", "refresh"}, by : Registrant]

Goto(h, to) == pc' = [pc EXCEPT ![h] = to]

\* The handler answers; its local variables are no more.
Answer(h, how) ==
  /\ Goto(h, how)
  /\ form' = [form EXCEPT ![h] = Blank] /\ me' = [me EXCEPT ![h] = None]
  /\ seen' = [seen EXCEPT ![h] = {}]

\* One query: the handler goes on, or answers with an error.
Query(h, from, refuses, to) ==
  /\ pc[h] = from
  /\ \/ refuses /\ Answer(h, "failed")
     \/ ~ refuses /\ Goto(h, to) /\ UNCHANGED locals
  /\ UNCHANGED <<tables, codes, tokens>>

Taken(column, value) == \E u \in Account : users[u][column] = value
Written == <<tables, codes, tokens>>
-----------------------------------------------------------------------------
(* register *)

RegisterBegin(r) ==
  /\ pc[r] = "idle" /\ Goto(r, "byname")
  /\ \E n \in Name, e \in Email, p \in Password :
       form' = [form EXCEPT ![r] = [name |-> n, email |-> e, password |-> p]]
  /\ UNCHANGED <<Written, me, seen>>

RegisterByName(r) == Query(r, "byname", Taken("name", form[r].name), "byemail")
RegisterByEmail(r) == Query(r, "byemail", Taken("email", form[r].email), "commit")

\* The new row is unlike all rows but one's own in the columns with an index.
UniqueBut(u, row) ==
  \A v \in Account \ {u} : users[v].name # row.name /\ users[v].email # row.email

NewRow(r) == [name |-> form[r].name, email |-> form[r].email,
              password |-> form[r].password, by |-> r]

\* Mutant: relies on the two queries before.
RegisterCommit_unindexed(r) ==
  /\ pc[r] = "commit"
  /\ next_id \in Id /\ next_id' = next_id + 1
  /\ users' = [users EXCEPT ![next_id] = NewRow(r)] /\ Answer(r, "done")
  /\ UNCHANGED <<submissions, codes, tokens>>

\* Mutant: the smallest free identifier, not one from a sequence.
RegisterCommit_reuses(r) ==
  /\ pc[r] = "commit"
  /\ \E u \in Id \ Account :
       /\ \A v \in Id \ Account : u <= v
       /\ UniqueBut(u, NewRow(r)) /\ Answer(r, "done")
       /\ users' = [users EXCEPT ![u] = NewRow(r)]
  /\ UNCHANGED <<next_id, submissions, codes, tokens>>

\* An insert that fails has drawn its identifier all the same.
RegisterCommit(r) ==
  /\ pc[r] = "commit"
  /\ next_id \in Id /\ next_id' = next_id + 1
  /\ \/ /\ UniqueBut(next_id, NewRow(r)) /\ Answer(r, "done")
        /\ users' = [users EXCEPT ![next_id] = NewRow(r)]
     \/ /\ ~ UniqueBut(next_id, NewRow(r)) /\ Answer(r, "failed")
        /\ UNCHANGED users
  /\ UNCHANGED <<submissions, codes, tokens>>
-----------------------------------------------------------------------------
(* login, refresh *)

\* first(): the row u, or none.
Found(h, u) ==
  me' = [me EXCEPT ![h] = [id |-> u, row |-> users[u], by |-> users[u].by]]

\* The one field `username` of the form holds a name or an e-mail address.
LoginBegin(l) ==
  /\ pc[l] = "idle" /\ Goto(l, "byname")
  /\ \E n \in Name \cup {None}, e \in Email \cup {None}, p \in Password :
       /\ (n = None) # (e = None)
       /\ form' = [form EXCEPT ![l] = [name |-> n, email |-> e, password |-> p]]
  /\ UNCHANGED <<Written, me, seen>>

LoginByName(l) ==
  /\ pc[l] = "byname"
  /\ \/ \E u \in Account :
          users[u].name = form[l].name /\ Found(l, u) /\ Goto(l, "verify")
     \/ ~ Taken("name", form[l].name) /\ Goto(l, "byemail") /\ UNCHANGED me
  /\ UNCHANGED <<Written, form, seen>>

LoginByEmail(l) ==
  /\ pc[l] = "byemail"
  /\ \/ /\ \E u \in Account :
             users[u].email = form[l].email /\ Found(l, u) /\ Goto(l, "verify")
        /\ UNCHANGED <<form, seen>>
     \/ ~ Taken("email", form[l].email) /\ Answer(l, "failed")
  /\ UNCHANGED Written

\* The password is compared with the row as it was read.
LoginVerify(l) ==
  /\ pc[l] = "verify"
  /\ \/ /\ me[l].row.password = form[l].password /\ Answer(l, "done")
        /\ tokens' = tokens \cup
             [sub : {me[l].id}, type : {"access", "refresh"}, by : {me[l].by}]
     \/ /\ me[l].row.password # form[l].password /\ Answer(l, "failed")
        /\ UNCHANGED tokens
  /\ UNCHANGED <<tables, codes>>

\* The database is not asked: the account may have been deleted.
Refresh(f) ==
  /\ pc[f] = "idle" /\ Answer(f, "done")
  /\ \E t \in tokens :
       t.type = "refresh" /\ tokens' = tokens \cup {[t EXCEPT !.type = "access"]}
  /\ UNCHANGED <<tables, codes>>
-----------------------------------------------------------------------------
(* get_current_user *)

FirstStep(h) ==
  IF h \in Updater THEN "name" ELSE IF h \in Deleter THEN "load" ELSE "upload"

Authenticate(h) ==
  /\ pc[h] = "idle" /\ Goto(h, FirstStep(h))
  /\ \E t \in tokens :
       /\ t.type = "access" /\ users[t.sub] # None
       /\ me' = [me EXCEPT ![h] = [id |-> t.sub, row |-> users[t.sub], by |-> t.by]]
  /\ \/ h \in Updater
        /\ \E f \in Form :
             Cardinality(Given(f)) <= MaxColumns /\ form' = [form EXCEPT ![h] = f]
     \/ h \notin Updater /\ UNCHANGED form
  /\ UNCHANGED <<Written, seen>>

\* No token, one that has expired or is of the wrong type, or no such user.
Reject(h) ==
  /\ pc[h] = "idle" /\ Answer(h, "failed")
  /\ UNCHANGED Written
-----------------------------------------------------------------------------
(* update_current_user *)

\* A value that is given, and is not the one read, must not be another row's.
Refuses(h, column) ==
  /\ form[h][column] # None /\ form[h][column] # me[h].row[column]
  /\ Taken(column, form[h][column])

CheckName(h) == Query(h, "name", Refuses(h, "name"), "email")
CheckEmail(h) == Query(h, "email", Refuses(h, "email"), "commit")

\* The session writes the columns whose value differs from the one it has read;
\* a hash is new each time.
Dirty(h) ==
  {c \in Given(form[h]) : c = "password" \/ form[h][c] # me[h].row[c]}

\* The row with the values of h in the columns to write.
Changed(h, row) == [row EXCEPT
  !.name = IF "name" \in Dirty(h) THEN form[h].name ELSE @,
  !.email = IF "email" \in Dirty(h) THEN form[h].email ELSE @,
  !.password = IF "password" \in Dirty(h) THEN form[h].password ELSE @]

\* The row u is written, unless an index refuses it.
Write(h, u, new) ==
  \/ UniqueBut(u, new) /\ Answer(h, "done") /\ users' = [users EXCEPT ![u] = new]
  \/ ~ UniqueBut(u, new) /\ Answer(h, "failed") /\ UNCHANGED users

\* Mutant: writes the whole row as it was read.
UpdateCommit_whole(h) ==
  /\ pc[h] = "commit"
  /\ users[me[h].id] # None /\ Write(h, me[h].id, Changed(h, me[h].row))
  /\ UNCHANGED <<next_id, submissions, codes, tokens>>

\* Mutant: takes an update of no row for a success.
UpdateCommit_blind(h) ==
  /\ pc[h] = "commit"
  /\ \/ users[me[h].id] = None /\ Answer(h, "done") /\ UNCHANGED users
     \/ users[me[h].id] # None /\ Write(h, me[h].id, Changed(h, users[me[h].id]))
  /\ UNCHANGED <<next_id, submissions, codes, tokens>>

\* Without its row neither the UPDATE (StaleDataError) nor, if there is nothing
\* to write, the refresh after the commit succeeds.
UpdateCommit(h) ==
  /\ pc[h] = "commit"
  /\ \/ users[me[h].id] = None /\ Answer(h, "failed") /\ UNCHANGED users
     \/ users[me[h].id] # None /\ Write(h, me[h].id, Changed(h, users[me[h].id]))
  /\ UNCHANGED <<next_id, submissions, codes, tokens>>
-----------------------------------------------------------------------------
(* delete_current_user, create_submission *)

OwnedBy(u) == {s \in submissions : s.user = u}

\* The cascade of the relationship reads the submissions to delete.
LoadSubmissions(d) ==
  /\ pc[d] = "load" /\ Goto(d, "commit")
  /\ seen' = [seen EXCEPT ![d] = OwnedBy(me[d].id)]
  /\ UNCHANGED <<Written, form, me>>

\* Mutant: without ON DELETE CASCADE.
DeleteCommit_orm_only(d) ==
  /\ pc[d] = "commit" /\ Answer(d, "done")
  /\ users' = [users EXCEPT ![me[d].id] = None]
  /\ submissions' = submissions \ seen[d]
  /\ UNCHANGED <<next_id, codes, tokens>>

\* Mutant: ON DELETE SET NULL.
DeleteCommit_set_null(d) ==
  /\ pc[d] = "commit" /\ Answer(d, "done")
  /\ users' = [users EXCEPT ![me[d].id] = None]
  /\ submissions' = LET left == submissions \ seen[d] IN
       (left \ OwnedBy(me[d].id)) \cup
         {[s EXCEPT !.user = None] : s \in left \cap OwnedBy(me[d].id)}
  /\ UNCHANGED <<next_id, codes, tokens>>

\* What has come since goes by ON DELETE CASCADE.
DeleteCommit(d) ==
  /\ pc[d] = "commit" /\ Answer(d, "done")
  /\ users' = [users EXCEPT ![me[d].id] = None]
  /\ submissions' = (submissions \ seen[d]) \ OwnedBy(me[d].id)
  /\ UNCHANGED <<next_id, codes, tokens>>

UploadCode(s) ==
  /\ pc[s] = "upload" /\ Goto(s, "commit")
  /\ codes' = codes \cup {s}
  /\ UNCHANGED <<tables, tokens, locals>>

\* The foreign key decides whether the user is still there.
SubmitCommit(s) ==
  /\ pc[s] = "commit"
  /\ \/ /\ users[me[s].id] # None /\ Answer(s, "done")
        /\ submissions' = submissions \cup
             {[request |-> s, user |-> me[s].id, by |-> me[s].by]}
     \/ /\ users[me[s].id] = None /\ Answer(s, "failed")
        /\ UNCHANGED submissions
  /\ UNCHANGED <<users, next_id, codes, tokens>>
-----------------------------------------------------------------------------
Init ==
  /\ users = [u \in Id |-> None] /\ next_id = 1
  /\ submissions = {} /\ codes = {} /\ tokens = {}
  /\ pc = [h \in Handler |-> "idle"] /\ form = [h \in Handler |-> Blank]
  /\ me = [h \in Handler |-> None] /\ seen = [h \in Handler |-> {}]

RegisterStep(r) ==
  RegisterBegin(r) \/ RegisterByName(r) \/ RegisterByEmail(r) \/ RegisterCommit(r)
LoginStep(l) == LoginBegin(l) \/ LoginByName(l) \/ LoginByEmail(l) \/ LoginVerify(l)
UpdateStep(h) == CheckName(h) \/ CheckEmail(h) \/ UpdateCommit(h)

Next ==
  \/ \E r \in Registrant : RegisterStep(r)
  \/ \E l \in Login : LoginStep(l)
  \/ \E f \in Refresher : Refresh(f)
  \/ \E h \in Owner : Authenticate(h) \/ Reject(h)
  \/ \E h \in Updater : UpdateStep(h)
  \/ \E d \in Deleter : LoadSubmissions(d) \/ DeleteCommit(d)
  \/ \E s \in Submitter : UploadCode(s) \/ SubmitCommit(s)

Spec == Init /\ [][Next]_vars
-----------------------------------------------------------------------------
(* Properties *)

Submission == [request : Submitter, user : Id, by : Registrant]

\* Every variable has its type.
TypeOK ==
  /\ users \in [Id -> Row \cup {None}] /\ next_id \in 1..(LastId + 1)
  /\ submissions \subseteq Submission /\ codes \subseteq Submitter
  /\ tokens \subseteq Token
  /\ pc \in [Handler -> {"idle", "byname", "byemail", "verify", "name", "email", "load",
                         "upload", "commit", "done", "failed"}]
  /\ form \in [Handler -> Form]
  /\ me \in [Handler -> Reading \cup {None}]
  /\ seen \in [Handler -> SUBSET Submission]

\* A name and an e-mail address lead to one account at most, whatever passed
\* between the queries of register or of an update and its commit.
IdentifiersUnique ==
  \A u, v \in Account :
    u # v => users[u].name # users[v].name /\ users[u].email # users[v].email

\* A token, and a handler that has accepted one, stand for the account they
\* were given for or for none: what outlives a deleted account, tokens signed
\* by refresh after the deletion included, never opens the next one.
TokensNameOneAccount ==
  /\ \A t \in tokens : users[t.sub] # None => users[t.sub].by = t.by
  /\ \A h \in Owner : me[h] # None /\ users[me[h].id] # None =>
       users[me[h].id].by = me[h].by

\* A submission belongs to an account that is there, the one whose token came
\* with the request, and has its code: one that commits while its user is
\* deleted goes with the user or is refused.
OwnersExist ==
  \A s \in submissions :
    /\ users[s.user] # None /\ users[s.user].by = s.by
    /\ s.request \in codes

\* Handlers whose commit succeeds in this step.
Succeeds(h) == pc[h] = "commit" /\ pc'[h] = "done"

\* A column of an account changes only by an update of that account that brings
\* the new value for it: two updates that overlap do not undo each other.
OnlyAskedColumns ==
  [][\A u \in Account, c \in Column :
       users'[u] # None /\ users'[u][c] # users[u][c] =>
         \E h \in Updater : Succeeds(h) /\ me[h].id = u /\ form[h][c] = users'[u][c]]_vars

\* An update that is answered with success has put every value it brings into
\* the row, but for a value the row had already when the request was let in.
UpdateTakesEffect ==
  [][\A h \in Updater : Succeeds(h) =>
       /\ users'[me[h].id] # None
       /\ \A c \in Given(form[h]) :
            form[h][c] \in {users'[me[h].id][c], me[h].row[c]}]_vars
=============================================================================
