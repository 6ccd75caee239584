----------------------------- MODULE ControlPlane -----------------------------
(****************************************************************************)
(* The shared PostgreSQL database under concurrent requests of the four     *)
(* services: logins and role bindings (auth), the insertion of rows by the  *)
(* engines, DeleteUser, whose three statements are three transactions,      *)
(* FactoryReset, whose three statements are one, and the four reads of a    *)
(* telemetry summary.  What the engines do with the rows is in Velzard and  *)
(* Zegion; here a row has an owner and is active or not.                    *)
(*                                                                          *)
(* The database runs at READ COMMITTED: a statement sees what is committed, *)
(* and waits while another transaction has deleted a row that it needs.     *)
(****************************************************************************)
EXTENDS Naturals, FiniteSets

CONSTANTS
    Ids,                \* ids that users rows will get; an id is never given twice
    Accounts,           \* GitHub accounts
    Deployments,        \* ids that deployments rows will get
    Environments,       \* ids that ephemeral_environments rows will get
    Procs               \* goroutines that handle requests

Rows == Deployments \cup Environments

ASSUME ControlPlaneAssumption ==
    /\ Deployments \cap Environments = {}
    /\ Rows \cap Ids = {}
    /\ {"none", "gone"} \cap Ids = {}
    /\ IsFiniteSet(Rows)

VARIABLES
    users,              \* the rows of users
    account,            \* users.github_id, kept when the row is deleted
    admins,             \* users.is_admin
    bound,              \* users.iam_role_arn is set
    owner,              \* user_id of a row; "none": not inserted yet, "gone": deleted
    active,             \* the rows whose status counts as active
    claims,             \* users with an unexpired token that says is_admin
    proc,               \* per goroutine, the statement it is at and what it holds
    undisturbed         \* auxiliary: summaries without failed query or deletion so far

userVars == <<users, account, admins, bound>>
rowVars == <<owner, active>>
vars == <<userVars, rowVars, claims, proc, undisturbed>>

Idle == [pc |-> "idle", user |-> "none", doomed |-> {}, active |-> 0, total |-> 0]

DeleteSteps == {"delete deployments", "delete environments", "delete user"}
ResetSteps == {"reset deployments", "reset environments", "reset users", "commit"}
SummarySteps == {"active deployments", "active environments",
                 "all deployments", "all environments", "report"}
InsertSteps == {"insert deployment", "insert environment"}

TypeOK ==
    /\ users \subseteq Ids
    /\ account \in [Ids -> Accounts \cup {"none"}]
    /\ admins \subseteq users /\ bound \subseteq users
    /\ owner \in [Rows -> Ids \cup {"none", "gone"}]
    /\ active \subseteq Rows
    /\ claims \subseteq Ids
    /\ proc \in [Procs ->
         [pc : {"idle"} \cup InsertSteps \cup DeleteSteps \cup ResetSteps \cup SummarySteps,
          user : Ids \cup {"none"}, doomed : SUBSET (Rows \cup Ids),
          active : 0 .. Cardinality(Rows), total : 0 .. Cardinality(Rows)]]
    /\ undisturbed \subseteq Procs

Init ==
    /\ users = {} /\ admins = {} /\ bound = {}
    /\ account = [i \in Ids |-> "none"]
    /\ owner = [x \in Rows |-> "none"]
    /\ active = {}
    /\ claims = {}
    /\ proc = [p \in Procs |-> Idle]
    /\ undisturbed = {}

-----------------------------------------------------------------------------
(* The schema: rows belong to users; those of deployments stop the deletion *)
(* of their user, those of ephemeral_environments go with it.               *)

Present(S) == {x \in S : owner[x] \in Ids}
RowsOf(S, us) == {x \in S : owner[x] \in us}

\* A deletion by another transaction that is not committed yet.
Locked(p, S) == \E q \in Procs \ {p} : proc[q].doomed \cap S # {}

\* Every user that a FactoryReset of p deletes.
Others(p) == users \ {proc[p].user}

\* The rows that the statement p is at reads for update, checks or deletes.
Needs(p) ==
    LET u == {proc[p].user} IN
    CASE proc[p].pc \in InsertSteps -> u
      [] proc[p].pc = "delete deployments" -> RowsOf(Deployments, u)
      [] proc[p].pc = "delete environments" -> RowsOf(Environments, u)
      [] proc[p].pc = "delete user" -> u \cup RowsOf(Rows, u)
      [] proc[p].pc = "reset deployments" -> Present(Deployments)
      [] proc[p].pc = "reset environments" -> Present(Environments)
      [] proc[p].pc = "reset users" -> Others(p) \cup RowsOf(Rows, Others(p))
      [] OTHER -> {}

Gets(p) == ~Locked(p, Needs(p))

DropRows(S) ==
    /\ owner' = [x \in Rows |-> IF x \in S THEN "gone" ELSE owner[x]]
    /\ active' = active \ S

DropUsers(S) ==
    /\ users' = users \ S
    /\ admins' = admins \ S
    /\ bound' = bound \ S
    /\ UNCHANGED account

-----------------------------------------------------------------------------
(* auth: sessions and roles.                                               *)

\* Callback upserts by github_id and issues a token with the row's is_admin.
Callback(a) ==
    LET rows == {i \in users : account[i] = a} IN
    /\ ~ \E p \in Procs : proc[p].doomed \cap rows # {}
    /\ IF rows # {}
       THEN claims' = claims \cup (rows \cap admins) /\ UNCHANGED userVars
       ELSE \E i \in Ids :
              /\ account[i] = "none"
              /\ users' = users \cup {i}
              /\ account' = [account EXCEPT ![i] = a]
              /\ UNCHANGED <<admins, bound, claims>>
    /\ UNCHANGED <<rowVars, proc, undisturbed>>

\* Whether or not the row that the token names still exists.
TokenExpires(i) ==
    /\ i \in claims
    /\ claims' = claims \ {i}
    /\ UNCHANGED <<userVars, rowVars, proc, undisturbed>>

Unlocked(i) == i \in users /\ ~ \E p \in Procs : i \in proc[p].doomed

BindIAMRole(i) ==
    /\ Unlocked(i)
    /\ bound' = bound \cup {i}
    /\ UNCHANGED <<users, account, admins, rowVars, claims, proc, undisturbed>>

\* An operator sets is_admin in the database; no service does.
MakeAdmin(i) ==
    /\ Unlocked(i)
    /\ admins' = admins \cup {i}
    /\ UNCHANGED <<users, account, bound, rowVars, claims, proc, undisturbed>>

-----------------------------------------------------------------------------
(* velzard and zegion: rows are inserted and change status.                *)

At(p, pc) == proc' = [proc EXCEPT ![p].pc = pc]
Return(p) == proc' = [proc EXCEPT ![p] = Idle]
Begin(p, pc, i) ==
    /\ proc[p].pc = "idle"
    /\ proc' = [proc EXCEPT ![p] = [Idle EXCEPT !.pc = pc, !.user = i]]

\* The user's role is read; the row is inserted with a later statement.
ReadRole(p, i) ==
    /\ i \in bound
    /\ \E pc \in InsertSteps : Begin(p, pc, i)
    /\ UNCHANGED <<userVars, rowVars, claims, undisturbed>>

\* Without its user, the row violates the foreign key.
Insert(p, x) ==
    LET i == proc[p].user IN
    /\ proc[p].pc = IF x \in Deployments THEN "insert deployment" ELSE "insert environment"
    /\ Gets(p)
    /\ owner[x] = "none"
    /\ IF i \in users THEN /\ owner' = [owner EXCEPT ![x] = i]
                           /\ active' = active \cup {x}
                      ELSE UNCHANGED rowVars
    /\ Return(p)
    /\ UNCHANGED <<userVars, claims, undisturbed>>

\* A status write of an engine, of a report or of Reconcile.
StatusWrite(x) ==
    /\ x \in Present(Rows)
    /\ ~ \E p \in Procs : x \in proc[p].doomed
    /\ active' \in {active \cup {x}, active \ {x}}
    /\ UNCHANGED <<userVars, owner, claims, proc, undisturbed>>

-----------------------------------------------------------------------------
(* auth: DeleteUser, three statements that commit one by one.              *)

AdminDeleteUser(p, c, i) ==
    /\ c \in claims
    /\ account[i] # "none"
    /\ Begin(p, "delete deployments", i)
    /\ UNCHANGED <<userVars, rowVars, claims, undisturbed>>

DeleteRows(p, S, pc, next) ==
    /\ proc[p].pc = pc
    /\ Gets(p)
    /\ DropRows(RowsOf(S, {proc[p].user}))
    /\ At(p, next)
    /\ undisturbed' = {}
    /\ UNCHANGED <<userVars, claims>>

DeleteDeployments(p) ==
    DeleteRows(p, Deployments, "delete deployments", "delete environments")
DeleteEnvironments(p) ==
    DeleteRows(p, Environments, "delete environments", "delete user")

Referenced(us) == RowsOf(Deployments, us) # {}

\* Mutant: the environments of the user are left without one.
DeleteUserRowOnly(p) ==
    LET i == proc[p].user IN
    /\ proc[p].pc = "delete user"
    /\ Gets(p)
    /\ IF i \in users /\ ~Referenced({i}) THEN DropUsers({i}) ELSE UNCHANGED userVars
    /\ Return(p)
    /\ undisturbed' = {}
    /\ UNCHANGED <<rowVars, claims>>

\* A deployment that was inserted meanwhile, or a user who is gone, is an error.
DeleteUserRow(p) ==
    LET i == proc[p].user IN
    /\ proc[p].pc = "delete user"
    /\ Gets(p)
    /\ IF i \in users /\ ~Referenced({i})
       THEN DropUsers({i}) /\ DropRows(RowsOf(Environments, {i}))
       ELSE UNCHANGED <<userVars, rowVars>>
    /\ Return(p)
    /\ undisturbed' = {}
    /\ UNCHANGED claims

-----------------------------------------------------------------------------
(* auth: FactoryReset, one transaction.                                    *)

AdminFactoryReset(p, c) ==
    /\ c \in claims
    /\ Begin(p, "reset deployments", c)
    /\ UNCHANGED <<userVars, rowVars, claims, undisturbed>>

Doom(p, S, next) ==
    /\ proc' = [proc EXCEPT ![p].pc = next, ![p].doomed = @ \cup S]
    /\ UNCHANGED <<userVars, rowVars, claims, undisturbed>>

ResetDeployments(p) ==
    /\ proc[p].pc = "reset deployments" /\ Gets(p)
    /\ Doom(p, Present(Deployments), "reset environments")

ResetEnvironments(p) ==
    /\ proc[p].pc = "reset environments" /\ Gets(p)
    /\ Doom(p, Present(Environments), "reset users")

\* Everybody but the caller, whether or not the caller still has a row.
ResetUsers(p) ==
    /\ proc[p].pc = "reset users" /\ Gets(p)
    /\ IF RowsOf(Deployments, Others(p)) \subseteq proc[p].doomed
       THEN Doom(p, Others(p) \cup RowsOf(Environments, Others(p)), "commit")
       ELSE Return(p) /\ UNCHANGED <<userVars, rowVars, claims, undisturbed>>

\* Mutant: the commit comes before the statement that deletes the users.
CommitRowsOnly(p) ==
    /\ proc[p].pc = "commit"
    /\ DropRows(proc[p].doomed \cap Rows)
    /\ Return(p)
    /\ undisturbed' = {}
    /\ UNCHANGED <<userVars, claims>>

Commit(p) ==
    /\ proc[p].pc = "commit"
    /\ DropRows(proc[p].doomed \cap Rows)
    /\ DropUsers(proc[p].doomed \cap Ids)
    /\ Return(p)
    /\ undisturbed' = {}
    /\ UNCHANGED claims

-----------------------------------------------------------------------------
(* telemetry: GetSummary counts with four queries.                         *)

HandleSummary(p) ==
    /\ Begin(p, "active deployments", "none")
    /\ undisturbed' = undisturbed \cup {p}
    /\ UNCHANGED <<userVars, rowVars, claims>>

\* A query that fails counts as zero and the summary goes on.
Count(p, pc, field, S, next) ==
    /\ proc[p].pc = pc
    /\ \/ /\ proc' = [proc EXCEPT ![p].pc = next,
                                  ![p][field] = @ + Cardinality(S \cap Present(Rows))]
          /\ UNCHANGED undisturbed
       \/ At(p, next) /\ undisturbed' = undisturbed \ {p}
    /\ UNCHANGED <<userVars, rowVars, claims>>

\* Mutant: the totals are read before the active rows.
GetSummaryTotalsFirst(p) ==
    \/ Count(p, "active deployments", "total", Deployments, "active environments")
    \/ Count(p, "active environments", "total", Environments, "all deployments")
    \/ Count(p, "all deployments", "active", Deployments \cap active, "all environments")
    \/ Count(p, "all environments", "active", Environments \cap active, "report")

\* Mutant: the totals count the rows of both tables twice.
GetSummaryTwice(p) ==
    \/ Count(p, "active deployments", "active", Deployments \cap active, "active environments")
    \/ Count(p, "active environments", "active", Environments \cap active, "all deployments")
    \/ Count(p, "all deployments", "total", Rows, "all environments")
    \/ Count(p, "all environments", "total", Rows, "report")

GetSummary(p) ==
    \/ Count(p, "active deployments", "active", Deployments \cap active, "active environments")
    \/ Count(p, "active environments", "active", Environments \cap active, "all deployments")
    \/ Count(p, "all deployments", "total", Deployments, "all environments")
    \/ Count(p, "all environments", "total", Environments, "report")

Report(p) ==
    /\ proc[p].pc = "report"
    /\ Return(p)
    /\ undisturbed' = undisturbed \ {p}
    /\ UNCHANGED <<userVars, rowVars, claims>>

-----------------------------------------------------------------------------
(* Failures.                                                               *)

\* A statement fails, the request's context is cancelled, or the database breaks a
\* deadlock: what is not committed is rolled back, and the operation ends.
Fail(p) ==
    /\ proc[p].pc \in DeleteSteps \cup ResetSteps \cup InsertSteps
    /\ Return(p)
    /\ UNCHANGED <<userVars, rowVars, claims, undisturbed>>

-----------------------------------------------------------------------------

Statement(p) ==
    \/ \E x \in Rows : Insert(p, x)
    \/ DeleteDeployments(p) \/ DeleteEnvironments(p) \/ DeleteUserRow(p)
    \/ ResetDeployments(p) \/ ResetEnvironments(p) \/ ResetUsers(p) \/ Commit(p)
    \/ GetSummary(p) \/ Report(p)

Request(p) ==
    \/ \E i \in Ids : ReadRole(p, i) \/ AdminFactoryReset(p, i)
    \/ \E c, i \in Ids : AdminDeleteUser(p, c, i)
    \/ HandleSummary(p)

Next ==
    \/ \E p \in Procs : Request(p) \/ Statement(p) \/ Fail(p)
    \/ \E a \in Accounts : Callback(a)
    \/ \E i \in Ids : TokenExpires(i) \/ BindIAMRole(i) \/ MakeAdmin(i)
    \/ \E x \in Rows : StatusWrite(x)

Spec == Init /\ [][Next]_vars

-----------------------------------------------------------------------------
(* Properties.                                                             *)

\* However DeleteUser, FactoryReset and insertions mix, every row has its user.
RowsHaveUsers == \A x \in Present(Rows) : owner[x] \in users

\* Rows disappear and their user stays only where a DeleteUser is at work on that
\* user, or for the caller of a reset: nobody else is ever half wiped, whoever logs
\* in or deploys between the statements of the reset.
WipesTogether ==
    [][\A x \in Present(Rows) :
          /\ owner'[x] = "gone"
          /\ owner[x] \in users'
          => \E p \in Procs : /\ proc[p].user = owner[x]
                              /\ proc[p].pc \in DeleteSteps \cup {"commit"}]_vars

\* A summary that saw no failure and no deletion never reports more active nodes
\* than deployments in total, whatever is inserted and changes between its reads.
SummaryConsistent ==
    \A p \in undisturbed :
        proc[p].pc = "report" => proc[p].active <= proc[p].total

-----------------------------------------------------------------------------
(* What the documents say and the code does not do.                        *)

\* IMPLEMENTATION_LOG.md: a user is deleted by a transaction, all or nothing.
DeleteUserIsAtomic ==
    [][\A x \in Present(Rows) :
          /\ owner'[x] = "gone"
          /\ \E p \in Procs : proc[p].pc \in DeleteSteps /\ proc[p].user = owner[x]
          => owner[x] \notin users']_vars
=============================================================================
