-------------------------- MODULE ControlPlaneProofs --------------------------
(* Proofs about the shared database, for every number of users, rows and    *)
(* concurrent requests.                                                     *)
EXTENDS ControlPlane, FiniteSetTheorems, TLAPS

Pcs == {"idle"} \cup InsertSteps \cup DeleteSteps \cup ResetSteps \cup SummarySteps

\* What the argument needs of TypeOK: the bounds of the counters do not matter.
ShapeOK ==
    /\ users \subseteq Ids
    /\ owner \in [Rows -> Ids \cup {"none", "gone"}]
    /\ proc \in [Procs -> [pc : Pcs, user : Ids \cup {"none"}, doomed : SUBSET (Rows \cup Ids),
                           active : Nat, total : Nat]]

\* A transaction that deletes a user deletes the user's rows ...
DoomedTogether ==
    \A p \in Procs, x \in Rows :
        owner[x] \in Ids /\ owner[x] \in proc[p].doomed => x \in proc[p].doomed

\* ... a transaction deletes only rows that were inserted ...
DoomedInserted == \A p \in Procs, x \in Rows : x \in proc[p].doomed => owner[x] # "none"

\* ... and one that is about to commit leaves no owner of a row it deletes but its caller.
CommitCovers ==
    \A p \in Procs, x \in Rows :
        proc[p].pc = "commit" /\ x \in proc[p].doomed /\ owner[x] \in Ids
            => owner[x] \in proc[p].doomed \cup {proc[p].user}

IInv == ShapeOK /\ RowsHaveUsers /\ DoomedTogether /\ DoomedInserted /\ CommitCovers

-----------------------------------------------------------------------------
(* Frames: what a step has to leave alone.                                 *)

\* One goroutine moves on without new deletions and not to its commit, and rows only go.
LEMMA GoingOnKeeps ==
    ASSUME IInv, ShapeOK', NEW p \in Procs,
           \A q \in Procs : q # p => proc'[q] = proc[q],
           proc'[p].doomed = {} \/ proc'[p].doomed = proc[p].doomed,
           proc'[p].pc # "commit",
           \A x \in Rows : owner'[x] \in {owner[x], "gone"},
           RowsHaveUsers'
    PROVE  IInv'
<1> USE ControlPlaneAssumption
<1> USE DEF IInv
<1>1. DoomedTogether'
  BY DEF DoomedTogether
<1>2. DoomedInserted'
  BY DEF DoomedInserted
<1>3. CommitCovers'
  BY DEF CommitCovers
<1> QED
  BY <1>1, <1>2, <1>3

\* No goroutine moves.
LEMMA StandingStillKeeps ==
    ASSUME IInv, ShapeOK', UNCHANGED <<proc, owner>>, RowsHaveUsers'
    PROVE  IInv'
BY DEF IInv, DoomedTogether, DoomedInserted, CommitCovers

LEMMA CountIsNat == \A S : Cardinality(S \cap Present(Rows)) \in Nat
<1> SUFFICES ASSUME NEW S
             PROVE  Cardinality(S \cap Present(Rows)) \in Nat
  OBVIOUS
<1>1. S \cap Present(Rows) \subseteq Rows
  BY DEF Present
<1>2. IsFiniteSet(S \cap Present(Rows))
  BY <1>1, FS_Subset, ControlPlaneAssumption
<1> QED
  BY <1>2, FS_CardinalityType

\* Rows keep their users as long as users only come.
LEMMA NobodyGoes ==
    ASSUME RowsHaveUsers, users \subseteq users', UNCHANGED owner
    PROVE  RowsHaveUsers'
BY DEF RowsHaveUsers, Present

-----------------------------------------------------------------------------
(* The steps.                                                              *)

LEMMA SessionKeeps ==
    ASSUME IInv,
           \/ \E a \in Accounts : Callback(a)
           \/ \E i \in Ids : TokenExpires(i) \/ BindIAMRole(i) \/ MakeAdmin(i)
           \/ \E x \in Rows : StatusWrite(x)
    PROVE  IInv'
<1>1. UNCHANGED <<proc, owner>> /\ users \subseteq users' /\ users' \subseteq Ids
  BY DEF Callback, TokenExpires, BindIAMRole, MakeAdmin, StatusWrite, rowVars, userVars,
         IInv, ShapeOK
<1>2. ShapeOK'
  BY <1>1 DEF IInv, ShapeOK
<1> QED
  BY <1>1, <1>2, NobodyGoes, StandingStillKeeps DEF IInv

LEMMA RequestKeeps ==
    ASSUME IInv, NEW p \in Procs, Request(p) \/ Fail(p) \/ GetSummary(p) \/ Report(p)
    PROVE  IInv'
<1> USE DEF IInv
<1>1. UNCHANGED <<users, owner>>
  BY DEF Request, ReadRole, AdminFactoryReset, AdminDeleteUser, HandleSummary, Fail, GetSummary,
         Count, Report, userVars, rowVars
<1>2. ASSUME NEW pc \in Pcs, pc # "commit", NEW i \in Ids \cup {"none"}, Begin(p, pc, i)
      PROVE  IInv'
  <2>1. ShapeOK'
    BY <1>1, <1>2 DEF Begin, ShapeOK, Idle
  <2> QED
    BY <1>1, <1>2, <2>1, NobodyGoes, GoingOnKeeps DEF Begin, ShapeOK, Idle
<1>3. CASE Request(p)
  <2>1. InsertSteps \subseteq Pcs /\ "commit" \notin InsertSteps
        /\ {"reset deployments", "delete deployments", "active deployments"} \subseteq Pcs
    BY DEF Pcs, InsertSteps, DeleteSteps, ResetSteps, SummarySteps
  <2> QED
    BY <1>2, <1>3, <2>1 DEF Request, ReadRole, AdminFactoryReset, AdminDeleteUser, HandleSummary
<1>4. CASE Fail(p) \/ Report(p)
  <2>1. ShapeOK'
    BY <1>1, <1>4 DEF Fail, Report, Return, ShapeOK, Idle, Pcs
  <2> QED
    BY <1>1, <1>4, <2>1, NobodyGoes, GoingOnKeeps DEF Fail, Report, Return, ShapeOK, Idle
<1>5. CASE GetSummary(p)
  <2>1. ASSUME NEW pc, NEW field \in {"active", "total"}, NEW S, NEW next \in SummarySteps,
               Count(p, pc, field, S, next)
        PROVE  IInv'
    <3>1. Cardinality(S \cap Present(Rows)) \in Nat
      BY CountIsNat
    <3>2. /\ proc'[p].pc = next
          /\ proc'[p].doomed = proc[p].doomed
          /\ proc' \in [Procs -> [pc : Pcs, user : Ids \cup {"none"},
                                  doomed : SUBSET (Rows \cup Ids), active : Nat, total : Nat]]
          /\ \A q \in Procs : q # p => proc'[q] = proc[q]
      <4>1. next \in Pcs
        BY DEF Pcs
      <4>2. CASE field = "active"
        BY <2>1, <3>1, <4>1, <4>2 DEF Count, At, ShapeOK
      <4>3. CASE field = "total"
        BY <2>1, <3>1, <4>1, <4>3 DEF Count, At, ShapeOK
      <4> QED
        BY <4>2, <4>3
    <3>3. ShapeOK'
      BY <1>1, <3>2 DEF ShapeOK
    <3> QED
      BY <1>1, <3>2, <3>3, NobodyGoes, GoingOnKeeps DEF SummarySteps
  <2> QED
    BY <1>5, <2>1 DEF GetSummary, SummarySteps
<1> QED
  BY <1>3, <1>4, <1>5

LEMMA InsertKeeps ==
    ASSUME IInv, NEW p \in Procs, NEW x \in Rows, Insert(p, x)
    PROVE  IInv'
<1> USE ControlPlaneAssumption
<1> USE DEF IInv
<1> DEFINE i == proc[p].user
<1>1. /\ UNCHANGED users
      /\ proc'[p].doomed = {} /\ proc'[p].pc = "idle"
      /\ \A q \in Procs : q # p => proc'[q] = proc[q]
  BY DEF Insert, Return, Idle, userVars, ShapeOK
<1>2. PICK u : u = proc[p].user
  OBVIOUS
<1>3. CASE u \notin users
  <2>1. UNCHANGED owner
    BY <1>2, <1>3 DEF Insert, rowVars
  <2>2. ShapeOK'
    BY <2>1 DEF Insert, Return, Idle, userVars, ShapeOK, Pcs
  <2> QED
    BY <1>1, <2>1, <2>2, NobodyGoes, GoingOnKeeps
<1>4. CASE u \in users
  <2>1. owner[x] = "none" /\ owner' = [owner EXCEPT ![x] = u]
    BY <1>2, <1>4 DEF Insert
  <2>2. \A q \in Procs : q # p => u \notin proc[q].doomed
    <3>1. proc[p].pc \in InsertSteps
      BY DEF Insert, InsertSteps
    <3>2. Needs(p) = {u}
      <4>1. CASE proc[p].pc = "insert deployment"
        BY <1>2, <4>1 DEF Needs, InsertSteps
      <4>2. CASE proc[p].pc = "insert environment"
        BY <1>2, <4>2 DEF Needs, InsertSteps
      <4> QED
        BY <3>1, <4>1, <4>2 DEF InsertSteps
    <3>3. ~ Locked(p, {u})
      BY <3>2 DEF Insert, Gets
    <3> QED
      BY <3>3 DEF Locked
  <2>3. ShapeOK'
    BY <1>4, <2>1 DEF Insert, Return, Idle, userVars, ShapeOK, Pcs
  <2>4. RowsHaveUsers'
    BY <1>1, <1>4, <2>1 DEF RowsHaveUsers, Present, ShapeOK
  <2>5. DoomedTogether'
    BY <1>1, <2>1, <2>2 DEF DoomedTogether, ShapeOK
  <2>6. DoomedInserted'
    BY <1>1, <1>4, <2>1 DEF DoomedInserted, ShapeOK
  <2>7. CommitCovers'
    BY <1>1, <2>1, <2>2 DEF CommitCovers, DoomedInserted, ShapeOK
  <2> QED
    BY <2>3, <2>4, <2>5, <2>6, <2>7
<1> QED
  BY <1>3, <1>4

LEMMA DeleteKeeps ==
    ASSUME IInv, NEW p \in Procs,
           DeleteDeployments(p) \/ DeleteEnvironments(p) \/ DeleteUserRow(p)
    PROVE  IInv'
<1> USE ControlPlaneAssumption
<1> USE DEF IInv
<1>1. \A S : DropRows(S) => /\ owner' \in [Rows -> Ids \cup {"none", "gone"}]
                            /\ \A x \in Rows : owner'[x] \in {owner[x], "gone"}
                            /\ \A x \in Rows \cap S : owner'[x] = "gone"
  BY DEF DropRows, ShapeOK
<1>2. ASSUME NEW S, NEW pc, NEW next \in Pcs \ {"commit"}, DeleteRows(p, S, pc, next)
      PROVE  IInv'
  <2>1. /\ proc'[p].pc = next /\ proc'[p].doomed = proc[p].doomed
        /\ \A q \in Procs : q # p => proc'[q] = proc[q]
        /\ users' = users
        /\ DropRows(RowsOf(S, {proc[p].user}))
    BY <1>2 DEF DeleteRows, At, ShapeOK, userVars
  <2>2. ShapeOK'
    BY <1>1, <1>2, <2>1 DEF DeleteRows, At, ShapeOK
  <2>3. RowsHaveUsers'
    BY <1>1, <2>1 DEF RowsHaveUsers, Present
  <2> QED
    BY <1>1, <2>1, <2>2, <2>3, GoingOnKeeps
<1>3. CASE DeleteDeployments(p) \/ DeleteEnvironments(p)
  <2>1. {"delete environments", "delete user"} \subseteq Pcs \ {"commit"}
    BY DEF Pcs, DeleteSteps
  <2> QED
    BY <1>2, <1>3, <2>1 DEF DeleteDeployments, DeleteEnvironments
<1>4. CASE DeleteUserRow(p)
  <2>1. /\ proc'[p].doomed = {} /\ proc'[p].pc = "idle"
        /\ \A q \in Procs : q # p => proc'[q] = proc[q]
    BY <1>4 DEF DeleteUserRow, Return, Idle, ShapeOK
  <2>2. PICK i : i = proc[p].user
    OBVIOUS
  <2>3. CASE i \in users /\ ~ Referenced({i})
    <3>1. /\ users' = users \ {i}
          /\ DropRows(RowsOf(Environments, {i}))
      BY <1>4, <2>2, <2>3 DEF DeleteUserRow, DropUsers
    <3>2. ShapeOK'
      BY <1>1, <1>4, <3>1 DEF DeleteUserRow, Return, Idle, ShapeOK, Pcs
    <3>3. \A x \in Rows : owner'[x] # i
      BY <1>1, <2>3, <3>1, i \in Ids DEF Referenced, RowsOf, Rows, ShapeOK
    <3>4. RowsHaveUsers'
      BY <1>1, <3>1, <3>3 DEF RowsHaveUsers, Present
    <3> QED
      BY <1>1, <2>1, <3>1, <3>2, <3>4, GoingOnKeeps
  <2>4. CASE ~ (i \in users /\ ~ Referenced({i}))
    <3>1. UNCHANGED <<users, owner>>
      BY <1>4, <2>2, <2>4 DEF DeleteUserRow, userVars, rowVars
    <3>2. ShapeOK'
      BY <1>4, <3>1 DEF DeleteUserRow, Return, Idle, ShapeOK, Pcs
    <3> QED
      BY <2>1, <3>1, <3>2, NobodyGoes, GoingOnKeeps
  <2> QED
    BY <2>3, <2>4
<1> QED
  BY <1>3, <1>4

LEMMA ResetKeeps ==
    ASSUME IInv, NEW p \in Procs,
           ResetDeployments(p) \/ ResetEnvironments(p) \/ ResetUsers(p) \/ Commit(p)
    PROVE  IInv'
<1> USE ControlPlaneAssumption
<1> USE DEF IInv
<1>1. ASSUME NEW S \in SUBSET (Rows \cup Ids), NEW next \in Pcs, Doom(p, S, next)
      PROVE  /\ UNCHANGED <<users, owner>>
             /\ proc'[p].pc = next /\ proc'[p].doomed = proc[p].doomed \cup S
             /\ proc'[p].user = proc[p].user
             /\ \A q \in Procs : q # p => proc'[q] = proc[q]
             /\ ShapeOK'
  <2>1. UNCHANGED <<users, owner>>
    BY <1>1 DEF Doom, userVars, rowVars
  <2>2. proc' = [proc EXCEPT ![p].pc = next, ![p].doomed = proc[p].doomed \cup S]
    BY <1>1 DEF Doom
  <2>3. PICK D : D = proc[p].doomed \cup S
    OBVIOUS
  <2>4. D \in SUBSET (Rows \cup Ids)
    BY <2>3 DEF ShapeOK
  <2>5. proc' = [proc EXCEPT ![p] = [proc[p] EXCEPT !.pc = next, !.doomed = D]]
    BY <2>2, <2>3 DEF ShapeOK
  <2>6. ShapeOK'
    BY <2>1, <2>4, <2>5 DEF ShapeOK
  <2> QED
    BY <2>1, <2>3, <2>5, <2>6 DEF ShapeOK
<1>2. ASSUME NEW S \in SUBSET Rows, \A x \in S : owner[x] \in Ids,
             NEW next \in Pcs \ {"commit"}, Doom(p, S, next)
      PROVE  IInv'
  <2>1. /\ UNCHANGED <<users, owner>>
        /\ proc'[p].pc = next /\ proc'[p].doomed = proc[p].doomed \cup S
        /\ \A q \in Procs : q # p => proc'[q] = proc[q]
        /\ ShapeOK'
    BY <1>1, <1>2
  <2>2. RowsHaveUsers'
    BY <2>1, NobodyGoes
  <2>3. DoomedTogether'
    BY <2>1 DEF DoomedTogether
  <2>4. DoomedInserted'
    BY <1>2, <2>1 DEF DoomedInserted
  <2>5. CommitCovers'
    BY <2>1 DEF CommitCovers
  <2> QED
    BY <2>1, <2>2, <2>3, <2>4, <2>5
<1>3. CASE ResetDeployments(p) \/ ResetEnvironments(p)
  <2>1. {"reset environments", "reset users"} \subseteq Pcs \ {"commit"}
    BY DEF Pcs, ResetSteps
  <2>2. \A S \in SUBSET Rows : Present(S) \in SUBSET Rows /\ \A x \in Present(S) : owner[x] \in Ids
    BY DEF Present
  <2> QED
    BY <1>2, <1>3, <2>1, <2>2 DEF ResetDeployments, ResetEnvironments, Rows
<1>4. CASE ResetUsers(p)
  <2> DEFINE Gone == Others(p) \cup RowsOf(Environments, Others(p))
  <2>1. PICK S, U : S = Gone /\ U = Others(p)
    OBVIOUS
  <2>2. /\ U \subseteq users /\ users \ {proc[p].user} \subseteq U
        /\ S \in SUBSET (Rows \cup Ids)
    BY <2>1 DEF Others, RowsOf, Rows, ShapeOK
  <2>3. CASE RowsOf(Deployments, U) \subseteq proc[p].doomed
    <3>1. Doom(p, S, "commit")
      BY <1>4, <2>1, <2>3 DEF ResetUsers
    <3>2. /\ UNCHANGED <<users, owner>>
          /\ proc'[p].pc = "commit" /\ proc'[p].doomed = proc[p].doomed \cup S
          /\ proc'[p].user = proc[p].user
          /\ \A q \in Procs : q # p => proc'[q] = proc[q]
          /\ ShapeOK'
      BY <1>1, <2>2, <3>1 DEF Pcs, ResetSteps
    <3>3. RowsHaveUsers'
      BY <3>2, NobodyGoes
    <3>4. \A x \in Rows : owner[x] \in U => x \in proc'[p].doomed
      BY <2>1, <2>3, <3>2 DEF RowsOf, Rows
    <3>5. S \cap Ids = U /\ \A x \in S \cap Rows : owner[x] \in U
      BY <2>1, <2>2 DEF RowsOf, Rows, ShapeOK
    <3>6. DoomedTogether'
      BY <3>2, <3>4, <3>5 DEF DoomedTogether
    <3>7. DoomedInserted'
      BY <2>2, <3>2, <3>5 DEF DoomedInserted, ShapeOK
    <3>8. CommitCovers'
      <4>1. \A x \in Rows : owner[x] \in Ids => owner[x] \in U \cup {proc[p].user}
        BY <2>2 DEF RowsHaveUsers, Present
      <4>2. U \subseteq proc'[p].doomed
        BY <3>2, <3>5
      <4> QED
        BY <3>2, <4>1, <4>2 DEF CommitCovers
    <3> QED
      BY <3>2, <3>3, <3>6, <3>7, <3>8
  <2>4. CASE ~ (RowsOf(Deployments, U) \subseteq proc[p].doomed)
    <3>1. Return(p) /\ UNCHANGED <<users, owner>>
      BY <1>4, <2>1, <2>4 DEF ResetUsers, userVars, rowVars
    <3>2. ShapeOK'
      BY <3>1 DEF Return, Idle, ShapeOK, Pcs
    <3> QED
      BY <3>1, <3>2, NobodyGoes, GoingOnKeeps DEF Return, Idle, ShapeOK
  <2> QED
    BY <2>3, <2>4
<1>5. CASE Commit(p)
  <2>1. /\ proc'[p].doomed = {} /\ proc'[p].pc = "idle"
        /\ \A q \in Procs : q # p => proc'[q] = proc[q]
        /\ users' = users \ (proc[p].doomed \cap Ids)
        /\ owner' = [x \in Rows |-> IF x \in proc[p].doomed \cap Rows THEN "gone" ELSE owner[x]]
    BY <1>5 DEF Commit, Return, Idle, DropUsers, DropRows, ShapeOK
  <2>2. ShapeOK'
    BY <1>5, <2>1 DEF Commit, Return, Idle, ShapeOK, Pcs
  <2>3. RowsHaveUsers'
    BY <2>1 DEF RowsHaveUsers, Present, DoomedTogether
  <2> QED
    BY <2>1, <2>2, <2>3, GoingOnKeeps
<1> QED
  BY <1>3, <1>4, <1>5

LEMMA InitHolds == Init => IInv
BY ControlPlaneAssumption
   DEF Init, Idle, IInv, ShapeOK, RowsHaveUsers, Present, DoomedTogether, DoomedInserted,
       CommitCovers, Pcs

LEMMA NextKeeps ==
    ASSUME IInv, [Next]_vars
    PROVE  IInv'
<1>1. CASE Next
  BY <1>1, SessionKeeps, RequestKeeps, InsertKeeps, DeleteKeeps, ResetKeeps DEF Next, Statement
<1>2. CASE UNCHANGED vars
  <2>1. UNCHANGED <<users, owner, proc>>
    BY <1>2 DEF vars, userVars, rowVars
  <2> QED
    BY <2>1 DEF IInv, ShapeOK, RowsHaveUsers, Present, DoomedTogether, DoomedInserted, CommitCovers
<1> QED
  BY <1>1, <1>2

\* However many requests delete users, reset the system and insert rows at a time, a
\* row always has its user.
THEOREM RowsAlwaysHaveUsers == Spec => []RowsHaveUsers
<1>1. IInv => RowsHaveUsers
  BY DEF IInv
<1> QED
  BY <1>1, InitHolds, NextKeeps, PTL DEF Spec

-----------------------------------------------------------------------------
(* Who may be half wiped.                                                  *)

LEMMA WipeStep ==
    ASSUME IInv, Next, NEW x \in Present(Rows), owner'[x] = "gone", owner[x] \in users'
    PROVE  \E p \in Procs : /\ proc[p].user = owner[x]
                            /\ proc[p].pc \in DeleteSteps \cup {"commit"}
<1> USE ControlPlaneAssumption
<1> USE DEF IInv
<1>1. x \in Rows /\ owner[x] \in Ids /\ owner[x] # "gone" /\ owner[x] # "none"
  BY DEF Present
<1>2. owner' # owner
  BY <1>1
<1>3. CASE \/ \E a \in Accounts : Callback(a)
           \/ \E i \in Ids : TokenExpires(i) \/ BindIAMRole(i) \/ MakeAdmin(i)
           \/ \E y \in Rows : StatusWrite(y)
  BY <1>2, <1>3 DEF Callback, TokenExpires, BindIAMRole, MakeAdmin, StatusWrite, rowVars
<1>4. ASSUME NEW p \in Procs, Request(p) \/ Fail(p) \/ GetSummary(p) \/ Report(p)
      PROVE  FALSE
  BY <1>2, <1>4 DEF Request, ReadRole, AdminFactoryReset, AdminDeleteUser, HandleSummary, Fail,
                    GetSummary, Count, Report, rowVars
<1>5. ASSUME NEW p \in Procs, NEW y \in Rows, Insert(p, y)
      PROVE  FALSE
  <2>1. PICK u : u = proc[p].user
    OBVIOUS
  <2>2. u \in users /\ owner[y] = "none" /\ owner' = [owner EXCEPT ![y] = u]
    BY <1>2, <1>5, <2>1 DEF Insert, rowVars
  <2> QED
    BY <1>1, <2>2 DEF ShapeOK
<1>6. ASSUME NEW p \in Procs, DeleteDeployments(p) \/ DeleteEnvironments(p)
      PROVE  proc[p].user = owner[x] /\ proc[p].pc \in DeleteSteps
  <2>1. PICK u : u = proc[p].user
    OBVIOUS
  <2>2. \E S : owner' = [y \in Rows |-> IF y \in RowsOf(S, {u}) THEN "gone" ELSE owner[y]]
    BY <1>6, <2>1 DEF DeleteDeployments, DeleteEnvironments, DeleteRows, DropRows
  <2>3. owner[x] = u
    BY <1>1, <2>2 DEF RowsOf
  <2> QED
    BY <1>6, <2>1, <2>3 DEF DeleteDeployments, DeleteEnvironments, DeleteRows, DeleteSteps
<1>7. ASSUME NEW p \in Procs, DeleteUserRow(p)
      PROVE  proc[p].user = owner[x] /\ proc[p].pc \in DeleteSteps
  <2>1. PICK u : u = proc[p].user
    OBVIOUS
  <2>2. DropRows(RowsOf(Environments, {u}))
    BY <1>2, <1>7, <2>1 DEF DeleteUserRow, rowVars
  <2>3. owner[x] = u
    BY <1>1, <2>2 DEF DropRows, RowsOf
  <2> QED
    BY <1>7, <2>1, <2>3 DEF DeleteUserRow, DeleteSteps
<1>8. ASSUME NEW p \in Procs, ResetDeployments(p) \/ ResetEnvironments(p) \/ ResetUsers(p)
      PROVE  FALSE
  BY <1>2, <1>8 DEF ResetDeployments, ResetEnvironments, ResetUsers, Doom, rowVars
<1>9. ASSUME NEW p \in Procs, Commit(p)
      PROVE  proc[p].user = owner[x] /\ proc[p].pc = "commit"
  <2>1. /\ proc[p].pc = "commit"
        /\ users' = users \ (proc[p].doomed \cap Ids)
        /\ owner' = [y \in Rows |-> IF y \in proc[p].doomed \cap Rows THEN "gone" ELSE owner[y]]
    BY <1>9 DEF Commit, DropUsers, DropRows
  <2>2. x \in proc[p].doomed /\ owner[x] \notin proc[p].doomed
    BY <1>1, <2>1
  <2> QED
    BY <1>1, <2>1, <2>2 DEF CommitCovers
<1> QED
  BY <1>3, <1>4, <1>5, <1>6, <1>7, <1>8, <1>9 DEF Next, Statement

\* Whoever logs in or deploys between the statements of a reset, and however many resets
\* and deletions overlap: only the user of a DeleteUser at work and the caller of a
\* reset lose rows and stay.
THEOREM WipesAreTogether == Spec => WipesTogether
<1>1. ASSUME IInv, [Next]_vars
      PROVE  [\A x \in Present(Rows) :
                 /\ owner'[x] = "gone"
                 /\ owner[x] \in users'
                 => \E p \in Procs : /\ proc[p].user = owner[x]
                                     /\ proc[p].pc \in DeleteSteps \cup {"commit"}]_vars
  BY <1>1, WipeStep
<1> QED
  BY <1>1, InitHolds, NextKeeps, PTL DEF Spec, WipesTogether

-----------------------------------------------------------------------------
(* Summaries.                                                              *)

CountOf(S) == Cardinality(S \cap Present(Rows))

\* What the queries of a summary have counted so far is bounded by the rows there are.
Bounded(pc, a, t, d, e) ==
    /\ pc = "active deployments" => a = 0 /\ t = 0
    /\ pc = "active environments" => a <= d /\ t = 0
    /\ pc = "all deployments" => a <= d + e /\ t = 0
    /\ pc = "all environments" => a <= t + e
    /\ pc = "report" => a <= t

Tally(p) ==
    Bounded(proc[p].pc, proc[p].active, proc[p].total, CountOf(Deployments), CountOf(Environments))

Tallies == undisturbed \subseteq Procs /\ \A p \in undisturbed : Tally(p)

\* A count over fewer rows is not larger.
LEMMA CountGrows ==
    ASSUME NEW S, NEW R \in SUBSET S
    PROVE  CountOf(R) \in Nat /\ CountOf(S) \in Nat /\ CountOf(R) <= CountOf(S)
<1>1. S \cap Present(Rows) \subseteq Rows
  BY DEF Present
<1>2. IsFiniteSet(S \cap Present(Rows))
  BY <1>1, FS_Subset, ControlPlaneAssumption
<1>3. R \cap Present(Rows) \subseteq S \cap Present(Rows)
  OBVIOUS
<1>4. /\ IsFiniteSet(R \cap Present(Rows))
      /\ Cardinality(R \cap Present(Rows)) <= Cardinality(S \cap Present(Rows))
  BY <1>2, <1>3, FS_Subset
<1> QED
  BY <1>2, <1>4, FS_CardinalityType DEF CountOf

\* Without deletions there are never fewer rows to count.
LEMMA CountsKept ==
    ASSUME NEW S, Present(Rows) \subseteq Present(Rows)'
    PROVE  CountOf(S) \in Nat /\ CountOf(S)' \in Nat /\ CountOf(S) <= CountOf(S)'
<1>1. PICK P, Q : P = S \cap Present(Rows) /\ Q = S \cap Present(Rows)'
  OBVIOUS
<1>2. P \subseteq Q /\ Q \subseteq Rows
  BY <1>1 DEF Present
<1>3. IsFiniteSet(Q) /\ IsFiniteSet(P) /\ Cardinality(P) <= Cardinality(Q)
  BY <1>2, FS_Subset, ControlPlaneAssumption
<1>4. CountOf(S) = Cardinality(P) /\ CountOf(S)' = Cardinality(Q)
  BY <1>1 DEF CountOf
<1> QED
  BY <1>3, <1>4, FS_CardinalityType

\* The four queries, and that the bounds may grow.
LEMMA BoundedSteps ==
    ASSUME NEW a \in Nat, NEW t \in Nat, NEW d \in Nat, NEW e \in Nat, NEW x \in Nat
    PROVE  /\ Bounded("active deployments", a, t, d, e) /\ x <= d
                => Bounded("active environments", a + x, t, d, e)
           /\ Bounded("active environments", a, t, d, e) /\ x <= e
                => Bounded("all deployments", a + x, t, d, e)
           /\ Bounded("all deployments", a, t, d, e)
                => Bounded("all environments", a, t + d, d, e)
           /\ Bounded("all environments", a, t, d, e)
                => Bounded("report", a, t + e, d, e)
BY DEF Bounded

LEMMA BoundsGrow ==
    ASSUME NEW pc, NEW a \in Nat, NEW t \in Nat, NEW d \in Nat, NEW e \in Nat,
           NEW f \in Nat, NEW g \in Nat, d <= f, e <= g, Bounded(pc, a, t, d, e)
    PROVE  Bounded(pc, a, t, f, g)
<1>1. a <= d => a <= f
  OBVIOUS
<1>2. a <= d + e => a <= f + g
  OBVIOUS
<1>3. a <= t + e => a <= t + g
  OBVIOUS
<1> QED
  BY <1>1, <1>2, <1>3, Zenon DEF Bounded

\* A summary that no step of its own moves keeps its tally while rows only come.
LEMMA TallyKept ==
    ASSUME IInv, NEW p \in Procs, Tally(p), Present(Rows) \subseteq Present(Rows)',
           proc'[p] = proc[p]
    PROVE  Tally(p)'
<1>1. /\ CountOf(Deployments) \in Nat /\ CountOf(Deployments)' \in Nat
      /\ CountOf(Deployments) <= CountOf(Deployments)'
      /\ CountOf(Environments) \in Nat /\ CountOf(Environments)' \in Nat
      /\ CountOf(Environments) <= CountOf(Environments)'
  BY CountsKept
<1>2. proc[p].active \in Nat /\ proc[p].total \in Nat
  BY DEF IInv, ShapeOK
<1>3. PICK d1, e1, d2, e2 : /\ d1 = CountOf(Deployments) /\ d2 = CountOf(Deployments)'
                            /\ e1 = CountOf(Environments) /\ e2 = CountOf(Environments)'
  OBVIOUS
<1>4. Bounded(proc[p].pc, proc[p].active, proc[p].total, d1, e1)
  BY <1>3 DEF Tally
<1>5. Bounded(proc[p].pc, proc[p].active, proc[p].total, d2, e2)
  BY <1>1, <1>2, <1>3, <1>4, BoundsGrow
<1> QED
  <2>1. Tally(p)' = Bounded(proc'[p].pc, proc'[p].active, proc'[p].total,
                            CountOf(Deployments)', CountOf(Environments)')
    BY DEF Tally, Bounded
  <2> QED
    BY <1>3, <1>5, <2>1

\* One goroutine leaves its summary, or was never at one; the others stand still.
LEMMA OthersTallied ==
    ASSUME IInv, Tallies, NEW p \in Procs, Present(Rows) \subseteq Present(Rows)',
           undisturbed' \subseteq undisturbed \cup {p},
           \A q \in Procs : q # p => proc'[q] = proc[q],
           p \in undisturbed' => Tally(p)'
    PROVE  Tallies'
<1>1. ASSUME NEW q \in Procs, q # p, q \in undisturbed'
      PROVE  Tally(q)'
  <2>1. q \in undisturbed /\ proc'[q] = proc[q]
    BY <1>1
  <2> QED
    BY <2>1, TallyKept DEF Tallies
<1> QED
  BY <1>1 DEF Tallies

LEMMA CountTallied ==
    ASSUME IInv, Tallies, NEW p \in Procs, GetSummary(p)
    PROVE  Tallies'
<1>1. UNCHANGED owner /\ Present(Rows)' = Present(Rows)
  BY DEF GetSummary, Count, rowVars, Present
<1>2. undisturbed' \subseteq undisturbed /\ \A q \in Procs : q # p => proc'[q] = proc[q]
  <2>1. ASSUME NEW pc, NEW field \in {"active", "total"}, NEW S, NEW next,
               Count(p, pc, field, S, next)
        PROVE  undisturbed' \subseteq undisturbed /\ \A q \in Procs : q # p => proc'[q] = proc[q]
    BY <2>1 DEF Count, At, IInv, ShapeOK
  <2> QED
    BY <2>1 DEF GetSummary
<1>3. ASSUME p \in undisturbed'
      PROVE  Tally(p)'
  <2>2. PICK d, e, a, b : /\ d = CountOf(Deployments) /\ e = CountOf(Environments)
                          /\ a = CountOf(Deployments \cap active)
                          /\ b = CountOf(Environments \cap active)
    OBVIOUS
  <2>3. d \in Nat /\ e \in Nat /\ a \in Nat /\ b \in Nat /\ a <= d /\ b <= e
    BY <2>2, CountGrows
  <2>1. Bounded(proc[p].pc, proc[p].active, proc[p].total, d, e)
    BY <1>2, <1>3, <2>2 DEF Tallies, Tally
  <2>4. CountOf(Deployments)' = d /\ CountOf(Environments)' = e
    BY <1>1, <2>2 DEF CountOf
  <2>5. proc[p].active \in Nat /\ proc[p].total \in Nat
    BY DEF IInv, ShapeOK
  <2>6. ASSUME NEW pc, NEW S, NEW next, Count(p, pc, "active", S, next)
        PROVE  /\ proc[p].pc = pc /\ proc'[p].pc = next
               /\ proc'[p].active = proc[p].active + CountOf(S)
               /\ proc'[p].total = proc[p].total
    BY <1>3, <2>6 DEF Count, CountOf, IInv, ShapeOK
  <2>7. ASSUME NEW pc, NEW S, NEW next, Count(p, pc, "total", S, next)
        PROVE  /\ proc[p].pc = pc /\ proc'[p].pc = next
               /\ proc'[p].total = proc[p].total + CountOf(S)
               /\ proc'[p].active = proc[p].active
    BY <1>3, <2>7 DEF Count, CountOf, IInv, ShapeOK
  <2>8. Bounded(proc'[p].pc, proc'[p].active, proc'[p].total, d, e)
    <3>1. CASE Count(p, "active deployments", "active", Deployments \cap active,
                     "active environments")
      <4>1. /\ proc[p].pc = "active deployments" /\ proc'[p].pc = "active environments"
            /\ proc'[p].active = proc[p].active + a /\ proc'[p].total = proc[p].total
        BY <2>2, <2>6, <3>1
      <4> QED
        <5>1. Bounded("active deployments", proc[p].active, proc[p].total, d, e)
          BY <2>1, <4>1
        <5>2. Bounded("active environments", proc[p].active + a, proc[p].total, d, e)
          BY <2>3, <2>5, <5>1, BoundedSteps
        <5> QED
          BY <4>1, <5>2
    <3>2. CASE Count(p, "active environments", "active", Environments \cap active,
                     "all deployments")
      <4>1. /\ proc[p].pc = "active environments" /\ proc'[p].pc = "all deployments"
            /\ proc'[p].active = proc[p].active + b /\ proc'[p].total = proc[p].total
        BY <2>2, <2>6, <3>2
      <4> QED
        <5>1. Bounded("active environments", proc[p].active, proc[p].total, d, e)
          BY <2>1, <4>1
        <5>2. Bounded("all deployments", proc[p].active + b, proc[p].total, d, e)
          BY <2>3, <2>5, <5>1, BoundedSteps
        <5> QED
          BY <4>1, <5>2
    <3>3. CASE Count(p, "all deployments", "total", Deployments, "all environments")
      <4>1. /\ proc[p].pc = "all deployments" /\ proc'[p].pc = "all environments"
            /\ proc'[p].total = proc[p].total + d /\ proc'[p].active = proc[p].active
        BY <2>2, <2>7, <3>3
      <4> QED
        <5>1. Bounded("all deployments", proc[p].active, proc[p].total, d, e)
          BY <2>1, <4>1
        <5>2. Bounded("all environments", proc[p].active, proc[p].total + d, d, e)
          BY <2>3, <2>5, <5>1, BoundedSteps
        <5> QED
          BY <4>1, <5>2
    <3>4. CASE Count(p, "all environments", "total", Environments, "report")
      <4>1. /\ proc[p].pc = "all environments" /\ proc'[p].pc = "report"
            /\ proc'[p].total = proc[p].total + e /\ proc'[p].active = proc[p].active
        BY <2>2, <2>7, <3>4
      <4> QED
        <5>1. Bounded("all environments", proc[p].active, proc[p].total, d, e)
          BY <2>1, <4>1
        <5>2. Bounded("report", proc[p].active, proc[p].total + e, d, e)
          BY <2>3, <2>5, <5>1, BoundedSteps
        <5> QED
          BY <4>1, <5>2
    <3> QED
      BY <3>1, <3>2, <3>3, <3>4 DEF GetSummary
  <2> QED
    BY <2>4, <2>8 DEF Tally
<1> QED
  BY <1>1, <1>2, <1>3, OthersTallied

LEMMA TalliesKept ==
    ASSUME IInv, Tallies, [Next]_vars
    PROVE  Tallies'
<1> USE ControlPlaneAssumption
<1>1. CASE UNCHANGED vars
  <2>1. UNCHANGED <<owner, proc, undisturbed>>
    BY <1>1 DEF vars, rowVars
  <2>2. Present(Rows)' = Present(Rows)
    BY <2>1 DEF Present
  <2> QED
    BY <2>1, <2>2, TallyKept DEF Tallies
<1>2. CASE \/ \E a \in Accounts : Callback(a)
           \/ \E i \in Ids : TokenExpires(i) \/ BindIAMRole(i) \/ MakeAdmin(i)
           \/ \E x \in Rows : StatusWrite(x)
  <2>1. UNCHANGED <<owner, proc, undisturbed>>
    BY <1>2 DEF Callback, TokenExpires, BindIAMRole, MakeAdmin, StatusWrite, rowVars
  <2>2. Present(Rows)' = Present(Rows)
    BY <2>1 DEF Present
  <2> QED
    BY <2>1, <2>2, TallyKept DEF Tallies
<1>3. ASSUME NEW p \in Procs, Request(p) \/ Fail(p) \/ Report(p)
      PROVE  Tallies'
  <2>1. UNCHANGED owner /\ undisturbed' \subseteq undisturbed \cup {p}
    BY <1>3 DEF Request, ReadRole, AdminFactoryReset, AdminDeleteUser, HandleSummary, Fail,
                Report, rowVars
  <2>2. Present(Rows)' = Present(Rows)
    BY <2>1 DEF Present
  <2>3. CASE Fail(p) \/ Report(p)
    <3>1. proc'[p].pc = "idle" /\ \A q \in Procs : q # p => proc'[q] = proc[q]
      BY <2>3 DEF Fail, Report, Return, Idle, IInv, ShapeOK
    <3> QED
      BY <2>1, <2>2, <3>1, OthersTallied DEF Tally, Bounded
  <2>4. ASSUME NEW pc, NEW i, Begin(p, pc, i), pc = "active deployments" \/ pc \notin SummarySteps
        PROVE  Tallies'
    <3>1. /\ proc'[p].pc = pc /\ proc'[p].active = 0 /\ proc'[p].total = 0
          /\ \A q \in Procs : q # p => proc'[q] = proc[q]
      BY <2>4 DEF Begin, Idle, IInv, ShapeOK
    <3> QED
      BY <2>1, <2>2, <2>4, <3>1, OthersTallied DEF Tally, Bounded, SummarySteps
  <2> QED
    BY <1>3, <2>3, <2>4 DEF Request, ReadRole, AdminFactoryReset, AdminDeleteUser, HandleSummary,
                            InsertSteps, SummarySteps
<1>4. ASSUME NEW p \in Procs, NEW x \in Rows, Insert(p, x)
      PROVE  Tallies'
  <2>1. /\ undisturbed' = undisturbed /\ proc'[p].pc = "idle"
        /\ \A q \in Procs : q # p => proc'[q] = proc[q]
    BY <1>4 DEF Insert, Return, Idle, IInv, ShapeOK
  <2>2. PICK u : u = proc[p].user
    OBVIOUS
  <2>3. UNCHANGED owner \/ (u \in users /\ owner[x] = "none" /\ owner' = [owner EXCEPT ![x] = u])
    BY <1>4, <2>2 DEF Insert, rowVars
  <2>4. Present(Rows) \subseteq Present(Rows)'
    BY <2>3 DEF Present, IInv, ShapeOK
  <2> QED
    BY <2>1, <2>4, OthersTallied DEF Tally, Bounded
<1>5. ASSUME NEW p \in Procs, \/ ResetDeployments(p) \/ ResetEnvironments(p) \/ ResetUsers(p)
      PROVE  Tallies'
  <2>1. UNCHANGED <<owner, undisturbed>>
    BY <1>5 DEF ResetDeployments, ResetEnvironments, ResetUsers, Doom, rowVars
  <2>2. Present(Rows)' = Present(Rows)
    BY <2>1 DEF Present
  <2>3. ASSUME NEW S, NEW next \in ResetSteps, Doom(p, S, next)
        PROVE  proc'[p].pc \in ResetSteps /\ \A q \in Procs : q # p => proc'[q] = proc[q]
    BY <2>3 DEF Doom, IInv, ShapeOK
  <2>4. /\ proc'[p].pc \in ResetSteps \cup {"idle"}
        /\ \A q \in Procs : q # p => proc'[q] = proc[q]
    <3>1. Return(p) => /\ proc'[p].pc = "idle"
                       /\ \A q \in Procs : q # p => proc'[q] = proc[q]
      BY DEF Return, Idle, IInv, ShapeOK
    <3>2. \/ Return(p)
          \/ \E S : \E next \in ResetSteps : Doom(p, S, next)
      BY <1>5 DEF ResetDeployments, ResetEnvironments, ResetUsers, ResetSteps
    <3> QED
      BY <2>3, <3>1, <3>2
  <2> QED
    BY <2>1, <2>2, <2>4, OthersTallied DEF Tally, Bounded, ResetSteps
<1>6. ASSUME NEW p \in Procs,
             DeleteDeployments(p) \/ DeleteEnvironments(p) \/ DeleteUserRow(p) \/ Commit(p)
      PROVE  Tallies'
  BY <1>6 DEF DeleteDeployments, DeleteEnvironments, DeleteRows, DeleteUserRow, Commit, Tallies
<1> QED
  BY <1>1, <1>2, <1>3, <1>4, <1>5, <1>6, CountTallied DEF Next, Statement

\* Whatever is inserted and changes status between its four queries, a summary that saw
\* no failure and no deletion never reports more active nodes than rows.
THEOREM SummariesAreConsistent == Spec => []SummaryConsistent
<1>1. Init => Tallies
  BY DEF Init, Tallies
<1>2. Tallies => SummaryConsistent
  BY DEF Tallies, Tally, Bounded, SummaryConsistent
<1> QED
  BY <1>1, <1>2, InitHolds, NextKeeps, TalliesKept, PTL DEF Spec

-----------------------------------------------------------------------------
(* The types.                                                              *)

\* At each query, what a summary has counted so far, failed queries included, is bounded
\* by the rows that the tables can hold; whoever is at no summary has counted nothing.
Capped(pc, a, t, d, e) ==
    /\ a <= d + e /\ t <= d + e
    /\ pc \notin SummarySteps \/ pc = "active deployments" => a = 0 /\ t = 0
    /\ pc = "active environments" => a <= d /\ t = 0
    /\ pc = "all deployments" => t = 0
    /\ pc = "all environments" => t <= d

Cap(p) == Capped(proc[p].pc, proc[p].active, proc[p].total,
                 Cardinality(Deployments), Cardinality(Environments))

SetsOK ==
    /\ account \in [Ids -> Accounts \cup {"none"}]
    /\ admins \subseteq users /\ bound \subseteq users
    /\ active \subseteq Rows
    /\ claims \subseteq Ids
    /\ undisturbed \subseteq Procs

TInv == SetsOK /\ \A p \in Procs : Cap(p)

LEMMA TableSizes ==
    /\ Cardinality(Deployments) \in Nat /\ Cardinality(Environments) \in Nat
    /\ Cardinality(Rows) = Cardinality(Deployments) + Cardinality(Environments)
<1>1. IsFiniteSet(Deployments) /\ IsFiniteSet(Environments)
  BY FS_Subset, ControlPlaneAssumption DEF Rows
<1>2. Cardinality(Deployments \cap Environments) = 0
  BY FS_EmptySet, ControlPlaneAssumption
<1>3. /\ Cardinality(Deployments) \in Nat /\ Cardinality(Environments) \in Nat
      /\ Cardinality(Rows) = Cardinality(Deployments) + Cardinality(Environments)
                             - Cardinality(Deployments \cap Environments)
  BY <1>1, FS_Union, FS_CardinalityType DEF Rows
<1> QED
  BY <1>2, <1>3

LEMMA CountIsCapped ==
    ASSUME NEW T \in SUBSET Rows, NEW S \in SUBSET T
    PROVE  CountOf(S) \in Nat /\ CountOf(S) <= Cardinality(T)
<1>1. IsFiniteSet(T) /\ S \cap Present(Rows) \subseteq T
  BY FS_Subset, ControlPlaneAssumption
<1>2. /\ IsFiniteSet(S \cap Present(Rows))
      /\ Cardinality(S \cap Present(Rows)) <= Cardinality(T)
  BY <1>1, FS_Subset
<1> QED
  BY <1>2, FS_CardinalityType DEF CountOf

\* The four queries again, each of which may fail and count nothing.
LEMMA CappedSteps ==
    ASSUME NEW a \in Nat, NEW t \in Nat, NEW d \in Nat, NEW e \in Nat, NEW x \in Nat
    PROVE  /\ Capped("active deployments", a, t, d, e) /\ x <= d
                => Capped("active environments", a + x, t, d, e)
           /\ Capped("active environments", a, t, d, e) /\ x <= e
                => Capped("all deployments", a + x, t, d, e)
           /\ Capped("all deployments", a, t, d, e) /\ x <= d
                => Capped("all environments", a, t + x, d, e)
           /\ Capped("all environments", a, t, d, e) /\ x <= e
                => Capped("report", a, t + x, d, e)
BY DEF Capped, SummarySteps

LEMMA NatSums ==
    ASSUME NEW d \in Nat, NEW e \in Nat
    PROVE  0 <= d + e /\ 0 <= d
OBVIOUS

LEMMA NothingIsCapped ==
    ASSUME NEW pc, NEW d \in Nat, NEW e \in Nat,
           pc \notin SummarySteps \/ pc = "active deployments"
    PROVE  Capped(pc, 0, 0, d, e)
<1>1. 0 <= d + e /\ 0 <= d
  BY NatSums
<1> QED
  BY <1>1, Zenon DEF Capped

\* Whoever is at no summary, before and after a step that leaves the counters, stays capped.
LEMMA UncountedCapped ==
    ASSUME NEW p \in Procs, Cap(p), proc[p].pc \notin SummarySteps,
           proc'[p].active = proc[p].active, proc'[p].total = proc[p].total,
           proc'[p].pc \notin SummarySteps
    PROVE  Cap(p)'
<1>1. proc[p].active = 0 /\ proc[p].total = 0
  BY DEF Cap, Capped
<1> QED
  BY <1>1, NothingIsCapped, TableSizes DEF Cap

\* A goroutine starts a request or returns from one.
LEMMA ClearedCapped ==
    ASSUME NEW p \in Procs, proc'[p].active = 0, proc'[p].total = 0,
           proc'[p].pc \notin SummarySteps \/ proc'[p].pc = "active deployments"
    PROVE  Cap(p)'
BY NothingIsCapped, TableSizes DEF Cap

LEMMA CountCapped ==
    ASSUME IInv, NEW p \in Procs, Cap(p), GetSummary(p)
    PROVE  Cap(p)' /\ \A q \in Procs : q # p => proc'[q] = proc[q]
<1>1. PICK d, e : d = Cardinality(Deployments) /\ e = Cardinality(Environments)
  OBVIOUS
<1>2. d \in Nat /\ e \in Nat
  BY <1>1, TableSizes
<1>3. proc[p].active \in Nat /\ proc[p].total \in Nat
  BY DEF IInv, ShapeOK
<1>4. Capped(proc[p].pc, proc[p].active, proc[p].total, d, e)
  BY <1>1 DEF Cap
<1>5. ASSUME NEW T \in SUBSET Rows, NEW S \in SUBSET T, NEW pc, NEW next,
             Count(p, pc, "active", S, next)
      PROVE  /\ proc[p].pc = pc /\ proc'[p].pc = next /\ proc'[p].total = proc[p].total
             /\ \E x \in Nat : x <= Cardinality(T) /\ proc'[p].active = proc[p].active + x
             /\ \A q \in Procs : q # p => proc'[q] = proc[q]
  <2>1. CountOf(S) \in Nat /\ CountOf(S) <= Cardinality(T) /\ Cardinality(T) \in Nat
    BY CountIsCapped, FS_Subset, FS_CardinalityType, ControlPlaneAssumption
  <2>2. CASE proc' = [proc EXCEPT ![p].pc = next, ![p].active = @ + CountOf(S)]
    BY <1>5, <2>1, <2>2 DEF Count, IInv, ShapeOK
  <2>3. CASE At(p, next)
    <3>1. /\ proc[p].pc = pc /\ proc'[p].pc = next /\ proc'[p].total = proc[p].total
          /\ proc'[p].active = proc[p].active + 0
          /\ \A q \in Procs : q # p => proc'[q] = proc[q]
      BY <1>3, <1>5, <2>3 DEF Count, At, IInv, ShapeOK
    <3> QED
      BY <2>1, <3>1
  <2> QED
    BY <1>5, <2>2, <2>3 DEF Count, CountOf
<1>6. ASSUME NEW T \in SUBSET Rows, NEW S \in SUBSET T, NEW pc, NEW next,
             Count(p, pc, "total", S, next)
      PROVE  /\ proc[p].pc = pc /\ proc'[p].pc = next /\ proc'[p].active = proc[p].active
             /\ \E x \in Nat : x <= Cardinality(T) /\ proc'[p].total = proc[p].total + x
             /\ \A q \in Procs : q # p => proc'[q] = proc[q]
  <2>1. CountOf(S) \in Nat /\ CountOf(S) <= Cardinality(T) /\ Cardinality(T) \in Nat
    BY CountIsCapped, FS_Subset, FS_CardinalityType, ControlPlaneAssumption
  <2>2. CASE proc' = [proc EXCEPT ![p].pc = next, ![p].total = @ + CountOf(S)]
    BY <1>6, <2>1, <2>2 DEF Count, IInv, ShapeOK
  <2>3. CASE At(p, next)
    <3>1. /\ proc[p].pc = pc /\ proc'[p].pc = next /\ proc'[p].active = proc[p].active
          /\ proc'[p].total = proc[p].total + 0
          /\ \A q \in Procs : q # p => proc'[q] = proc[q]
      BY <1>3, <1>6, <2>3 DEF Count, At, IInv, ShapeOK
    <3> QED
      BY <2>1, <3>1
  <2> QED
    BY <1>6, <2>2, <2>3 DEF Count, CountOf
<1>7. Deployments \in SUBSET Rows /\ Environments \in SUBSET Rows
  BY DEF Rows
<1>8. /\ \A q \in Procs : q # p => proc'[q] = proc[q]
      /\ Capped(proc'[p].pc, proc'[p].active, proc'[p].total, d, e)
  <2>1. CASE Count(p, "active deployments", "active", Deployments \cap active,
                   "active environments")
    <3>1. PICK x \in Nat : /\ x <= d /\ proc'[p].active = proc[p].active + x
                          /\ proc[p].pc = "active deployments" /\ proc'[p].pc = "active environments"
                          /\ proc'[p].total = proc[p].total
                          /\ \A q \in Procs : q # p => proc'[q] = proc[q]
      BY <1>1, <1>5, <1>7, <2>1
    <3>2. Capped("active deployments", proc[p].active, proc[p].total, d, e)
      BY <1>4, <3>1
    <3>3. Capped("active environments", proc[p].active + x, proc[p].total, d, e)
      BY <1>2, <1>3, <3>1, <3>2, CappedSteps
    <3> QED
      BY <3>1, <3>3
  <2>2. CASE Count(p, "active environments", "active", Environments \cap active,
                   "all deployments")
    <3>1. PICK x \in Nat : /\ x <= e /\ proc'[p].active = proc[p].active + x
                          /\ proc[p].pc = "active environments" /\ proc'[p].pc = "all deployments"
                          /\ proc'[p].total = proc[p].total
                          /\ \A q \in Procs : q # p => proc'[q] = proc[q]
      BY <1>1, <1>5, <1>7, <2>2
    <3>2. Capped("active environments", proc[p].active, proc[p].total, d, e)
      BY <1>4, <3>1
    <3>3. Capped("all deployments", proc[p].active + x, proc[p].total, d, e)
      BY <1>2, <1>3, <3>1, <3>2, CappedSteps
    <3> QED
      BY <3>1, <3>3
  <2>3. CASE Count(p, "all deployments", "total", Deployments, "all environments")
    <3>1. PICK x \in Nat : /\ x <= d /\ proc'[p].total = proc[p].total + x
                          /\ proc[p].pc = "all deployments" /\ proc'[p].pc = "all environments"
                          /\ proc'[p].active = proc[p].active
                          /\ \A q \in Procs : q # p => proc'[q] = proc[q]
      BY <1>1, <1>6, <1>7, <2>3
    <3>2. Capped("all deployments", proc[p].active, proc[p].total, d, e)
      BY <1>4, <3>1
    <3>3. Capped("all environments", proc[p].active, proc[p].total + x, d, e)
      BY <1>2, <1>3, <3>1, <3>2, CappedSteps
    <3> QED
      BY <3>1, <3>3
  <2>4. CASE Count(p, "all environments", "total", Environments, "report")
    <3>1. PICK x \in Nat : /\ x <= e /\ proc'[p].total = proc[p].total + x
                          /\ proc[p].pc = "all environments" /\ proc'[p].pc = "report"
                          /\ proc'[p].active = proc[p].active
                          /\ \A q \in Procs : q # p => proc'[q] = proc[q]
      BY <1>1, <1>6, <1>7, <2>4
    <3>2. Capped("all environments", proc[p].active, proc[p].total, d, e)
      BY <1>4, <3>1
    <3>3. Capped("report", proc[p].active, proc[p].total + x, d, e)
      BY <1>2, <1>3, <3>1, <3>2, CappedSteps
    <3> QED
      BY <3>1, <3>3
  <2> QED
    BY <2>1, <2>2, <2>3, <2>4 DEF GetSummary
<1> QED
  BY <1>1, <1>8 DEF Cap

\* Every step leaves each goroutine with counters within their bounds.
LEMMA CapsKept ==
    ASSUME IInv, \A p \in Procs : Cap(p), [Next]_vars
    PROVE  \A p \in Procs : Cap(p)'
<1>1. ASSUME NEW q \in Procs, proc'[q] = proc[q]
      PROVE  Cap(q)'
  BY <1>1 DEF Cap
<1>2. ASSUME NEW p \in Procs, Return(p)
      PROVE  Cap(p)' /\ \A q \in Procs : q # p => proc'[q] = proc[q]
  <2>1. /\ proc'[p].active = 0 /\ proc'[p].total = 0 /\ proc'[p].pc = "idle"
        /\ \A q \in Procs : q # p => proc'[q] = proc[q]
    BY <1>2 DEF Return, Idle, IInv, ShapeOK
  <2> QED
    BY <2>1, ClearedCapped DEF SummarySteps
<1>3. ASSUME NEW p \in Procs, NEW pc, NEW i, Begin(p, pc, i),
             pc \notin SummarySteps \/ pc = "active deployments"
      PROVE  Cap(p)' /\ \A q \in Procs : q # p => proc'[q] = proc[q]
  <2>1. /\ proc'[p].active = 0 /\ proc'[p].total = 0 /\ proc'[p].pc = pc
        /\ \A q \in Procs : q # p => proc'[q] = proc[q]
    BY <1>3 DEF Begin, Idle, IInv, ShapeOK
  <2> QED
    BY <1>3, <2>1, ClearedCapped
<1>4. ASSUME NEW p \in Procs, NEW next, proc[p].pc \notin SummarySteps, next \notin SummarySteps,
             At(p, next) \/ \E S : Doom(p, S, next)
      PROVE  Cap(p)' /\ \A q \in Procs : q # p => proc'[q] = proc[q]
  <2>1. /\ proc'[p].active = proc[p].active /\ proc'[p].total = proc[p].total
        /\ proc'[p].pc = next
        /\ \A q \in Procs : q # p => proc'[q] = proc[q]
    BY <1>4 DEF At, Doom, IInv, ShapeOK
  <2> QED
    BY <1>4, <2>1, UncountedCapped
<1>5. CASE UNCHANGED vars
  BY <1>1, <1>5 DEF vars
<1>6. CASE \/ \E a \in Accounts : Callback(a)
           \/ \E i \in Ids : TokenExpires(i) \/ BindIAMRole(i) \/ MakeAdmin(i)
           \/ \E x \in Rows : StatusWrite(x)
  <2>1. UNCHANGED proc
    BY <1>6 DEF Callback, TokenExpires, BindIAMRole, MakeAdmin, StatusWrite
  <2> QED
    BY <1>1, <2>1
<1>7. ASSUME NEW p \in Procs, Request(p) \/ Fail(p) \/ Statement(p)
      PROVE  Cap(p)' /\ \A q \in Procs : q # p => proc'[q] = proc[q]
  <2>1. CASE Request(p)
    <3>1. \E i : \E pc \in InsertSteps \cup {"reset deployments", "delete deployments",
                                            "active deployments"} : Begin(p, pc, i)
      BY <2>1 DEF Request, ReadRole, AdminFactoryReset, AdminDeleteUser, HandleSummary
    <3> QED
      BY <1>3, <3>1 DEF InsertSteps, SummarySteps
  <2>2. CASE \/ Fail(p) \/ Report(p) \/ Commit(p) \/ DeleteUserRow(p)
             \/ \E x \in Rows : Insert(p, x)
    BY <1>2, <2>2 DEF Fail, Report, Commit, DeleteUserRow, Insert
  <2>3. CASE DeleteDeployments(p) \/ DeleteEnvironments(p)
    BY <1>4, <2>3 DEF DeleteDeployments, DeleteEnvironments, DeleteRows, SummarySteps
  <2>4. CASE ResetDeployments(p) \/ ResetEnvironments(p) \/ ResetUsers(p)
    BY <1>2, <1>4, <2>4 DEF ResetDeployments, ResetEnvironments, ResetUsers, SummarySteps
  <2>5. CASE GetSummary(p)
    BY <2>5, CountCapped
  <2> QED
    BY <1>7, <2>1, <2>2, <2>3, <2>4, <2>5 DEF Statement
<1> QED
  BY <1>1, <1>5, <1>6, <1>7 DEF Next

LEMMA SetsKept ==
    ASSUME IInv, SetsOK, [Next]_vars
    PROVE  SetsOK'
<1>1. users \subseteq Ids
  BY DEF IInv, ShapeOK
<1>2. CASE UNCHANGED vars
  BY <1>2 DEF vars, userVars, rowVars, SetsOK
<1>3. ASSUME NEW a \in Accounts, Callback(a)
      PROVE  SetsOK'
  BY <1>1, <1>3 DEF Callback, userVars, rowVars, SetsOK
<1>4. ASSUME NEW i \in Ids, TokenExpires(i) \/ BindIAMRole(i) \/ MakeAdmin(i)
      PROVE  SetsOK'
  BY <1>4 DEF TokenExpires, BindIAMRole, MakeAdmin, Unlocked, userVars, rowVars, SetsOK
<1>5. ASSUME NEW x \in Rows, StatusWrite(x)
      PROVE  SetsOK'
  BY <1>5 DEF StatusWrite, userVars, SetsOK
<1>6. ASSUME NEW p \in Procs, Request(p) \/ Fail(p) \/ Statement(p)
      PROVE  SetsOK'
  <2>1. CASE Request(p) \/ Fail(p) \/ Report(p) \/ GetSummary(p)
    BY <2>1 DEF Request, ReadRole, AdminFactoryReset, AdminDeleteUser, HandleSummary, Fail,
                Report, GetSummary, Count, userVars, rowVars, SetsOK
  <2>2. ASSUME NEW x \in Rows, Insert(p, x)
        PROVE  SetsOK'
    BY <2>2 DEF Insert, userVars, rowVars, SetsOK
  <2>3. CASE \/ DeleteDeployments(p) \/ DeleteEnvironments(p) \/ DeleteUserRow(p) \/ Commit(p)
    <3>1. /\ \/ UNCHANGED userVars \/ \E S : DropUsers(S)
          /\ \/ UNCHANGED rowVars \/ \E S : DropRows(S)
          /\ undisturbed' = {} /\ UNCHANGED claims
      BY <2>3 DEF DeleteDeployments, DeleteEnvironments, DeleteRows, DeleteUserRow, Commit
    <3> QED
      BY <3>1 DEF DropUsers, DropRows, userVars, rowVars, SetsOK
  <2>4. CASE ResetDeployments(p) \/ ResetEnvironments(p) \/ ResetUsers(p)
    BY <2>4 DEF ResetDeployments, ResetEnvironments, ResetUsers, Doom, userVars, rowVars, SetsOK
  <2> QED
    BY <1>6, <2>1, <2>2, <2>3, <2>4 DEF Statement
<1> QED
  BY <1>2, <1>3, <1>4, <1>5, <1>6 DEF Next

\* However requests mix, and whichever queries of a summary fail: bindings and admins are
\* users, tokens name ids that were given, and no summary counts more rows than there
\* are, in total or among the active ones.
THEOREM TypeCorrect == Spec => []TypeOK
<1>1. Init => TInv
  <2> SUFFICES ASSUME Init
               PROVE  TInv
    OBVIOUS
  <2>1. ASSUME NEW p \in Procs
        PROVE  Cap(p)
    <3>1. proc[p].pc = "idle" /\ proc[p].active = 0 /\ proc[p].total = 0
      BY DEF Init, Idle
    <3> QED
      BY <3>1, NothingIsCapped, TableSizes DEF Cap, SummarySteps
  <2>2. SetsOK
    BY DEF Init, SetsOK
  <2> QED
    BY <2>1, <2>2 DEF TInv
<1>2. IInv /\ TInv /\ [Next]_vars => TInv'
  BY CapsKept, SetsKept DEF TInv
<1>3. IInv /\ TInv => TypeOK
  <2> SUFFICES ASSUME IInv, TInv
               PROVE  TypeOK
    OBVIOUS
  <2>1. ASSUME NEW p \in Procs
        PROVE  proc[p].active \in 0 .. Cardinality(Rows) /\ proc[p].total \in 0 .. Cardinality(Rows)
    <3>1. proc[p].active \in Nat /\ proc[p].total \in Nat
      BY DEF IInv, ShapeOK
    <3>2. proc[p].active <= Cardinality(Rows) /\ proc[p].total <= Cardinality(Rows)
      BY TableSizes DEF TInv, Cap, Capped
    <3> QED
      BY <3>1, <3>2, TableSizes
  <2>2. proc \in [Procs -> [pc : Pcs, user : Ids \cup {"none"}, doomed : SUBSET (Rows \cup Ids),
                            active : 0 .. Cardinality(Rows), total : 0 .. Cardinality(Rows)]]
    BY <2>1 DEF IInv, ShapeOK
  <2> QED
    BY <2>2 DEF IInv, ShapeOK, TInv, SetsOK, TypeOK, Pcs
<1> QED
  BY <1>1, <1>2, <1>3, InitHolds, NextKeeps, PTL DEF Spec
=============================================================================
