------------------------------ MODULE StaffProofs ------------------------------
(***************************************************************************)
(* StaffAdmin keeps its types, an administrator remains as long as no      *)
(* unguarded write took one away, an account has a row or a request that   *)
(* will write one, and between requests both systems have the same emails, *)
(* for any number of requests, staff and accounts.                         *)
(*                                                                         *)
(* The second fact needs to know what a guarded transaction knows: as long *)
(* as no other one committed, the administrators of its snapshot are still *)
(* there, so those it leaves over remain after it.                         *)
(***************************************************************************)
EXTENDS StaffAdmin, TLAPS

\* Which handlers reach which steps.
InPlace(j) ==
    /\ job[j].at \in {"read", "count"} =>
         job[j].kind \in {"update", "delete", "toggle", "resend"}
    /\ job[j].at = "email" => job[j].kind \in {"create", "update", "profile"}
    /\ job[j].at = "remote" /\ job[j].kind \in {"update", "profile"} =>
         job[j].seen.uid # Pending
    /\ job[j].at = "commit" => job[j].kind \in {"update", "delete", "toggle"}
    /\ job[j].at = "write" /\ job[j].kind = "resend" => job[j].uid # None
    /\ job[j].at = "revert" => job[j].uid # None

\* The administrators of a snapshot that nothing overtook are still there.
SnapshotHolds(j) ==
    job[j].at = "commit" /\ ~job[j].overtaken /\ ~slipped
    => job[j].admins \subseteq ActiveAdmins

IInv ==
    /\ TypeOK
    /\ AdminRemains
    /\ \A j \in Request : InPlace(j) /\ SnapshotHolds(j)

\* A step that leaves the table alone and starts no transaction keeps the
\* administrators and the snapshots.
LEMMA StillHolds ==
    ASSUME IInv, UNCHANGED <<staff, slipped>>, NEW j \in Request,
           NEW r \in Job, r.at # "commit", job' = [job EXCEPT ![j] = r]
    PROVE  AdminRemains' /\ \A k \in Request : SnapshotHolds(k)'
<1>1. ActiveAdmins' = ActiveAdmins
  BY DEF ActiveAdmins, Administrator
<1>2. AdminRemains'
  BY <1>1 DEF IInv, AdminRemains
<1>3. ASSUME NEW k \in Request PROVE SnapshotHolds(k)'
  <2>1. CASE k = j
    BY <2>1 DEF SnapshotHolds, IInv, TypeOK
  <2>2. CASE k # j
    BY <1>1, <2>2 DEF SnapshotHolds, IInv, TypeOK
  <2> QED BY <2>1, <2>2
<1> QED BY <1>2, <1>3

\* A request at rest is a job.
LEMMA IdleIsJob == Idle \in Job /\ Idle.at = "idle"
BY StaffAssumption DEF Idle, Job, Step, Handler, StaffId, NoChange, Change,
   NoStaffRow, StaffRow, Role, Uid, Pending

\* Ending a request, or moving it to a step that is no transaction.
LEMMA FinishHolds ==
    ASSUME IInv, UNCHANGED <<staff, slipped>>, NEW j \in Request, Finish(j)
    PROVE  /\ job' \in [Request -> Job]
           /\ AdminRemains'
           /\ \A k \in Request : InPlace(k)' /\ SnapshotHolds(k)'
<1>1. job' = [job EXCEPT ![j] = Idle]
  BY DEF Finish
<1>2. AdminRemains' /\ \A k \in Request : SnapshotHolds(k)'
  BY <1>1, IdleIsJob, StillHolds
<1>3. job' \in [Request -> Job]
  BY <1>1, IdleIsJob DEF IInv, TypeOK
<1>4. ASSUME NEW k \in Request PROVE InPlace(k)'
  BY <1>1, IdleIsJob DEF InPlace, IInv, TypeOK
<1> QED BY <1>2, <1>3, <1>4

\* A request moves to another step, and rows and accounts stay.
LEMMA MoveHolds ==
    ASSUME IInv, UNCHANGED <<staff, slipped>>, NEW j \in Request,
           NEW r \in Job, r.at # "commit", job' = [job EXCEPT ![j] = r],
           r.at \in {"read", "count"} =>
             r.kind \in {"update", "delete", "toggle", "resend"},
           r.at = "email" => r.kind \in {"create", "update", "profile"},
           r.at = "remote" /\ r.kind \in {"update", "profile"} => r.seen.uid # Pending,
           r.at = "write" /\ r.kind = "resend" => r.uid # None,
           r.at = "revert" => r.uid # None
    PROVE  /\ job' \in [Request -> Job]
           /\ AdminRemains'
           /\ \A k \in Request : InPlace(k)' /\ SnapshotHolds(k)'
<1>1. AdminRemains' /\ \A k \in Request : SnapshotHolds(k)'
  BY StillHolds
<1>2. job' \in [Request -> Job]
  BY DEF IInv, TypeOK
<1>3. ASSUME NEW k \in Request PROVE InPlace(k)'
  BY DEF InPlace, IInv, TypeOK
<1> QED BY <1>1, <1>2, <1>3

\* The same where only the step changes.
LEMMA GoHolds ==
    ASSUME IInv, UNCHANGED <<staff, slipped>>, NEW j \in Request,
           NEW step \in Step, step # "commit", Go(j, step),
           step \in {"read", "count"} =>
             job[j].kind \in {"update", "delete", "toggle", "resend"},
           step = "email" => job[j].kind \in {"create", "update", "profile"},
           step = "remote" /\ job[j].kind \in {"update", "profile"} =>
             job[j].seen.uid # Pending,
           step = "write" => job[j].kind # "resend",
           step = "revert" => job[j].uid # None
    PROVE  /\ job' \in [Request -> Job]
           /\ AdminRemains'
           /\ \A k \in Request : InPlace(k)' /\ SnapshotHolds(k)'
<1> DEFINE r == [job[j] EXCEPT !.at = step]
<1>1. job[j] \in Job
  BY DEF IInv, TypeOK
<1>2. /\ r \in Job /\ r.at = step /\ r.kind = job[j].kind /\ r.seen = job[j].seen
      /\ r.uid = job[j].uid
  BY <1>1 DEF Job
<1>3. job' = [job EXCEPT ![j] = r]
  BY DEF Go
<1> HIDE DEF r
<1> QED BY <1>2, <1>3, MoveHolds

-----------------------------------------------------------------------------
\* At the start an administrator is active and no request is under way.
LEMMA InitHolds == Init => IInv
<1> SUFFICES ASSUME Init PROVE IInv
  OBVIOUS
<1>1. staff \in [StaffId -> StaffRow]
  <2>1. PICK role \in [1 .. Initial -> InitialRole],
             active \in [1 .. Initial -> BOOLEAN],
             email \in [1 .. Initial -> Email] :
               staff = [s \in StaffId |->
                         IF s <= Initial
                         THEN [state |-> "live", role |-> role[s],
                               active |-> active[s], email |-> email[s], uid |-> s]
                         ELSE NoStaffRow]
    BY DEF Init
  <2>2. NoStaffRow \in StaffRow
    BY DEF NoStaffRow, StaffRow, Role, Pending
  <2>3. ASSUME NEW s \in StaffId, s <= Initial
        PROVE  [state |-> "live", role |-> role[s], active |-> active[s],
                email |-> email[s], uid |-> s] \in StaffRow
    <3>1. s \in 1 .. Initial /\ s \in Uid
      BY <2>3, StaffAssumption DEF StaffId, Uid
    <3>2. role[s] \in Role /\ active[s] \in BOOLEAN /\ email[s] \in Email
      BY <3>1, StaffAssumption
    <3> QED BY <3>1, <3>2 DEF StaffRow
  <2> QED BY <2>1, <2>2, <2>3
<1>2. account \in [Uid -> Email \cup {None}]
  BY StaffAssumption DEF Init, Uid
<1>3. job \in [Request -> Job] /\ \A j \in Request : job[j].at = "idle"
  BY IdleIsJob DEF Init
<1>4. AdminRemains
  BY DEF Init, AdminRemains
<1> QED BY <1>1, <1>2, <1>3, <1>4 DEF IInv, TypeOK, Init, InPlace, SnapshotHolds

\* An authenticated request is accepted.
LEMMA AcceptHolds ==
    ASSUME IInv, NEW j \in Request, NEW kind \in Kind, NEW actor \in StaffId,
           NEW target \in StaffId, NEW want \in Want,
           Accept(j, kind, actor, target, want)
    PROVE  IInv'
<1> DEFINE r == [Idle EXCEPT
                   !.at = IF kind \in {"create", "profile"} THEN "email" ELSE "read",
                   !.kind = kind, !.actor = actor, !.target = target,
                   !.want = IF kind \in {"create", "update", "profile"} THEN want
                            ELSE NoChange,
                   !.seen = IF kind = "profile" THEN staff[actor] ELSE NoStaffRow]
<1>1. staff[actor] \in StaffRow /\ NoStaffRow \in StaffRow
  BY DEF IInv, TypeOK, NoStaffRow, StaffRow, Role, Pending
<1>2. kind \in Handler /\ want \in Change /\ NoChange \in Change
  BY StaffAssumption DEF NoChange, Change
<1>3. /\ r \in Job
      /\ r.at = IF kind \in {"create", "profile"} THEN "email" ELSE "read"
      /\ r.kind = kind
  BY <1>1, <1>2, IdleIsJob DEF Job, Step
<1>4. job' = [job EXCEPT ![j] = r]
  BY DEF Accept
<1>5. UNCHANGED <<staff, account, slipped, broken>> /\ crossed' \subseteq StaffId
  BY DEF Accept, IInv, TypeOK
<1>6. kind \in {"create", "profile"} \/ kind \in {"update", "delete", "toggle", "resend"}
  BY <1>2 DEF Handler
<1> HIDE DEF r
<1>7. /\ job' \in [Request -> Job]
      /\ AdminRemains'
      /\ \A k \in Request : InPlace(k)' /\ SnapshotHolds(k)'
  BY <1>3, <1>4, <1>5, <1>6, MoveHolds
<1> QED BY <1>5, <1>7 DEF IInv, TypeOK

\* It reads the member it is about.
LEMMA ReadTargetHolds ==
    ASSUME IInv, NEW j \in Request, ReadTarget(j)
    PROVE  IInv'
<1> DEFINE row == staff[job[j].target]
           next == IF NeedsGuard(job[j].kind, job[j].want, row)
                   THEN "count" ELSE AfterChecks(job[j].kind)
           r == [job[j] EXCEPT !.seen = row, !.at = next]
<1>1. job[j] \in Job /\ row \in StaffRow
  BY DEF IInv, TypeOK, Job
<1>2. job[j].kind \in {"update", "delete", "toggle", "resend"}
  BY DEF IInv, InPlace, ReadTarget
<1>3. /\ next \in {"count", "email", "remote", "write"}
      /\ next = "write" => job[j].kind = "toggle"
      /\ next = "email" => job[j].kind = "update"
      /\ next = "remote" => job[j].kind \in {"delete", "resend"}
  BY <1>2 DEF AfterChecks
<1> HIDE DEF next
<1>4. r \in Job /\ r.at = next /\ r.kind = job[j].kind
  BY <1>1, <1>3 DEF Job, Step
<1>5. UNCHANGED <<staff, account, slipped, broken, crossed>>
  BY DEF ReadTarget
<1>6. Finish(j) \/ job' = [job EXCEPT ![j] = r]
  BY DEF ReadTarget, next
<1> HIDE DEF r
<1>7. CASE Finish(j)
  BY <1>5, <1>7, FinishHolds DEF IInv, TypeOK
<1>8. CASE job' = [job EXCEPT ![j] = r]
  <2>1. /\ job' \in [Request -> Job]
        /\ AdminRemains'
        /\ \A k \in Request : InPlace(k)' /\ SnapshotHolds(k)'
    BY <1>2, <1>3, <1>4, <1>5, <1>8, MoveHolds
  <2> QED BY <1>5, <2>1 DEF IInv, TypeOK
<1> QED BY <1>6, <1>7, <1>8

\* It checks that another administrator is active.
LEMMA CountOthersHolds ==
    ASSUME IInv, NEW j \in Request, CountOthers(j)
    PROVE  IInv'
<1>1. UNCHANGED <<staff, account, slipped, broken, crossed>>
  BY DEF CountOthers
<1>2. job[j].kind \in {"update", "delete", "toggle", "resend"}
  BY DEF IInv, InPlace, CountOthers
<1>3. /\ AfterChecks(job[j].kind) \in {"email", "remote", "write"}
      /\ AfterChecks(job[j].kind) = "write" => job[j].kind = "toggle"
      /\ AfterChecks(job[j].kind) = "email" => job[j].kind = "update"
      /\ AfterChecks(job[j].kind) = "remote" => job[j].kind \in {"delete", "resend"}
  BY <1>2 DEF AfterChecks
<1>4. Finish(j) \/ Go(j, AfterChecks(job[j].kind))
  BY DEF CountOthers
<1>5. CASE Finish(j)
  BY <1>1, <1>5, FinishHolds DEF IInv, TypeOK
<1>6. CASE Go(j, AfterChecks(job[j].kind))
  <2>1. /\ job' \in [Request -> Job]
        /\ AdminRemains'
        /\ \A k \in Request : InPlace(k)' /\ SnapshotHolds(k)'
    BY <1>1, <1>3, <1>6, GoHolds DEF Step
  <2> QED BY <1>1, <2>1 DEF IInv, TypeOK
<1> QED BY <1>4, <1>5, <1>6


\* It checks that the new email is free.
LEMMA CheckEmailHolds ==
    ASSUME IInv, NEW j \in Request, CheckEmail(j)
    PROVE  IInv'
<1>1. UNCHANGED <<staff, account, slipped, broken, crossed>>
  BY DEF CheckEmail
<1>2. job[j].kind \in {"create", "update", "profile"}
  BY DEF IInv, InPlace, CheckEmail
<1>3. Finish(j) \/ Go(j, "write") \/ (Go(j, "remote") /\ (\/ job[j].kind = "create"
                                                         \/ job[j].seen.uid # Pending))
  BY DEF CheckEmail
<1>4. CASE Finish(j)
  BY <1>1, <1>4, FinishHolds DEF IInv, TypeOK
<1>5. ASSUME NEW step \in {"remote", "write"}, Go(j, step),
             step = "remote" => job[j].kind = "create" \/ job[j].seen.uid # Pending
      PROVE  IInv'
  <2>1. /\ job' \in [Request -> Job]
        /\ AdminRemains'
        /\ \A k \in Request : InPlace(k)' /\ SnapshotHolds(k)'
    BY <1>1, <1>2, <1>5, GoHolds DEF Step
  <2> QED BY <1>1, <2>1 DEF IInv, TypeOK
<1> QED BY <1>3, <1>4, <1>5

\* A remote call that succeeds notes the account it changed.
LEMMA RemoteHolds ==
    ASSUME IInv, UNCHANGED <<staff, slipped, broken, crossed>>, NEW j \in Request,
           NEW u \in Uid, NEW e \in Email \cup {None},
           account' = [account EXCEPT ![u] = e],
           job' = [job EXCEPT ![j].uid = u, ![j].at = "write"]
    PROVE  IInv'
<1> DEFINE r == [job[j] EXCEPT !.uid = u, !.at = "write"]
<1>1. job[j] \in Job /\ u # None
  BY StaffAssumption DEF IInv, TypeOK
<1>2. r \in Job /\ r.at = "write" /\ r.uid = u
  BY <1>1 DEF Job, Step
<1>3. job' = [job EXCEPT ![j] = r]
  OBVIOUS
<1> HIDE DEF r
<1>4. /\ job' \in [Request -> Job]
      /\ AdminRemains'
      /\ \A k \in Request : InPlace(k)' /\ SnapshotHolds(k)'
  BY <1>1, <1>2, <1>3, MoveHolds
<1> QED BY <1>4 DEF IInv, TypeOK

\* A call to the authentication service that fails ends the request.
LEMMA RemoteFails ==
    ASSUME IInv, UNCHANGED <<staff, account, slipped, broken, crossed>>, NEW j \in Request,
           Finish(j)
    PROVE  IInv'
BY FinishHolds DEF IInv, TypeOK

\* The local variables of a request have their types.
LEMMA WantTyped ==
    ASSUME IInv, NEW j \in Request
    PROVE  /\ job[j].want.email \in Email \cup {None}
           /\ job[j].seen.email \in Email \cup {None}
           /\ job[j].seen.uid \in Uid \cup {Pending}
           /\ job[j].uid \in Uid \cup {None}
           /\ job[j].target \in StaffId
<1>1. job[j] \in Job
  BY DEF IInv, TypeOK
<1> QED BY <1>1 DEF Job, Change, StaffRow

\* A call that succeeds touches no row.
LEMMA RemoteStepHolds ==
    ASSUME IInv, NEW j \in Request,
           MoveEmail(j) \/ InviteNew(j) \/ InviteAgain(j)
    PROVE  IInv'
<1>1. CASE MoveEmail(j)
  <2> DEFINE u == job[j].seen.uid
  <2>1. UNCHANGED <<staff, slipped, broken, crossed>>
    BY <1>1 DEF MoveEmail
  <2>2. CASE /\ account[u] # None
             /\ account' = [account EXCEPT ![u] = job[j].want.email]
             /\ job' = [job EXCEPT ![j].uid = u, ![j].at = "write"]
    <3>1. u # Pending
      BY <1>1 DEF IInv, InPlace, MoveEmail
    <3> QED BY <2>1, <2>2, <3>1, WantTyped, RemoteHolds
  <2>3. CASE Finish(j) /\ UNCHANGED account
    BY <2>1, <2>3, RemoteFails
  <2> QED BY <1>1, <2>2, <2>3 DEF MoveEmail
<1>2. ASSUME NEW u \in Uid, NEW e \in Email \cup {None}, Invite(j, u, e),
             UNCHANGED <<staff, slipped, broken, crossed>>
      PROVE  IInv'
  BY <1>2, RemoteHolds DEF Invite
<1>3. CASE InviteNew(j)
  BY <1>2, <1>3, RemoteFails, WantTyped DEF InviteNew
<1>4. CASE InviteAgain(j)
  BY <1>2, <1>4, RemoteFails, WantTyped DEF InviteAgain
<1> QED BY <1>1, <1>3, <1>4

\* The account of the member to delete is deleted.
LEMMA DeleteAccountHolds ==
    ASSUME IInv, NEW j \in Request, DeleteAccount(j)
    PROVE  IInv'
<1>1. UNCHANGED <<staff, slipped, broken, crossed>> /\ Go(j, "write")
  BY DEF DeleteAccount
<1>2. job[j].kind = "delete"
  BY DEF DeleteAccount
<1>3. account' \in [Uid -> Email \cup {None}]
  BY DEF DeleteAccount, IInv, TypeOK
<1>4. /\ job' \in [Request -> Job]
      /\ AdminRemains'
      /\ \A k \in Request : InPlace(k)' /\ SnapshotHolds(k)'
  BY <1>1, <1>2, GoHolds DEF Step
<1> QED BY <1>1, <1>3, <1>4 DEF IInv, TypeOK

-----------------------------------------------------------------------------
\* What a handler writes is a row.
LEMMA WrittenTyped ==
    ASSUME IInv, NEW j \in Request, job[j].at \in {"write", "commit"},
           job[j].kind # "create"
    PROVE  Written(j, staff[job[j].target]) \in StaffRow
<1> DEFINE row == staff[job[j].target]
<1> SUFFICES Written(j, row) \in StaffRow
  OBVIOUS
<1>1. /\ job[j] \in Job /\ row \in StaffRow
      /\ job[j].at # "commit" \/ job[j].kind # "resend"
      /\ job[j].at = "write" /\ job[j].kind = "resend" => job[j].uid # None
  BY WantTyped DEF IInv, TypeOK, InPlace
<1> HIDE DEF row
<1>2. /\ job[j].kind \in Handler /\ job[j].want \in Change
      /\ job[j].seen \in StaffRow /\ job[j].uid \in Uid \cup {None}
  BY <1>1 DEF Job
<1>3. CASE job[j].kind = "update"
  BY <1>1, <1>2, <1>3 DEF Written, Updated, StaffRow, Change
<1>4. CASE job[j].kind = "profile"
  BY <1>1, <1>2, <1>4 DEF Written, EmailAfter, StaffRow, Change
<1>5. CASE job[j].kind = "delete"
  BY <1>1, <1>5 DEF Written, StaffRow
<1>6. CASE job[j].kind = "toggle"
  BY <1>1, <1>2, <1>6 DEF Written, StaffRow
<1>7. CASE job[j].kind = "resend"
  BY <1>1, <1>2, <1>7 DEF Written, StaffRow
<1> QED BY <1>2, <1>3, <1>4, <1>5, <1>6, <1>7 DEF Handler

\* Once the table has changed, the snapshots and the administrators that are
\* left decide the rest.
LEMMA TableHolds ==
    ASSUME IInv, NEW j \in Request, NEW s \in StaffId, NEW row \in StaffRow,
           staff' = [staff EXCEPT ![s] = row], slipped' \in BOOLEAN,
           slipped => slipped', ~slipped' => ActiveAdmins \subseteq ActiveAdmins',
           UNCHANGED <<account, crossed>>, broken' \subseteq Uid, Finish(j)
    PROVE  IInv'
<1>1. job' = [job EXCEPT ![j] = Idle]
  BY DEF Finish
<1>2. TypeOK'
  BY <1>1, IdleIsJob DEF IInv, TypeOK
<1>3. AdminRemains'
  BY DEF IInv, AdminRemains
<1>4. ASSUME NEW k \in Request PROVE InPlace(k)' /\ SnapshotHolds(k)'
  <2>1. CASE k = j
    BY <1>1, <2>1, IdleIsJob DEF InPlace, SnapshotHolds, IInv, TypeOK
  <2>2. CASE k # j
    <3>1. job'[k] = job[k]
      BY <1>1, <2>2 DEF IInv, TypeOK
    <3> QED BY <3>1 DEF InPlace, SnapshotHolds, IInv
  <2> QED BY <2>1, <2>2
<1> QED BY <1>2, <1>3, <1>4 DEF IInv

\* An unguarded write; one that takes an administrator away is marked slipped.
LEMMA WriteRowHolds ==
    ASSUME IInv, NEW j \in Request, WriteRow(j)
    PROVE  IInv'
<1> DEFINE s == job[j].target
           row == Written(j, staff[s])
<1>1. s \in StaffId /\ row \in StaffRow
  BY WantTyped, WrittenTyped DEF WriteRow
<1>2. /\ staff' = [staff EXCEPT ![s] = row]
      /\ slipped' = (slipped \/ (Administrator(staff[s]) /\ ~Administrator(row)))
      /\ broken' = broken \cup ({staff[s].uid} \ {Pending, row.uid})
      /\ Finish(j) /\ UNCHANGED <<account, crossed>>
  BY DEF WriteRow
<1> HIDE DEF row, s
<1>3. slipped' \in BOOLEAN /\ (slipped => slipped')
  BY <1>2 DEF IInv, TypeOK
<1>4. ASSUME ~slipped' PROVE ActiveAdmins \subseteq ActiveAdmins'
  <2>1. Administrator(staff[s]) => Administrator(row)
    BY <1>2, <1>4
  <2>2. \A t \in StaffId : staff'[t] = IF t = s THEN row ELSE staff[t]
    BY <1>1, <1>2 DEF IInv, TypeOK
  <2>3. ASSUME NEW t \in StaffId, Administrator(staff[t])
        PROVE  Administrator(staff'[t])
    BY <2>1, <2>2, <2>3
  <2> QED BY <2>3 DEF ActiveAdmins, Administrator
<1>5. broken' \subseteq Uid
  BY <1>1, <1>2 DEF IInv, TypeOK, StaffRow
<1> QED BY <1>1, <1>2, <1>3, <1>4, <1>5, TableHolds

\* A new row is inserted.
LEMMA InsertRowHolds ==
    ASSUME IInv, NEW j \in Request, NEW s \in StaffId, InsertRow(j, s)
    PROVE  IInv'
<1> DEFINE row == [state |-> "live", active |-> TRUE,
                   role |-> IF job[j].want.role = None THEN "viewer"
                            ELSE job[j].want.role,
                   email |-> job[j].want.email,
                   uid |-> IF job[j].uid = None THEN Pending ELSE job[j].uid]
<1>1. job[j] \in Job
  BY DEF IInv, TypeOK
<1>2. row \in StaffRow
  BY <1>1 DEF Job, Change, StaffRow, Role
<1>3. /\ staff' = [staff EXCEPT ![s] = row]
      /\ Finish(j) /\ UNCHANGED <<account, slipped, broken, crossed>>
  BY DEF InsertRow
<1> HIDE DEF row
<1>4. staff[s].state = "none"
  BY DEF InsertRow, Rows
<1>5. ActiveAdmins \subseteq ActiveAdmins'
  BY <1>3, <1>4 DEF ActiveAdmins, Administrator, IInv, TypeOK
<1> QED BY <1>2, <1>3, <1>5, TableHolds DEF IInv, TypeOK

-----------------------------------------------------------------------------
\* A guarded transaction takes its snapshot.
LEMMA BeginGuardedHolds ==
    ASSUME IInv, NEW j \in Request, BeginGuarded(j)
    PROVE  IInv'
<1> DEFINE r == [job[j] EXCEPT !.at = "commit", !.admins = ActiveAdmins,
                               !.row = staff[job[j].target]]
<1>1. job[j] \in Job /\ staff[job[j].target] \in StaffRow
  BY WantTyped DEF IInv, TypeOK
<1>2. job[j].kind \in {"update", "delete", "toggle"}
  BY DEF BeginGuarded, Guarded, NeedsGuard, Loses
<1>3. ActiveAdmins \in SUBSET StaffId
  BY DEF ActiveAdmins
<1>4. r \in Job /\ r.at = "commit" /\ r.admins = ActiveAdmins /\ r.kind = job[j].kind
  BY <1>1, <1>3 DEF Job, Step
<1>5. job' = [job EXCEPT ![j] = r] /\ UNCHANGED <<staff, account, slipped, broken, crossed>>
  BY DEF BeginGuarded
<1> HIDE DEF r
<1>6. TypeOK' /\ AdminRemains' /\ ActiveAdmins' = ActiveAdmins
  BY <1>4, <1>5 DEF IInv, TypeOK, AdminRemains, ActiveAdmins, Administrator
<1>7. ASSUME NEW k \in Request PROVE InPlace(k)' /\ SnapshotHolds(k)'
  <2>1. CASE k = j
    BY <1>2, <1>4, <1>5, <1>6, <2>1 DEF InPlace, SnapshotHolds, IInv, TypeOK
  <2>2. CASE k # j
    <3>1. job'[k] = job[k]
      BY <1>5, <2>2 DEF IInv, TypeOK
    <3> QED BY <1>5, <1>6, <3>1 DEF InPlace, SnapshotHolds, IInv
  <2> QED BY <2>1, <2>2
<1> QED BY <1>6, <1>7 DEF IInv

\* The administrators its snapshot leaves over are still there, and nothing
\* else is written; the transactions still running are overtaken.
LEMMA CommitGuardedHolds ==
    ASSUME IInv, NEW j \in Request, CommitGuarded(j)
    PROVE  IInv'
<1> DEFINE s == job[j].target
           row == Written(j, staff[s])
<1>1. job[j].at = "commit" /\ job[j].kind # "create"
  BY DEF CommitGuarded, IInv, InPlace
<1>2. s \in StaffId /\ row \in StaffRow
  BY <1>1, WantTyped, WrittenTyped
<1>3. /\ staff' = [staff EXCEPT ![s] = row]
      /\ UNCHANGED <<account, slipped, broken, crossed>>
      /\ job[j].admins \ {s} # {} /\ ~job[j].overtaken
      /\ job' = [k \in Request |->
                   IF k = j THEN Idle
                   ELSE [job[k] EXCEPT !.overtaken = job[k].at = "commit"]]
  BY DEF CommitGuarded, MayCommit
<1> HIDE DEF row, s
<1>4. ASSUME NEW k \in Request
      PROVE  /\ job'[k] \in Job
             /\ job'[k].at = "commit" => job'[k].overtaken
             /\ k # j => /\ job'[k].at = job[k].at /\ job'[k].kind = job[k].kind
                         /\ job'[k].uid = job[k].uid /\ job'[k].seen = job[k].seen
  <2>1. job[k] \in Job
    BY DEF IInv, TypeOK
  <2> QED BY <1>3, <2>1, IdleIsJob DEF Job
<1>5. TypeOK'
  BY <1>2, <1>3, <1>4 DEF IInv, TypeOK
<1>6. AdminRemains'
  <2> SUFFICES ASSUME ~slipped PROVE ActiveAdmins' # {}
    BY <1>3 DEF AdminRemains
  <2>1. job[j].admins \subseteq ActiveAdmins
    BY <1>1, <1>3 DEF IInv, SnapshotHolds
  <2>2. PICK t \in job[j].admins : t # s
    BY <1>3
  <2>3. t \in StaffId /\ Administrator(staff[t])
    BY <2>1, <2>2 DEF ActiveAdmins
  <2>4. staff'[t] = staff[t]
    BY <1>3, <2>2, <2>3 DEF IInv, TypeOK
  <2> QED BY <2>3, <2>4 DEF ActiveAdmins, Administrator
<1>7. ASSUME NEW k \in Request PROVE InPlace(k)' /\ SnapshotHolds(k)'
  <2>1. SnapshotHolds(k)'
    BY <1>4 DEF SnapshotHolds
  <2>2. CASE k = j
    BY <1>3, <2>1, <2>2, IdleIsJob DEF InPlace
  <2>3. CASE k # j
    BY <1>4, <2>1, <2>3 DEF InPlace, IInv
  <2> QED BY <2>2, <2>3
<1> QED BY <1>5, <1>6, <1>7 DEF IInv

\* The accounts a failure leaves half changed are accounts.
LEMMA TouchedTyped ==
    ASSUME IInv, NEW j \in Request
    PROVE  Touched(j) \subseteq Uid
BY WantTyped DEF Touched

\* What is done about a failure changes no row.
LEMMA FailHolds ==
    ASSUME IInv, NEW j \in Request, Fail(j) \/ Finish(j),
           UNCHANGED <<staff, slipped, crossed>>, account' \in [Uid -> Email \cup {None}],
           broken' \subseteq Uid
    PROVE  IInv'
<1>1. CASE Finish(j)
  BY <1>1, FinishHolds DEF IInv, TypeOK
<1>2. CASE Go(j, "revert") /\ job[j].uid # None
  <2>1. /\ job' \in [Request -> Job]
        /\ AdminRemains'
        /\ \A k \in Request : InPlace(k)' /\ SnapshotHolds(k)'
    BY <1>2, GoHolds DEF Step
  <2> QED BY <2>1 DEF IInv, TypeOK
<1> QED BY <1>1, <1>2 DEF Fail

\* A write is refused or lost, a compensation runs, or a request dies.
LEMMA FailureHolds ==
    ASSUME IInv, NEW j \in Request,
           RefuseWrite(j) \/ LoseWrite(j) \/ Compensate(j) \/ Crash(j)
    PROVE  IInv'
<1>1. CASE RefuseWrite(j) \/ LoseWrite(j)
  BY <1>1, FailHolds, TouchedTyped DEF RefuseWrite, LoseWrite, FailWrite, IInv, TypeOK
<1>3. CASE Compensate(j)
  <2>1. account' \in [Uid -> Email \cup {None}]
    BY <1>3, WantTyped DEF Compensate, IInv, TypeOK
  <2>2. broken' \subseteq Uid
    <3>1. job[j].uid \in Uid
      BY <1>3, WantTyped DEF Compensate, IInv, InPlace
    <3> QED BY <1>3, <3>1 DEF Compensate, IInv, TypeOK
  <2> QED BY <1>3, <2>1, <2>2, FailHolds DEF Compensate
<1>4. CASE Crash(j)
  BY <1>4, FailHolds, TouchedTyped, WantTyped DEF Crash, IInv, TypeOK
<1> QED BY <1>1, <1>3, <1>4

-----------------------------------------------------------------------------
\* Every step keeps the invariant.
LEMMA NextHolds == IInv /\ [Next]_vars => IInv'
<1> SUFFICES ASSUME IInv, [Next]_vars PROVE IInv'
  OBVIOUS
<1>1. CASE UNCHANGED vars
  BY <1>1 DEF vars, IInv, TypeOK, AdminRemains, ActiveAdmins, Administrator, InPlace,
     SnapshotHolds
<1>2. ASSUME NEW j \in Request, NEW kind \in Kind, NEW actor \in StaffId,
             NEW target \in StaffId, NEW want \in Want,
             Accept(j, kind, actor, target, want)
      PROVE  IInv'
  BY <1>2, AcceptHolds
<1>3. ASSUME NEW j \in Request, ReadTarget(j) \/ CountOthers(j) \/ CheckEmail(j)
      PROVE  IInv'
  BY <1>3, ReadTargetHolds, CountOthersHolds, CheckEmailHolds
<1>4. ASSUME NEW j \in Request,
             MoveEmail(j) \/ DeleteAccount(j) \/ InviteNew(j) \/ InviteAgain(j)
      PROVE  IInv'
  BY <1>4, RemoteStepHolds, DeleteAccountHolds
<1>5. ASSUME NEW j \in Request, WriteRow(j) \/ BeginGuarded(j) \/ CommitGuarded(j)
      PROVE  IInv'
  BY <1>5, WriteRowHolds, BeginGuardedHolds, CommitGuardedHolds
<1>6. ASSUME NEW j \in Request, NEW s \in StaffId, InsertRow(j, s) PROVE IInv'
  BY <1>6, InsertRowHolds
<1>7. ASSUME NEW j \in Request,
             RefuseWrite(j) \/ LoseWrite(j) \/ Compensate(j) \/ Crash(j)
      PROVE  IInv'
  BY <1>7, FailureHolds
<1> QED BY <1>1, <1>2, <1>3, <1>4, <1>5, <1>6, <1>7 DEF Next

\* The inductive invariant holds in every reachable state.
THEOREM StaffInvariant == Spec => []IInv
BY InitHolds, NextHolds, PTL DEF Spec

\* Rows, accounts and requests keep their shapes, whatever interleaves.
THEOREM StaffTypes == Spec => []TypeOK
<1>1. IInv => TypeOK
  BY DEF IInv
<1> QED BY <1>1, StaffInvariant, PTL

\* Guarded transactions alone never lose the last administrator, for any number
\* of concurrent requests and of staff (#269).
THEOREM GuardKeepsAnAdmin == Spec => []AdminRemains
<1>1. IInv => AdminRemains
  BY DEF IInv
<1> QED BY <1>1, StaffInvariant, PTL
-----------------------------------------------------------------------------
(* Accounts: why each of them has a row, a request or a trace. *)

\* The account u belongs to a row, or was left behind.
Held(u) == (\E s \in StaffId : staff[s].uid = u) \/ u \in broken

\* What a request knows of accounts: it has changed none before its remote call,
\* none at all if it deletes or toggles, and an update has changed the account
\* of the row it read, which is held.
Knows(j) ==
    /\ job[j].at \in {"idle", "read", "count", "email", "remote"} => job[j].uid = None
    /\ job[j].kind \in {"delete", "toggle"} => job[j].uid = None
    /\ job[j].kind \in {"update", "profile"} =>
         job[j].uid \in {None, job[j].seen.uid}
    /\ job[j].seen.uid # Pending => Held(job[j].seen.uid)
    /\ job[j].at = "revert" => Undoes(job[j].kind)
    /\ job[j].at \notin {"idle", "read"} /\ job[j].kind # "create" =>
         staff[job[j].target].state # "none"

\* A row that was never written has no account.
Blank == \A s \in StaffId : staff[s].state = "none" => staff[s].uid = Pending

AInv == NoOrphanAccount /\ Blank /\ \A j \in Request : Knows(j)

\* What is held stays held when no row loses its account silently.
LEMMA HeldStays ==
    ASSUME broken \subseteq broken', NEW u, u # Pending, Held(u),
           \A s \in StaffId : \/ staff'[s].uid = staff[s].uid
                             \/ staff[s].uid \in broken' \cup {Pending}
    PROVE  Held(u)'
BY DEF Held

\* One request moves on.  Accounts keep a row, a request or a trace if the rows
\* keep theirs, a new account is noted by its request, and an account that the
\* request forgets is held or gone.
LEMMA AccountsStay ==
    ASSUME IInv, AInv, NEW j \in Request, broken \subseteq broken',
           \A k \in Request \ {j} :
             /\ job'[k].at = job[k].at /\ job'[k].kind = job[k].kind
             /\ job'[k].uid = job[k].uid /\ job'[k].seen = job[k].seen
             /\ job'[k].target = job[k].target,
           \A s \in StaffId :
             /\ staff'[s].uid = staff[s].uid \/ staff[s].uid \in broken' \cup {Pending}
             /\ staff[s].state # "none" => staff'[s].state # "none"
             /\ staff'[s].state = "none" => staff'[s].uid = Pending,
           \A u \in Uid : account'[u] # None => account[u] # None \/ job'[j].uid = u,
           \A u \in Uid : job[j].uid = u =>
             job'[j].uid = u \/ Held(u)' \/ account'[u] = None,
           Knows(j)'
    PROVE  AInv'
<1>1. Blank'
  BY DEF Blank
<1>2. ASSUME NEW k \in Request \ {j} PROVE Knows(k)'
  <2>1. Knows(k) /\ job[k].target \in StaffId
    BY WantTyped DEF AInv
  <2>2. \A u : Held(u) /\ u # Pending => Held(u)'
    BY HeldStays
  <2>3. job'[k].seen.uid # Pending => Held(job[k].seen.uid)'
    BY <2>1, <2>2 DEF Knows
  <2> QED BY <2>1, <2>3 DEF Knows
<1>3. ASSUME NEW u \in Uid, account'[u] # None
      PROVE  (\E s \in StaffId : staff'[s].uid = u) \/ (\E k \in Request : job'[k].uid = u)
             \/ u \in broken'
  <2>1. u # Pending
    BY DEF Uid, Pending
  <2>2. CASE job'[j].uid = u
    BY <2>2
  <2>3. CASE job'[j].uid # u
    <3>1. account[u] # None
      BY <1>3, <2>3
    <3>2. Held(u) \/ \E k \in Request : job[k].uid = u
      BY <3>1 DEF AInv, NoOrphanAccount, Held
    <3>3. CASE Held(u)
      BY <2>1, <3>3, HeldStays DEF Held
    <3>4. ASSUME NEW k \in Request, job[k].uid = u
          PROVE  Held(u)' \/ \E l \in Request : job'[l].uid = u
      BY <1>3, <2>3, <3>4
    <3> QED BY <3>2, <3>3, <3>4 DEF Held
  <2> QED BY <2>2, <2>3
<1>4. NoOrphanAccount'
  BY <1>3 DEF NoOrphanAccount
<1> QED BY <1>1, <1>2, <1>4 DEF AInv

\* The same while the rows stay.
LEMMA CallsStay ==
    ASSUME IInv, AInv, NEW j \in Request, UNCHANGED staff, broken \subseteq broken',
           NEW r \in Job, job' = [job EXCEPT ![j] = r],
           \A u \in Uid : account'[u] # None => account[u] # None \/ r.uid = u,
           \A u \in Uid : job[j].uid = u =>
             r.uid = u \/ Held(u)' \/ account'[u] = None,
           Knows(j)'
    PROVE  AInv'
<1>1. job'[j] = r /\ \A k \in Request \ {j} : job'[k] = job[k]
  BY DEF IInv, TypeOK
<1>2. \A s \in StaffId : staff[s].state = "none" => staff[s].uid = Pending
  BY DEF AInv, Blank
<1> QED BY <1>1, <1>2, AccountsStay

\* A request at rest knows nothing.
LEMMA IdleKnows ==
    ASSUME NEW j \in Request, job'[j] = Idle
    PROVE  Knows(j)'
BY DEF Knows, Idle, NoStaffRow, Held

\* A request that has changed no account, or whose account is held or gone, ends.
LEMMA EndStays ==
    ASSUME IInv, AInv, NEW j \in Request, UNCHANGED staff, broken \subseteq broken',
           Finish(j),
           \A u \in Uid : account'[u] # None => account[u] # None,
           \A u \in Uid : job[j].uid = u => Held(u)' \/ account'[u] = None
    PROVE  AInv'
<1>1. job' = [job EXCEPT ![j] = Idle] /\ job'[j] = Idle
  BY DEF Finish, IInv, TypeOK
<1> QED BY <1>1, IdleIsJob, IdleKnows, CallsStay

\* A request that goes on to another step without having changed an account.
LEMMA GoStays ==
    ASSUME IInv, AInv, NEW j \in Request, UNCHANGED <<staff, broken>>,
           NEW step \in Step, Go(j, step),
           step # "revert", job[j].at \notin {"idle", "read"}, job[j].uid = None,
           \A u \in Uid : account'[u] # None => account[u] # None
    PROVE  AInv'
<1> DEFINE r == [job[j] EXCEPT !.at = step]
<1>1. job[j] \in Job
  BY DEF IInv, TypeOK
<1>2. /\ r \in Job /\ r.at = step /\ r.kind = job[j].kind /\ r.seen = job[j].seen
      /\ r.uid = None /\ r.target = job[j].target
  BY <1>1 DEF Job
<1>3. job' = [job EXCEPT ![j] = r] /\ job'[j] = r
  BY DEF Go, IInv, TypeOK
<1> HIDE DEF r
<1>4. \A u : Held(u) => Held(u)'
  BY DEF Held
<1>5. Knows(j)'
  BY <1>2, <1>3, <1>4 DEF Knows, AInv
<1>6. \A u \in Uid : job[j].uid # u
  BY StaffAssumption
<1> QED BY <1>2, <1>3, <1>5, <1>6, CallsStay

-----------------------------------------------------------------------------
\* At the start every account belongs to a row.
LEMMA InitAccounts == Init => AInv
<1> SUFFICES ASSUME Init PROVE AInv
  OBVIOUS
<1>1. PICK role \in [1 .. Initial -> InitialRole],
           active \in [1 .. Initial -> BOOLEAN],
           email \in [1 .. Initial -> Email] :
             /\ staff = [s \in StaffId |->
                           IF s <= Initial
                           THEN [state |-> "live", role |-> role[s],
                                 active |-> active[s], email |-> email[s], uid |-> s]
                           ELSE NoStaffRow]
             /\ account = [u \in Uid |-> IF u <= Initial THEN email[u] ELSE None]
  BY DEF Init
<1>2. Blank
  BY <1>1 DEF Blank, NoStaffRow
<1>3. ASSUME NEW u \in Uid, account[u] # None PROVE \E s \in StaffId : staff[s].uid = u
  <2>1. u <= Initial /\ u \in StaffId
    BY <1>1, <1>3, StaffAssumption DEF Uid, StaffId
  <2>2. staff[u].uid = u
    BY <1>1, <2>1
  <2> QED BY <2>1, <2>2
<1>4. NoOrphanAccount
  BY <1>3 DEF NoOrphanAccount
<1>5. \A j \in Request : Knows(j)
  BY DEF Init, Knows, Idle, NoStaffRow
<1> QED BY <1>2, <1>4, <1>5 DEF AInv

\* The profile of the actor is read with the token; nothing else is known yet.
LEMMA AcceptAccounts ==
    ASSUME IInv, AInv, NEW j \in Request, NEW kind \in Kind, NEW actor \in StaffId,
           NEW target \in StaffId, NEW want \in Want,
           Accept(j, kind, actor, target, want)
    PROVE  AInv'
<1> DEFINE r == [Idle EXCEPT
                   !.at = IF kind \in {"create", "profile"} THEN "email" ELSE "read",
                   !.kind = kind, !.actor = actor, !.target = target,
                   !.want = IF kind \in {"create", "update", "profile"} THEN want
                            ELSE NoChange,
                   !.seen = IF kind = "profile" THEN staff[actor] ELSE NoStaffRow]
<1>1. staff[actor] \in StaffRow /\ NoStaffRow \in StaffRow
  BY DEF IInv, TypeOK, NoStaffRow, StaffRow, Role, Pending
<1>2. kind \in Handler /\ want \in Change /\ NoChange \in Change
  BY StaffAssumption DEF NoChange, Change
<1>3. /\ r \in Job
      /\ r.at = IF kind \in {"create", "profile"} THEN "email" ELSE "read"
      /\ r.kind = kind /\ r.target = target /\ r.uid = None
      /\ r.seen = IF kind = "profile" THEN staff[actor] ELSE NoStaffRow
  BY <1>1, <1>2, IdleIsJob DEF Job, Step, Idle
<1>4. /\ job' = [job EXCEPT ![j] = r]
      /\ UNCHANGED <<staff, account, slipped, broken>>
      /\ job[j].uid = None /\ staff[actor].uid # Pending
      /\ kind = "profile" => target = actor
  BY DEF Accept, Idle
<1> HIDE DEF r
<1>5. job'[j] = r
  BY <1>4 DEF IInv, TypeOK
<1>6. \E s \in StaffId : staff[s].uid = staff[actor].uid
  OBVIOUS
<1>7. staff[actor].state # "none"
  BY <1>4 DEF AInv, Blank
<1>8. Knows(j)'
  BY <1>3, <1>4, <1>5, <1>6, <1>7 DEF Knows, NoStaffRow, Held
<1>9. \A u \in Uid : job[j].uid # u
  BY <1>4, StaffAssumption
<1> QED BY <1>3, <1>4, <1>8, <1>9, CallsStay

\* The checks read a row and change no account.
LEMMA CheckAccounts ==
    ASSUME IInv, AInv, NEW j \in Request,
           ReadTarget(j) \/ CountOthers(j) \/ CheckEmail(j)
    PROVE  AInv'
<1>1. /\ UNCHANGED <<staff, account, slipped, broken, crossed>>
      /\ job[j].at \in {"read", "count", "email"}
  BY DEF ReadTarget, CountOthers, CheckEmail
<1>2. job[j].uid = None /\ \A u \in Uid : job[j].uid # u
  BY <1>1, StaffAssumption DEF AInv, Knows
<1>3. CASE Finish(j)
  BY <1>1, <1>2, <1>3, EndStays
<1>4. CASE ReadTarget(j) /\ ~Finish(j)
  <2> DEFINE row == staff[job[j].target]
             next == IF NeedsGuard(job[j].kind, job[j].want, row)
                     THEN "count" ELSE AfterChecks(job[j].kind)
             r == [job[j] EXCEPT !.seen = row, !.at = next]
  <2>1. job[j] \in Job /\ row \in StaffRow /\ job[j].target \in StaffId
    BY WantTyped DEF IInv, TypeOK
  <2>2. job[j].kind \in {"update", "delete", "toggle", "resend"}
    BY <1>4 DEF IInv, InPlace, ReadTarget
  <2>3. next \in {"count", "email", "remote", "write"}
    BY <2>2 DEF AfterChecks
  <2>4. row.state = "live" /\ job' = [job EXCEPT ![j] = r]
    BY <1>4 DEF ReadTarget
  <2> HIDE DEF next
  <2>5. /\ r \in Job /\ r.at = next /\ r.kind = job[j].kind /\ r.uid = None
        /\ r.seen = row /\ r.target = job[j].target
    BY <1>2, <2>1, <2>3 DEF Job, Step
  <2> HIDE DEF r
  <2>6. job'[j] = r
    BY <2>4 DEF IInv, TypeOK
  <2>7. \E s \in StaffId : staff[s].uid = row.uid
    BY <2>1
  <2>8. Knows(j)'
    BY <1>1, <2>3, <2>4, <2>5, <2>6, <2>7 DEF Knows, Held
  <2> QED BY <1>1, <1>2, <2>4, <2>5, <2>8, CallsStay
<1>5. CASE CountOthers(j) /\ ~Finish(j)
  <2>1. Go(j, AfterChecks(job[j].kind)) /\ job[j].at = "count"
    BY <1>5 DEF CountOthers
  <2>2. AfterChecks(job[j].kind) \in {"email", "remote", "write"}
    BY <2>1 DEF AfterChecks, IInv, InPlace
  <2> QED BY <1>1, <1>2, <2>1, <2>2, GoStays DEF Step
<1>6. CASE CheckEmail(j) /\ ~Finish(j)
  <2>1. job[j].at = "email" /\ (Go(j, "remote") \/ Go(j, "write"))
    BY <1>6 DEF CheckEmail
  <2> QED BY <1>1, <1>2, <2>1, GoStays DEF Step
<1> QED BY <1>3, <1>4, <1>5, <1>6

\* An update or a profile moves the email of the account of the row it read, and
\* an invitation creates one: the request notes it.
LEMMA RemoteAccounts ==
    ASSUME IInv, AInv, NEW j \in Request,
           MoveEmail(j) \/ InviteNew(j) \/ InviteAgain(j)
    PROVE  AInv'
<1>1. UNCHANGED <<staff, slipped, broken, crossed>> /\ job[j].at = "remote"
  BY DEF MoveEmail, InviteNew, InviteAgain
<1>2. job[j].uid = None /\ \A u \in Uid : job[j].uid # u
  BY <1>1, StaffAssumption DEF AInv, Knows
<1>3. CASE Finish(j) /\ UNCHANGED account
  BY <1>1, <1>2, <1>3, EndStays
<1>4. ASSUME NEW u \in Uid, NEW e,
             account' = [account EXCEPT ![u] = e],
             job' = [job EXCEPT ![j].uid = u, ![j].at = "write"],
             job[j].kind \in {"update", "profile"} => u = job[j].seen.uid,
             job[j].kind \in {"create", "update", "profile", "resend"}
      PROVE  AInv'
  <2> DEFINE r == [job[j] EXCEPT !.uid = u, !.at = "write"]
  <2>1. job[j] \in Job
    BY DEF IInv, TypeOK
  <2>2. /\ r \in Job /\ r.at = "write" /\ r.uid = u /\ r.kind = job[j].kind
        /\ r.seen = job[j].seen /\ r.target = job[j].target
    BY <2>1 DEF Job, Step
  <2>3. job' = [job EXCEPT ![j] = r] /\ job'[j] = r
    BY <1>4 DEF IInv, TypeOK
  <2> HIDE DEF r
  <2>4. \A v : Held(v) => Held(v)'
    BY <1>1 DEF Held
  <2>5. Knows(j)'
    BY <1>1, <1>4, <2>2, <2>3, <2>4 DEF Knows, AInv
  <2>6. \A v \in Uid : account'[v] # None => account[v] # None \/ r.uid = v
    BY <1>4, <2>2 DEF IInv, TypeOK
  <2> QED BY <1>1, <1>2, <2>2, <2>3, <2>5, <2>6, CallsStay
<1>5. CASE MoveEmail(j) /\ ~(Finish(j) /\ UNCHANGED account)
  <2>1. /\ job[j].seen.uid \in Uid /\ job[j].kind \in {"update", "profile"}
        /\ account' = [account EXCEPT ![job[j].seen.uid] = job[j].want.email]
        /\ job' = [job EXCEPT ![j].uid = job[j].seen.uid, ![j].at = "write"]
    BY <1>5, WantTyped DEF MoveEmail, IInv, InPlace
  <2> QED BY <1>4, <2>1
<1>6. CASE InviteNew(j) /\ ~(Finish(j) /\ UNCHANGED account)
  BY <1>4, <1>6 DEF InviteNew, Invite
<1>7. CASE InviteAgain(j) /\ ~(Finish(j) /\ UNCHANGED account)
  BY <1>4, <1>7 DEF InviteAgain, Invite
<1> QED BY <1>3, <1>5, <1>6, <1>7 DEF MoveEmail, InviteNew, InviteAgain

\* A deleted account needs no row.
LEMMA DeleteAccounts ==
    ASSUME IInv, AInv, NEW j \in Request, DeleteAccount(j)
    PROVE  AInv'
<1>1. /\ UNCHANGED <<staff, broken>> /\ Go(j, "write")
      /\ job[j].at = "remote"
  BY DEF DeleteAccount
<1>2. job[j].uid = None
  BY <1>1 DEF AInv, Knows
<1>3. \A u \in Uid : account'[u] # None => account[u] # None
  BY DEF DeleteAccount, IInv, TypeOK
<1> QED BY <1>1, <1>2, <1>3, GoStays DEF Step

\* Of the writes only that of an invitation changes the account of a row, and what
\* it replaces is noted as left behind; no write makes a row blank again.
LEMMA WrittenAccount ==
    ASSUME IInv, AInv, NEW j \in Request, job[j].at \in {"write", "commit"},
           job[j].kind # "create", staff[job[j].target].state # "none"
    PROVE  LET row == Written(j, staff[job[j].target])
           IN  /\ row.uid = IF job[j].kind = "resend" THEN job[j].uid
                            ELSE staff[job[j].target].uid
               /\ row.state # "none"
<1> DEFINE row == staff[job[j].target]
<1>1. job[j].kind \in Handler /\ row \in StaffRow
  BY WantTyped DEF IInv, TypeOK, Job
<1> HIDE DEF row
<1>2. /\ Written(j, row).uid = IF job[j].kind = "resend" THEN job[j].uid ELSE row.uid
      /\ Written(j, row).state \in {row.state, "deleted"}
  <2>1. CASE job[j].kind = "update"
    BY <1>1, <2>1 DEF Written, Updated, StaffRow
  <2>2. CASE job[j].kind = "profile"
    BY <1>1, <2>2 DEF Written, StaffRow
  <2>3. CASE job[j].kind = "delete"
    BY <1>1, <2>3 DEF Written, StaffRow
  <2>4. CASE job[j].kind = "toggle"
    BY <1>1, <2>4 DEF Written, StaffRow
  <2>5. CASE job[j].kind = "resend"
    BY <1>1, <2>5 DEF Written, StaffRow
  <2> QED BY <1>1, <2>1, <2>2, <2>3, <2>4, <2>5 DEF Handler
<1> QED BY <1>2 DEF row

\* A request whose target's row is written ends; its account is on the row.
LEMMA WriteAccounts ==
    ASSUME IInv, AInv, NEW j \in Request, WriteRow(j)
    PROVE  AInv'
<1> DEFINE s == job[j].target
           row == Written(j, staff[s])
<1>1. /\ job[j].at = "write" /\ job[j].kind # "create"
      /\ staff' = [staff EXCEPT ![s] = row]
      /\ broken' = broken \cup ({staff[s].uid} \ {Pending, row.uid})
      /\ Finish(j) /\ UNCHANGED <<account, crossed>>
  BY DEF WriteRow
<1>2. s \in StaffId /\ staff[s].state # "none"
  BY <1>1, WantTyped DEF AInv, Knows
<1>3. /\ row.uid = IF job[j].kind = "resend" THEN job[j].uid ELSE staff[s].uid
      /\ row.state # "none"
  BY <1>1, <1>2, WrittenAccount
<1> HIDE DEF row
<1>4. /\ job'[j] = Idle /\ \A k \in Request \ {j} : job'[k] = job[k]
      /\ staff'[s] = row /\ \A t \in StaffId \ {s} : staff'[t] = staff[t]
  BY <1>1, <1>2 DEF Finish, IInv, TypeOK
<1>5. ASSUME NEW t \in StaffId
      PROVE  /\ staff'[t].uid = staff[t].uid \/ staff[t].uid \in broken' \cup {Pending}
             /\ staff[t].state # "none" => staff'[t].state # "none"
             /\ staff'[t].state = "none" => staff'[t].uid = Pending
  <2>1. CASE t = s
    BY <1>1, <1>3, <1>4, <2>1
  <2>2. CASE t # s
    BY <1>4, <2>2 DEF AInv, Blank
  <2> QED BY <2>1, <2>2
<1>6. ASSUME NEW u \in Uid, job[j].uid = u PROVE Held(u)'
  <2>0. u # None /\ u # Pending
    BY StaffAssumption DEF Uid, Pending
  <2>1. CASE job[j].kind = "resend"
    BY <1>2, <1>3, <1>4, <1>6, <2>1 DEF Held
  <2>2. CASE job[j].kind # "resend"
    <3>1. job[j].kind \in {"update", "profile"} /\ job[j].seen.uid = u
      <4>1. job[j].kind \in Handler
        BY DEF IInv, TypeOK, Job
      <4> QED BY <1>1, <1>6, <2>0, <2>2, <4>1 DEF Handler, AInv, Knows
    <3>2. Held(u)
      BY <2>0, <3>1 DEF AInv, Knows
    <3> QED BY <1>1, <1>5, <2>0, <3>2, HeldStays
  <2> QED BY <2>1, <2>2
<1>7. Knows(j)'
  BY <1>4, IdleKnows
<1> QED BY <1>1, <1>4, <1>5, <1>6, <1>7, AccountsStay

\* A new row carries the account of its invitation; it takes a blank row.
LEMMA InsertAccounts ==
    ASSUME IInv, AInv, NEW j \in Request, NEW s \in StaffId, InsertRow(j, s)
    PROVE  AInv'
<1> DEFINE row == [state |-> "live", active |-> TRUE,
                   role |-> IF job[j].want.role = None THEN "viewer"
                            ELSE job[j].want.role,
                   email |-> job[j].want.email,
                   uid |-> IF job[j].uid = None THEN Pending ELSE job[j].uid]
<1>1. /\ staff' = [staff EXCEPT ![s] = row]
      /\ Finish(j) /\ UNCHANGED <<account, slipped, broken, crossed>>
  BY DEF InsertRow
<1>2. staff[s].uid = Pending
  BY DEF InsertRow, Rows, AInv, Blank
<1>3. row.state = "live" /\ row.uid = IF job[j].uid = None THEN Pending ELSE job[j].uid
  OBVIOUS
<1> HIDE DEF row
<1>4. /\ job'[j] = Idle /\ \A k \in Request \ {j} : job'[k] = job[k]
      /\ staff'[s] = row /\ \A t \in StaffId \ {s} : staff'[t] = staff[t]
  BY <1>1 DEF Finish, IInv, TypeOK
<1>5. ASSUME NEW t \in StaffId
      PROVE  /\ staff'[t].uid = staff[t].uid \/ staff[t].uid \in broken' \cup {Pending}
             /\ staff[t].state # "none" => staff'[t].state # "none"
             /\ staff'[t].state = "none" => staff'[t].uid = Pending
  <2>1. CASE t = s
    BY <1>2, <1>3, <1>4, <2>1
  <2>2. CASE t # s
    BY <1>4, <2>2 DEF AInv, Blank
  <2> QED BY <2>1, <2>2
<1>6. ASSUME NEW u \in Uid, job[j].uid = u PROVE Held(u)'
  BY <1>3, <1>4, <1>6, StaffAssumption DEF Held
<1>7. Knows(j)'
  BY <1>4, IdleKnows
<1> QED BY <1>1, <1>4, <1>5, <1>6, <1>7, AccountsStay

\* A transaction begins; its request keeps what it knows.
LEMMA BeginAccounts ==
    ASSUME IInv, AInv, NEW j \in Request, BeginGuarded(j)
    PROVE  AInv'
<1> DEFINE r == [job[j] EXCEPT !.at = "commit", !.admins = ActiveAdmins,
                               !.row = staff[job[j].target]]
<1>1. job[j] \in Job /\ staff[job[j].target] \in StaffRow
  BY WantTyped DEF IInv, TypeOK
<1>2. ActiveAdmins \in SUBSET StaffId
  BY DEF ActiveAdmins
<1>3. /\ r \in Job /\ r.at = "commit" /\ r.kind = job[j].kind /\ r.uid = job[j].uid
      /\ r.seen = job[j].seen /\ r.target = job[j].target
  BY <1>1, <1>2 DEF Job, Step
<1>4. /\ job' = [job EXCEPT ![j] = r] /\ job[j].at = "write"
      /\ UNCHANGED <<staff, account, slipped, broken, crossed>>
  BY DEF BeginGuarded
<1> HIDE DEF r
<1>5. job'[j] = r
  BY <1>4 DEF IInv, TypeOK
<1>6. \A u : Held(u) => Held(u)'
  BY <1>4 DEF Held
<1>7. Knows(j)'
  BY <1>3, <1>4, <1>5, <1>6 DEF Knows, AInv
<1> QED BY <1>3, <1>4, <1>7, CallsStay

\* A transaction changes no account of a row, and the one its request moved
\* is held.
LEMMA CommitAccounts ==
    ASSUME IInv, AInv, NEW j \in Request, CommitGuarded(j)
    PROVE  AInv'
<1> DEFINE s == job[j].target
           row == Written(j, staff[s])
<1>1. /\ job[j].at = "commit" /\ job[j].kind \in {"update", "delete", "toggle"}
      /\ staff' = [staff EXCEPT ![s] = row]
      /\ UNCHANGED <<account, slipped, broken, crossed>>
      /\ job' = [k \in Request |->
                   IF k = j THEN Idle
                   ELSE [job[k] EXCEPT !.overtaken = job[k].at = "commit"]]
  BY DEF CommitGuarded, IInv, InPlace
<1>2. s \in StaffId /\ staff[s].state # "none"
  BY <1>1, WantTyped DEF AInv, Knows
<1>3. row.uid = staff[s].uid /\ row.state # "none"
  BY <1>1, <1>2, WrittenAccount
<1> HIDE DEF row
<1>4. staff'[s] = row /\ \A t \in StaffId \ {s} : staff'[t] = staff[t]
  BY <1>1, <1>2 DEF IInv, TypeOK
<1>5. ASSUME NEW k \in Request \ {j}
      PROVE  /\ job'[k].at = job[k].at /\ job'[k].kind = job[k].kind
             /\ job'[k].uid = job[k].uid /\ job'[k].seen = job[k].seen
             /\ job'[k].target = job[k].target
  <2>1. job[k] \in Job
    BY DEF IInv, TypeOK
  <2> QED BY <1>1, <2>1 DEF Job
<1>6. ASSUME NEW t \in StaffId
      PROVE  /\ staff'[t].uid = staff[t].uid
             /\ staff[t].state # "none" => staff'[t].state # "none"
             /\ staff'[t].state = "none" => staff'[t].uid = Pending
  <2>1. CASE t = s
    BY <1>3, <1>4, <2>1
  <2>2. CASE t # s
    BY <1>4, <2>2 DEF AInv, Blank
  <2> QED BY <2>1, <2>2
<1>7. ASSUME NEW u \in Uid, job[j].uid = u PROVE Held(u)'
  <2>1. u # None /\ u # Pending
    BY StaffAssumption DEF Uid, Pending
  <2>2. job[j].seen.uid = u /\ Held(u)
    BY <1>1, <1>7, <2>1 DEF AInv, Knows
  <2> QED BY <1>1, <1>6, <2>1, <2>2, HeldStays
<1>8. job'[j] = Idle
  BY <1>1
<1>9. Knows(j)'
  BY <1>8, IdleKnows
<1> QED BY <1>1, <1>5, <1>6, <1>7, <1>9, AccountsStay

\* What becomes of the account of a request that ends without its write: it is
\* held by the row it belongs to, or the request goes on to undo the call.
LEMMA MovedIsHeld ==
    ASSUME IInv, AInv, NEW j \in Request, NEW u \in Uid, job[j].uid = u,
           job[j].kind \in {"update", "profile"}
    PROVE  Held(u)
<1>1. u # None /\ u # Pending
  BY StaffAssumption DEF Uid, Pending
<1> QED BY <1>1 DEF AInv, Knows

LEMMA FailAccounts ==
    ASSUME IInv, AInv, NEW j \in Request, Fail(j), UNCHANGED <<staff, account>>,
           job[j].at \in {"write", "commit"}, broken \subseteq broken',
           ~Undoes(job[j].kind) => \A u \in Uid : job[j].uid = u => u \in broken'
    PROVE  AInv'
<1>1. CASE ~(Undoes(job[j].kind) /\ job[j].uid # None)
  <2>1. Finish(j)
    BY <1>1 DEF Fail
  <2>2. \A u \in Uid : job[j].uid = u => Held(u)'
    BY <1>1, StaffAssumption DEF Held
  <2> QED BY <2>1, <2>2, EndStays
<1>2. CASE Go(j, "revert") /\ Undoes(job[j].kind)
  <2> DEFINE r == [job[j] EXCEPT !.at = "revert"]
  <2>1. job[j] \in Job
    BY DEF IInv, TypeOK
  <2>2. /\ r \in Job /\ r.at = "revert" /\ r.kind = job[j].kind /\ r.seen = job[j].seen
        /\ r.uid = job[j].uid /\ r.target = job[j].target
    BY <2>1 DEF Job, Step
  <2>3. job' = [job EXCEPT ![j] = r] /\ job'[j] = r
    BY <1>2 DEF Go, IInv, TypeOK
  <2> HIDE DEF r
  <2>4. \A u : Held(u) => Held(u)'
    BY DEF Held
  <2>5. Knows(j)'
    BY <1>2, <2>2, <2>3, <2>4 DEF Knows, AInv
  <2> QED BY <2>2, <2>3, <2>5, CallsStay
<1> QED BY <1>1, <1>2 DEF Fail

\* A write is refused or lost, a compensation runs, or a request dies.
LEMMA FailureAccounts ==
    ASSUME IInv, AInv, NEW j \in Request,
           RefuseWrite(j) \/ LoseWrite(j) \/ Compensate(j) \/ Crash(j)
    PROVE  AInv'
<1>0. \A u \in Uid : u # None
  BY StaffAssumption
<1>1. CASE RefuseWrite(j) \/ LoseWrite(j)
  <2>1. /\ Fail(j) /\ UNCHANGED <<staff, account, slipped>>
        /\ job[j].at \in {"write", "commit"} /\ broken \subseteq broken'
    BY <1>1 DEF RefuseWrite, Refused, LoseWrite, FailWrite
  <2>2. ASSUME NEW u \in Uid, job[j].uid = u, ~Undoes(job[j].kind)
        PROVE  u \in broken'
    BY <1>0, <1>1, <2>2 DEF RefuseWrite, LoseWrite, FailWrite, Touched
  <2> QED BY <2>1, <2>2, FailAccounts
<1>3. CASE Compensate(j)
  <2>1. /\ Finish(j) /\ UNCHANGED <<staff, slipped>> /\ broken \subseteq broken'
        /\ job[j].at = "revert" /\ job[j].uid \in Uid /\ Undoes(job[j].kind)
    BY <1>3, WantTyped DEF Compensate, IInv, InPlace, AInv, Knows
  <2>2. \A v \in Uid : account'[v] # None => account[v] # None
    BY <1>3, <2>1 DEF Compensate, IInv, TypeOK
  <2>3. ASSUME NEW u \in Uid, job[j].uid = u PROVE Held(u)' \/ account'[u] = None
    <3>1. CASE job[j].kind = "create"
      BY <1>3, <2>1, <2>3, <3>1 DEF Compensate, IInv, TypeOK, Held
    <3>2. CASE job[j].kind # "create"
      <4>1. Held(u)
        BY <2>1, <2>3, <3>2, MovedIsHeld DEF Undoes
      <4> QED BY <2>1, <4>1 DEF Held
    <3> QED BY <3>1, <3>2
  <2> QED BY <2>1, <2>2, <2>3, EndStays
<1>4. CASE Crash(j)
  <2>1. Finish(j) /\ UNCHANGED <<staff, account>> /\ broken \subseteq broken'
    BY <1>4 DEF Crash
  <2>2. \A u \in Uid : job[j].uid = u => Held(u)'
    BY <1>0, <1>4 DEF Crash, Touched, Held
  <2> QED BY <2>1, <2>2, EndStays
<1> QED BY <1>1, <1>3, <1>4

\* Every step keeps an account a row, a request or a trace.
LEMMA NextAccounts == IInv /\ AInv /\ [Next]_vars => AInv'
<1> SUFFICES ASSUME IInv, AInv, [Next]_vars PROVE AInv'
  OBVIOUS
<1>1. CASE UNCHANGED vars
  BY <1>1 DEF vars, AInv, NoOrphanAccount, Blank, Knows, Held
<1>2. ASSUME NEW j \in Request, NEW kind \in Kind, NEW actor \in StaffId,
             NEW target \in StaffId, NEW want \in Want,
             Accept(j, kind, actor, target, want)
      PROVE  AInv'
  BY <1>2, AcceptAccounts
<1>3. ASSUME NEW j \in Request, ReadTarget(j) \/ CountOthers(j) \/ CheckEmail(j)
      PROVE  AInv'
  BY <1>3, CheckAccounts
<1>4. ASSUME NEW j \in Request,
             MoveEmail(j) \/ DeleteAccount(j) \/ InviteNew(j) \/ InviteAgain(j)
      PROVE  AInv'
  BY <1>4, RemoteAccounts, DeleteAccounts
<1>5. ASSUME NEW j \in Request, WriteRow(j) \/ BeginGuarded(j) \/ CommitGuarded(j)
      PROVE  AInv'
  BY <1>5, WriteAccounts, BeginAccounts, CommitAccounts
<1>6. ASSUME NEW j \in Request, NEW s \in StaffId, InsertRow(j, s) PROVE AInv'
  BY <1>6, InsertAccounts
<1>7. ASSUME NEW j \in Request,
             RefuseWrite(j) \/ LoseWrite(j) \/ Compensate(j) \/ Crash(j)
      PROVE  AInv'
  BY <1>7, FailureAccounts
<1> QED BY <1>1, <1>2, <1>3, <1>4, <1>5, <1>6, <1>7 DEF Next

\* An account of the authentication service belongs to a row or to a request that
\* still has to write it, except where a compensation failed, a request died or an
\* overlapping invitation replaced it, for any number of requests, staff and
\* accounts (#173).
THEOREM AccountsHaveARow == Spec => []NoOrphanAccount
<1>1. Init => IInv /\ AInv
  BY InitHolds, InitAccounts
<1>2. (IInv /\ AInv) /\ [Next]_vars => (IInv /\ AInv)'
  BY NextHolds, NextAccounts
<1>3. IInv /\ AInv => NoOrphanAccount
  BY DEF AInv
<1> QED BY <1>1, <1>2, <1>3, PTL DEF Spec
-----------------------------------------------------------------------------
(* Emails: why the two systems agree about a member between requests. *)

\* No two rows share an account, but for accounts that were left behind.
RowsApart ==
    \A s, t \in StaffId :
      s # t /\ staff[s].uid = staff[t].uid => staff[s].uid \in broken \cup {Pending}

Invites(j) == job[j].kind \in {"create", "resend"}
Moves(j) == job[j].kind \in {"update", "profile"}
Late(j) == job[j].at \in {"write", "commit"}

\* The request has read the row of the member it is about.
HasRead(j) == job[j].at \notin {"idle", "read"} /\ job[j].kind # "create"

\* The account of the row a request read is that row's still, and the account of
\* an invitation is nobody else's.
Owns(j) ==
    /\ HasRead(j) /\ job[j].seen.uid # Pending =>
         \/ job[j].seen.uid = staff[job[j].target].uid
         \/ job[j].seen.uid \in broken
    /\ \A u \in Uid \ broken : Invites(j) /\ job[j].uid = u =>
         /\ \A s \in StaffId : staff[s].uid # u
         /\ \A k \in Request \ {j} : job[k].uid # u

\* As long as no other request is about its member, the row is as it was read.
RowAsRead(j) ==
    HasRead(j) /\ job[j].target \notin crossed => staff[job[j].target] = job[j].seen

\* The email that the remote call gives the account.
Asked(j) == IF job[j].kind = "resend" THEN job[j].seen.email ELSE job[j].want.email

\* Before its write, a request has given the account the email it will write; it
\* left the account alone where the email stays or there is no account.
AccountReady(j) ==
    /\ Late(j) /\ (Invites(j) \/ job[j].target \notin crossed) =>
         \A u \in Uid \ broken : job[j].uid = u => account[u] = Asked(j)
    /\ Moves(j) /\ Late(j) /\ job[j].uid = None =>
         job[j].want.email \in {None, job[j].seen.email} \/ job[j].seen.uid = Pending
    /\ Moves(j) /\ (job[j].at = "remote" \/ job[j].uid # None) =>
         job[j].want.email # None

Alone(s) == \A j, k \in Request : About(j, s) /\ About(k, s) => j = k

Agrees(s) ==
    staff[s].state = "live" /\ staff[s].uid \notin broken \cup {Pending}
    => account[staff[s].uid] = staff[s].email

\* The request has changed the account of its member and not yet the row.
Changed(j) ==
    \/ Moves(j) /\ job[j].uid # None
    \/ job[j].kind = "delete" /\ Late(j)

Settled(s) == Agrees(s) \/ \E j \in Request : About(j, s) /\ Changed(j)

EInv ==
    /\ RowsApart
    /\ \A j \in Request : Owns(j) /\ RowAsRead(j) /\ AccountReady(j)
    /\ \A s \in StaffId \ crossed : Alone(s) /\ Settled(s)

\* What a step of the request j may change: rows it is about or that were blank,
\* accounts that are its own, or left behind, or new.  RowsApart, what j knows and
\* the members j is about are the premises left to each step.
Same(k) ==
    /\ job'[k].at = job[k].at /\ job'[k].kind = job[k].kind
    /\ job'[k].uid = job[k].uid /\ job'[k].seen = job[k].seen
    /\ job'[k].target = job[k].target /\ job'[k].want = job[k].want

Mine(j, u) ==
    (Invites(j) /\ job[j].uid = u) \/ (HasRead(j) /\ job[j].seen.uid = u)

LEMMA EmailsStay ==
    ASSUME IInv, AInv, EInv, NEW j \in Request,
           broken \subseteq broken', crossed \subseteq crossed',
           \A k \in Request \ {j} : Same(k),
           \A s \in StaffId :
             staff'[s] = staff[s] \/ staff[s].state = "none" \/ About(j, s),
           \A s \in StaffId :
             \/ staff'[s].uid = staff[s].uid
             \/ /\ staff[s].uid \in broken' \cup {Pending}
                /\ Invites(j) /\ job[j].uid = staff'[s].uid,
           \A u \in Uid :
             account'[u] = account[u] \/ u \in broken' \/ Mine(j, u) \/ u \in FreshUid,
           \/ job'[j].uid \in {None, job[j].uid} \cup FreshUid
           \/ HasRead(j) /\ job'[j].uid = job[j].seen.uid,
           RowsApart', Owns(j)', RowAsRead(j)', AccountReady(j)',
           \A s \in StaffId \ crossed' : About(j, s)' => About(j, s) \/ ~InFlight(s),
           \A s \in StaffId \ crossed' :
             About(j, s) \/ staff'[s] # staff[s] => Settled(s)'
    PROVE  EInv'
<1>1. \A u \in Uid : u # None /\ u # Pending
  BY StaffAssumption DEF Uid, Pending
<1>2. ASSUME NEW k \in Request, HasRead(k)
      PROVE  /\ About(k, job[k].target) /\ job[k].target \in StaffId
             /\ staff[job[k].target].state # "none"
  BY <1>2, WantTyped DEF HasRead, About, AInv, Knows
<1>3. ASSUME NEW k \in Request \ {j}, HasRead(k), job[k].target \notin crossed'
      PROVE  ~About(j, job[k].target)
  BY <1>2, <1>3 DEF EInv, Alone
<1>4. ASSUME NEW k \in Request \ {j} PROVE Owns(k)'
  <2>1. Same(k) /\ Owns(k)
    BY DEF EInv
  <2>2. ASSUME HasRead(k), job[k].seen.uid # Pending
        PROVE  job[k].seen.uid = staff'[job[k].target].uid \/ job[k].seen.uid \in broken'
    BY <1>2, <2>1, <2>2 DEF Owns
  <2>3. ASSUME NEW u \in Uid \ broken', Invites(k), job[k].uid = u
        PROVE  /\ \A s \in StaffId : staff'[s].uid # u
               /\ \A l \in Request \ {k} : job'[l].uid # u
    <3>1. /\ \A s \in StaffId : staff[s].uid # u
          /\ \A l \in Request \ {k} : job[l].uid # u
      BY <2>1, <2>3 DEF Owns
    <3>2. \A s \in StaffId : staff'[s].uid # u
      BY <3>1
    <3>3. ASSUME HasRead(j), job[j].seen.uid = u PROVE FALSE
      <4>1. Owns(j)
        BY DEF EInv
      <4> QED BY <1>1, <1>2, <3>1, <3>3, <4>1 DEF Owns
    <3>4. job'[j].uid # u
      BY <1>1, <2>3, <3>1, <3>3 DEF FreshUid
    <3> QED BY <3>1, <3>2, <3>4 DEF Same
  <2> QED BY <2>1, <2>2, <2>3 DEF Owns, Same, HasRead, Invites
<1>5. ASSUME NEW k \in Request \ {j} PROVE RowAsRead(k)'
  <2>1. Same(k) /\ RowAsRead(k)
    BY DEF EInv
  <2>2. ASSUME HasRead(k), job[k].target \notin crossed'
        PROVE  staff'[job[k].target] = job[k].seen
    BY <1>2, <1>3, <2>1, <2>2 DEF RowAsRead
  <2> QED BY <2>1, <2>2 DEF RowAsRead, HasRead, Same
<1>6. ASSUME NEW k \in Request \ {j} PROVE AccountReady(k)'
  <2>1. Same(k) /\ AccountReady(k) /\ Owns(k) /\ Owns(j) /\ Knows(k)
    BY DEF EInv, AInv
  <2>2. ASSUME NEW u \in Uid \ broken', job[k].uid = u, Late(k),
               Invites(k) \/ job[k].target \notin crossed'
        PROVE  account'[u] = Asked(k)
    <3>1. account[u] = Asked(k)
      BY <2>1, <2>2 DEF AccountReady
    <3>2. u \notin FreshUid
      BY <2>2 DEF FreshUid
    <3>3. ASSUME Invites(j), job[j].uid = u PROVE FALSE
      BY <2>1, <2>2, <3>3 DEF Owns
    <3>4. ASSUME HasRead(j), job[j].seen.uid = u PROVE FALSE
      <4>1. u = staff[job[j].target].uid /\ job[j].target \in StaffId
        BY <1>1, <1>2, <2>1, <2>2, <3>4 DEF Owns
      <4>2. ~Invites(k)
        BY <2>1, <2>2, <4>1 DEF Owns
      <4>3. job[k].kind \in {"update", "delete", "toggle", "profile"}
        <5>1. job[k] \in Job
          BY DEF IInv, TypeOK
        <5> QED BY <4>2, <5>1 DEF Job, Handler, Invites
      <4>4. HasRead(k) /\ job[k].seen.uid = u
        BY <1>1, <2>1, <2>2, <4>3 DEF HasRead, Late, Knows
      <4>5. u = staff[job[k].target].uid
        BY <1>1, <2>1, <2>2, <4>4 DEF Owns
      <4>6. job[k].target = job[j].target
        BY <1>1, <1>2, <2>2, <4>1, <4>4, <4>5 DEF EInv, RowsApart
      <4> QED BY <1>2, <1>3, <2>2, <3>4, <4>2, <4>4, <4>6
    <3> QED BY <2>2, <3>1, <3>2, <3>3, <3>4 DEF Mine
  <2> QED BY <2>1, <2>2 DEF AccountReady, Same, Late, Invites, Moves, Asked
<1>7. ASSUME NEW s \in StaffId \ crossed' PROVE Alone(s)'
  <2>1. \A k \in Request \ {j} : About(k, s)' => About(k, s)
    BY DEF About, Same
  <2>2. Alone(s)
    BY DEF EInv
  <2> QED BY <2>1, <2>2 DEF Alone, InFlight
<1>8. ASSUME NEW s \in StaffId \ crossed' PROVE Settled(s)'
  <2>1. CASE About(j, s) \/ staff'[s] # staff[s]
    BY <2>1
  <2>2. CASE ~About(j, s) /\ staff'[s] = staff[s]
    <3>1. Settled(s)
      BY DEF EInv
    <3>2. ASSUME NEW k \in Request, About(k, s), Changed(k) PROVE Settled(s)'
      <4>1. Same(k)
        BY <2>2, <3>2
      <4> QED BY <3>2, <4>1 DEF Settled, About, Changed, Same, Moves, Late
    <3>3. ASSUME Agrees(s) PROVE Agrees(s)'
      <4> SUFFICES ASSUME staff[s].state = "live",
                          staff[s].uid \notin broken' \cup {Pending}
                   PROVE  account'[staff[s].uid] = staff[s].email
        BY <2>2 DEF Agrees
      <4> DEFINE u == staff[s].uid
      <4>1. u \in Uid /\ account[u] = staff[s].email
        BY <3>3 DEF Agrees, IInv, TypeOK, StaffRow
      <4>2. u \notin FreshUid
        BY DEF FreshUid
      <4>3. Owns(j)
        BY DEF EInv
      <4>4. ~(Invites(j) /\ job[j].uid = u)
        BY <4>1, <4>3 DEF Owns
      <4>5. ASSUME HasRead(j), job[j].seen.uid = u PROVE FALSE
        <5>1. staff[job[j].target].uid = u
          BY <1>1, <4>1, <4>3, <4>5 DEF Owns
        <5>2. job[j].target = s
          BY <1>2, <4>5, <5>1 DEF EInv, RowsApart
        <5> QED BY <1>2, <2>2, <4>5, <5>2
      <4> QED BY <4>1, <4>2, <4>4, <4>5 DEF Mine
    <3> QED BY <3>1, <3>2, <3>3 DEF Settled
  <2> QED BY <2>1, <2>2
<1> QED BY <1>4, <1>5, <1>6, <1>7, <1>8 DEF EInv

\* The same while the rows stay.
LEMMA CallsAgree ==
    ASSUME IInv, AInv, EInv, NEW j \in Request, UNCHANGED <<staff, crossed>>,
           broken \subseteq broken', NEW r \in Job, job' = [job EXCEPT ![j] = r],
           r.at # "idle" =>
             job[j].at # "idle" /\ r.kind = job[j].kind /\ r.target = job[j].target,
           \A u \in Uid :
             account'[u] = account[u] \/ u \in broken' \/ Mine(j, u) \/ u \in FreshUid,
           \/ r.uid \in {None, job[j].uid} \cup FreshUid
           \/ HasRead(j) /\ r.uid = job[j].seen.uid,
           Owns(j)', RowAsRead(j)', AccountReady(j)',
           \A s \in StaffId \ crossed : About(j, s) => Settled(s)'
    PROVE  EInv'
<1>1. job'[j] = r /\ \A k \in Request \ {j} : job'[k] = job[k]
  BY DEF IInv, TypeOK
<1>2. \A k \in Request \ {j} : Same(k)
  BY <1>1 DEF Same
<1>3. RowsApart'
  BY DEF EInv, RowsApart
<1>4. \A s \in StaffId : About(j, s)' => About(j, s)
  BY <1>1 DEF About
<1> QED BY <1>1, <1>2, <1>3, <1>4, EmailsStay

\* A request at rest owns nothing and has read nothing.
LEMMA IdleAgrees ==
    ASSUME NEW j \in Request, job'[j] = Idle
    PROVE  Owns(j)' /\ RowAsRead(j)' /\ AccountReady(j)'
<1>1. /\ job'[j].at = "idle" /\ job'[j].kind = "update" /\ job'[j].uid = None
  BY DEF Idle
<1> QED BY <1>1 DEF Owns, RowAsRead, AccountReady, HasRead, Invites, Late, Moves

\* Of a member that only this request is about, the two systems agree until the
\* request has changed the account.
LEMMA AloneAgrees ==
    ASSUME EInv, NEW j \in Request, NEW s \in StaffId \ crossed, About(j, s),
           ~Changed(j)
    PROVE  Agrees(s)
BY DEF EInv, Alone, Settled

\* A request that has changed an account has read the row, which is still so.
LEMMA ChangedIsRead ==
    ASSUME IInv, AInv, EInv, NEW j \in Request, Changed(j),
           job[j].target \notin crossed
    PROVE  /\ staff[job[j].target] = job[j].seen
           /\ Moves(j) => job[j].uid = job[j].seen.uid
<1>1. HasRead(j) /\ (Moves(j) => job[j].uid = job[j].seen.uid)
  BY DEF Changed, HasRead, Moves, Late, AInv, Knows
<1> QED BY <1>1 DEF EInv, RowAsRead

\* A request ends without its write, and its account is as before or left behind.
LEMMA EndAgrees ==
    ASSUME IInv, AInv, EInv, NEW j \in Request, Finish(j),
           UNCHANGED <<staff, account, crossed>>, broken \subseteq broken',
           Changed(j) => job[j].seen.uid \in broken' \cup {Pending}
    PROVE  EInv'
<1>1. job' = [job EXCEPT ![j] = Idle] /\ job'[j] = Idle
  BY DEF Finish, IInv, TypeOK
<1>2. ASSUME NEW s \in StaffId \ crossed, About(j, s) PROVE Settled(s)'
  <2>1. job[j].target = s
    BY <1>2 DEF About
  <2>2. CASE Changed(j)
    BY <2>1, <2>2, ChangedIsRead DEF Settled, Agrees
  <2>3. CASE ~Changed(j)
    BY <1>2, <2>3, AloneAgrees DEF Settled, Agrees
  <2> QED BY <2>2, <2>3
<1>3. Idle.uid = None
  BY DEF Idle
<1> QED BY <1>1, <1>2, <1>3, IdleIsJob, IdleAgrees, CallsAgree

\* A request goes on to another step, its account and its member as before.
LEMMA GoAgrees ==
    ASSUME IInv, AInv, EInv, NEW j \in Request,
           UNCHANGED <<staff, account, broken, crossed>>,
           job[j].at \notin {"idle", "read"}, NEW step \in Step, Go(j, step),
           step \in {"email", "remote", "write", "revert"},
           step = "write" => job[j].uid = None, Changed(j) => Changed(j)',
           Moves(j) /\ step = "remote" => job[j].want.email # None,
           Moves(j) /\ step = "write" =>
             job[j].want.email \in {None, job[j].seen.email} \/ job[j].seen.uid = Pending
    PROVE  EInv'
<1> DEFINE r == [job[j] EXCEPT !.at = step]
<1>1. job[j] \in Job
  BY DEF IInv, TypeOK
<1>2. /\ r \in Job /\ r.at = step /\ r.kind = job[j].kind /\ r.seen = job[j].seen
      /\ r.uid = job[j].uid /\ r.target = job[j].target /\ r.want = job[j].want
  BY <1>1 DEF Job
<1>3. job' = [job EXCEPT ![j] = r] /\ job'[j] = r
      /\ \A k \in Request \ {j} : job'[k] = job[k]
  BY DEF Go, IInv, TypeOK
<1> HIDE DEF r
<1>4. Owns(j) /\ RowAsRead(j) /\ AccountReady(j)
  BY DEF EInv
<1>5. \A u \in Uid : u # None
  BY StaffAssumption
<1>6. Owns(j)'
  BY <1>2, <1>3, <1>4 DEF Owns, HasRead, Invites
<1>7. RowAsRead(j)'
  BY <1>2, <1>3, <1>4 DEF RowAsRead, HasRead
<1>8. AccountReady(j)'
  BY <1>2, <1>3, <1>4, <1>5 DEF AccountReady, Late, Invites, Moves, Asked
<1>9. ASSUME NEW s \in StaffId \ crossed, About(j, s) PROVE Settled(s)'
  <2>1. CASE Changed(j)
    <3>1. About(j, s)'
      BY <1>2, <1>3, <1>9 DEF About
    <3> QED BY <2>1, <3>1 DEF Settled
  <2>2. CASE ~Changed(j)
    BY <1>9, <2>2, AloneAgrees DEF Settled, Agrees
  <2> QED BY <2>1, <2>2
<1> QED BY <1>2, <1>3, <1>6, <1>7, <1>8, <1>9, CallsAgree

-----------------------------------------------------------------------------
\* At the start each member's account has the member's email.
LEMMA InitEmails == Init => EInv
<1> SUFFICES ASSUME Init PROVE EInv
  OBVIOUS
<1>1. PICK role \in [1 .. Initial -> InitialRole],
           active \in [1 .. Initial -> BOOLEAN],
           email \in [1 .. Initial -> Email] :
             /\ staff = [s \in StaffId |->
                           IF s <= Initial
                           THEN [state |-> "live", role |-> role[s],
                                 active |-> active[s], email |-> email[s], uid |-> s]
                           ELSE NoStaffRow]
             /\ account = [u \in Uid |-> IF u <= Initial THEN email[u] ELSE None]
  BY DEF Init
<1>2. \A s \in StaffId : staff[s].uid = IF s <= Initial THEN s ELSE Pending
  BY <1>1 DEF NoStaffRow
<1>3. RowsApart
  BY <1>2 DEF RowsApart
<1>4. ASSUME NEW j \in Request
      PROVE  job[j] = Idle /\ Owns(j) /\ RowAsRead(j) /\ AccountReady(j)
  <2>1. job[j] = Idle
    BY DEF Init
  <2>2. job[j].at = "idle" /\ job[j].kind = "update" /\ job[j].uid = None
    BY <2>1 DEF Idle
  <2> QED BY <2>1, <2>2 DEF Owns, RowAsRead, AccountReady, HasRead, Invites, Late, Moves
<1>5. ASSUME NEW s \in StaffId PROVE Alone(s) /\ Agrees(s)
  <2>1. \A j \in Request : ~About(j, s)
    BY <1>4, IdleIsJob DEF About
  <2>2. CASE s <= Initial
    <3>1. s \in Uid
      BY <2>2, StaffAssumption DEF StaffId, Uid
    <3>2. account[s] = email[s] /\ staff[s].email = email[s] /\ staff[s].uid = s
      BY <1>1, <2>2, <3>1
    <3> QED BY <2>1, <3>2 DEF Alone, Agrees
  <2>3. CASE ~(s <= Initial)
    BY <1>1, <2>1, <2>3 DEF Alone, Agrees, NoStaffRow
  <2> QED BY <2>2, <2>3
<1> QED BY <1>3, <1>4, <1>5 DEF EInv, Settled

\* A request about a member that another one is about crosses it.
LEMMA AcceptEmails ==
    ASSUME IInv, AInv, EInv, NEW j \in Request, NEW kind \in Kind,
           NEW actor \in StaffId, NEW target \in StaffId, NEW want \in Want,
           Accept(j, kind, actor, target, want)
    PROVE  EInv'
<1> DEFINE r == [Idle EXCEPT
                   !.at = IF kind \in {"create", "profile"} THEN "email" ELSE "read",
                   !.kind = kind, !.actor = actor, !.target = target,
                   !.want = IF kind \in {"create", "update", "profile"} THEN want
                            ELSE NoChange,
                   !.seen = IF kind = "profile" THEN staff[actor] ELSE NoStaffRow]
<1>1. /\ r.at = IF kind \in {"create", "profile"} THEN "email" ELSE "read"
      /\ r.kind = kind /\ r.target = target /\ r.uid = None
      /\ r.seen = IF kind = "profile" THEN staff[actor] ELSE NoStaffRow
  BY DEF Idle
<1>2. /\ job' = [job EXCEPT ![j] = r]
      /\ UNCHANGED <<staff, account, broken>>
      /\ crossed' = IF kind # "create" /\ InFlight(target) THEN crossed \cup {target}
                    ELSE crossed
      /\ job[j] = Idle /\ (kind = "profile" => target = actor)
  BY DEF Accept
<1> HIDE DEF r
<1>3. job'[j] = r /\ \A k \in Request \ {j} : Same(k)
  BY <1>2 DEF IInv, TypeOK, Same
<1>4. \A u \in Uid : u # None
  BY StaffAssumption
<1>5. Owns(j)'
  BY <1>1, <1>2, <1>3, <1>4 DEF Owns, HasRead, Invites
<1>6. RowAsRead(j)'
  BY <1>1, <1>2, <1>3 DEF RowAsRead, HasRead
<1>7. AccountReady(j)'
  BY <1>1, <1>3 DEF AccountReady, Late, Moves
<1>8. \A s \in StaffId \ crossed' : About(j, s)' => ~InFlight(s)
  BY <1>1, <1>2, <1>3 DEF About
<1>9. \A s : ~About(j, s)
  BY <1>2, IdleIsJob DEF About
<1>10. RowsApart' /\ crossed \subseteq crossed'
  BY <1>2 DEF EInv, RowsApart
<1> QED BY <1>1, <1>2, <1>3, <1>5, <1>6, <1>7, <1>8, <1>9, <1>10, EmailsStay

\* The checks read a row and change no account.
LEMMA ReadEmails ==
    ASSUME IInv, AInv, EInv, NEW j \in Request, ReadTarget(j)
    PROVE  EInv'
<1>1. /\ UNCHANGED <<staff, account, slipped, broken, crossed>>
      /\ job[j].at = "read"
      /\ job[j].kind \in {"update", "delete", "toggle", "resend"}
      /\ job[j].uid = None
  BY DEF ReadTarget, IInv, InPlace, AInv, Knows
<1>2. ~Changed(j)
  BY <1>1 DEF Changed, Moves, Late
<1>3. CASE Finish(j)
  BY <1>1, <1>2, <1>3, EndAgrees
<1>4. CASE ~Finish(j)
  <2> DEFINE row == staff[job[j].target]
             next == IF NeedsGuard(job[j].kind, job[j].want, row)
                     THEN "count" ELSE AfterChecks(job[j].kind)
             r == [job[j] EXCEPT !.seen = row, !.at = next]
  <2>1. job[j] \in Job /\ row \in StaffRow
    BY WantTyped DEF IInv, TypeOK
  <2>2. /\ next \in {"count", "email", "remote", "write"}
        /\ job[j].kind = "update" => next \in {"count", "email"}
    BY <1>1 DEF AfterChecks
  <2>3. job' = [job EXCEPT ![j] = r]
    BY <1>4 DEF ReadTarget
  <2> HIDE DEF next
  <2>4. /\ r \in Job /\ r.at = next /\ r.kind = job[j].kind /\ r.uid = None
        /\ r.seen = row /\ r.target = job[j].target
    BY <1>1, <2>1, <2>2 DEF Job, Step
  <2> HIDE DEF r
  <2>5. job'[j] = r /\ \A k \in Request \ {j} : job'[k] = job[k]
    BY <2>3 DEF IInv, TypeOK
  <2>6. \A u \in Uid : u # None
    BY StaffAssumption
  <2>7. Owns(j)'
    BY <1>1, <2>4, <2>5, <2>6 DEF Owns, HasRead, Invites
  <2>8. RowAsRead(j)'
    BY <1>1, <2>4, <2>5 DEF RowAsRead, HasRead
  <2>9. AccountReady(j)'
    BY <1>1, <2>2, <2>4, <2>5, <2>6 DEF AccountReady, Late, Moves
  <2>10. \A s \in StaffId \ crossed : About(j, s) => Settled(s)'
    BY <1>1, <1>2, AloneAgrees DEF Settled, Agrees
  <2> QED BY <1>1, <2>3, <2>4, <2>7, <2>8, <2>9, <2>10, CallsAgree
<1> QED BY <1>3, <1>4

LEMMA CheckEmails ==
    ASSUME IInv, AInv, EInv, NEW j \in Request, CountOthers(j) \/ CheckEmail(j)
    PROVE  EInv'
<1>1. /\ UNCHANGED <<staff, account, slipped, broken, crossed>>
      /\ job[j].at \in {"count", "email"} /\ job[j].uid = None
  BY DEF CountOthers, CheckEmail, AInv, Knows
<1>2. ~Changed(j)
  BY <1>1 DEF Changed, Moves, Late
<1>3. CASE Finish(j)
  BY <1>1, <1>2, <1>3, EndAgrees
<1>4. CASE CountOthers(j) /\ ~Finish(j)
  <2>1. Go(j, AfterChecks(job[j].kind)) /\ job[j].at = "count"
    BY <1>4 DEF CountOthers
  <2>2. AfterChecks(job[j].kind) \in {"email", "remote", "write"}
    BY <2>1 DEF AfterChecks, IInv, InPlace
  <2>3. AfterChecks(job[j].kind) \in {"remote", "write"} => ~Moves(j)
    BY <2>1 DEF AfterChecks, IInv, InPlace, Moves
  <2> QED BY <1>1, <1>2, <2>1, <2>2, <2>3, GoAgrees DEF Step
<1>5. CASE CheckEmail(j) /\ ~Finish(j)
  <2>1. /\ job[j].kind \in {"create", "update", "profile"}
        /\ \/ Go(j, "write") /\ (Moves(j) =>
                \/ job[j].want.email \in {None, job[j].seen.email}
                \/ job[j].seen.uid = Pending)
           \/ Go(j, "remote") /\ (Moves(j) => job[j].want.email # None)
    BY <1>5 DEF CheckEmail, Moves, IInv, InPlace
  <2> QED BY <1>1, <1>2, <2>1, GoAgrees DEF Step
<1> QED BY <1>3, <1>4, <1>5

\* The account moves to the email that the row gets next.
LEMMA MoveEmails ==
    ASSUME IInv, AInv, EInv, NEW j \in Request, MoveEmail(j)
    PROVE  EInv'
<1> DEFINE u == job[j].seen.uid
           r == [job[j] EXCEPT !.uid = u, !.at = "write"]
<1>1. /\ job[j].at = "remote" /\ Moves(j) /\ UNCHANGED <<staff, slipped, broken, crossed>>
      /\ job[j].uid = None
  BY DEF MoveEmail, Moves, AInv, Knows
<1>2. u \in Uid /\ job[j].want.email # None
  BY <1>1, WantTyped DEF IInv, InPlace, Moves, EInv, AccountReady
<1>3. CASE Finish(j) /\ UNCHANGED account
  <2>1. ~Changed(j)
    BY <1>1 DEF Changed, Moves
  <2> QED BY <1>1, <1>3, <2>1, EndAgrees
<1>4. CASE /\ account' = [account EXCEPT ![u] = job[j].want.email]
           /\ job' = [job EXCEPT ![j].uid = u, ![j].at = "write"]
  <2>1. job[j] \in Job /\ u # None
    BY <1>2, StaffAssumption DEF IInv, TypeOK
  <2>2. /\ r \in Job /\ r.at = "write" /\ r.kind = job[j].kind /\ r.uid = u
        /\ r.seen = job[j].seen /\ r.target = job[j].target /\ r.want = job[j].want
    BY <1>2, <2>1 DEF Job, Step
  <2>3. job' = [job EXCEPT ![j] = r] /\ job'[j] = r
        /\ \A k \in Request \ {j} : job'[k] = job[k]
    BY <1>4 DEF IInv, TypeOK
  <2> HIDE DEF r
  <2>4. account'[u] = job[j].want.email /\ \A v \in Uid \ {u} : account'[v] = account[v]
    BY <1>2, <1>4 DEF IInv, TypeOK
  <2>5. HasRead(j) /\ Mine(j, u)
    BY <1>1 DEF HasRead, Moves, Mine
  <2>6. Owns(j) /\ RowAsRead(j)
    BY DEF EInv
  <2>7. Owns(j)' /\ RowAsRead(j)'
    BY <1>1, <2>2, <2>3, <2>5, <2>6 DEF Owns, RowAsRead, HasRead, Invites, Moves
  <2>8. AccountReady(j)'
    BY <1>1, <1>2, <2>1, <2>2, <2>3, <2>4 DEF AccountReady, Late, Moves, Asked
  <2>9. Changed(j)'
    BY <1>1, <2>1, <2>2, <2>3 DEF Changed, Moves
  <2>10. \A s \in StaffId : About(j, s) => About(j, s)'
    BY <2>2, <2>3 DEF About
  <2>11. \A s \in StaffId \ crossed : About(j, s) => Settled(s)'
    BY <2>9, <2>10 DEF Settled
  <2> HIDE DEF u
  <2> QED BY <1>1, <2>2, <2>3, <2>4, <2>5, <2>7, <2>8, <2>11, CallsAgree DEF u
<1> QED BY <1>3, <1>4 DEF MoveEmail

\* The account of a member to delete goes before the row does.
LEMMA DeleteEmails ==
    ASSUME IInv, AInv, EInv, NEW j \in Request, DeleteAccount(j)
    PROVE  EInv'
<1> DEFINE r == [job[j] EXCEPT !.at = "write"]
<1>1. /\ job[j].at = "remote" /\ job[j].kind = "delete" /\ job[j].uid = None
      /\ UNCHANGED <<staff, slipped, broken, crossed>>
      /\ job' = [job EXCEPT ![j] = r]
  BY DEF DeleteAccount, Go, AInv, Knows
<1>2. job[j] \in Job
  BY DEF IInv, TypeOK
<1>3. /\ r \in Job /\ r.at = "write" /\ r.kind = "delete" /\ r.uid = None
      /\ r.seen = job[j].seen /\ r.target = job[j].target
  BY <1>1, <1>2 DEF Job, Step
<1> HIDE DEF r
<1>4. job'[j] = r /\ \A k \in Request \ {j} : job'[k] = job[k]
  BY <1>1 DEF IInv, TypeOK
<1>5. HasRead(j)
  BY <1>1 DEF HasRead
<1>6. \A u \in Uid : account'[u] = account[u] \/ Mine(j, u)
  BY <1>5 DEF DeleteAccount, IInv, TypeOK, Mine
<1>7. Owns(j) /\ RowAsRead(j)
  BY DEF EInv
<1>8. Owns(j)' /\ RowAsRead(j)'
  BY <1>1, <1>3, <1>4, <1>5, <1>7 DEF Owns, RowAsRead, HasRead, Invites
<1>9. \A u \in Uid : u # None
  BY StaffAssumption
<1>10. AccountReady(j)'
  BY <1>3, <1>4, <1>9 DEF AccountReady, Moves
<1>11. Changed(j)' /\ \A s \in StaffId : About(j, s) => About(j, s)'
  BY <1>1, <1>3, <1>4 DEF Changed, Late, About
<1>12. \A s \in StaffId \ crossed : About(j, s) => Settled(s)'
  BY <1>11 DEF Settled
<1> QED BY <1>1, <1>3, <1>6, <1>8, <1>10, <1>12, CallsAgree

\* The account of an invitation is new and has the email of the row.
LEMMA InviteEmails ==
    ASSUME IInv, AInv, EInv, NEW j \in Request, InviteNew(j) \/ InviteAgain(j)
    PROVE  EInv'
<1>1. /\ job[j].at = "remote" /\ Invites(j) /\ UNCHANGED <<staff, slipped, broken, crossed>>
      /\ job[j].uid = None /\ ~Changed(j)
  BY DEF InviteNew, InviteAgain, Invites, AInv, Knows, Changed, Moves, Late
<1>2. CASE Finish(j) /\ UNCHANGED account
  BY <1>1, <1>2, EndAgrees
<1>3. ASSUME NEW u \in Uid, Invite(j, u, Asked(j)) PROVE EInv'
  <2> DEFINE r == [job[j] EXCEPT !.uid = u, !.at = "write"]
  <2>1. job[j] \in Job /\ u # None
    BY StaffAssumption DEF IInv, TypeOK
  <2>2. /\ r \in Job /\ r.at = "write" /\ r.kind = job[j].kind /\ r.uid = u
        /\ r.seen = job[j].seen /\ r.target = job[j].target /\ r.want = job[j].want
    BY <2>1 DEF Job, Step
  <2>3. /\ job' = [job EXCEPT ![j] = r] /\ job'[j] = r
        /\ \A k \in Request \ {j} : job'[k] = job[k]
    BY <1>3 DEF Invite, IInv, TypeOK
  <2> HIDE DEF r
  <2>4. /\ u \in FreshUid
        /\ account'[u] = Asked(j) /\ \A v \in Uid \ {u} : account'[v] = account[v]
    BY <1>3 DEF Invite, IInv, TypeOK
  <2>5. /\ \A s \in StaffId : staff[s].uid # u
        /\ \A k \in Request : job[k].uid # u
    BY <2>4 DEF FreshUid
  <2>6. Owns(j) /\ RowAsRead(j)
    BY DEF EInv
  <2>7. Owns(j)'
    BY <1>1, <2>2, <2>3, <2>5, <2>6 DEF Owns, HasRead, Invites
  <2>8. RowAsRead(j)'
    BY <1>1, <2>2, <2>3, <2>6 DEF RowAsRead, HasRead
  <2>9. AccountReady(j)'
    BY <1>1, <2>2, <2>3, <2>4 DEF AccountReady, Late, Moves, Invites, Asked
  <2>10. ASSUME NEW s \in StaffId \ crossed, About(j, s) PROVE Settled(s)'
    <3>1. Agrees(s)
      BY <1>1, <2>10, AloneAgrees
    <3>2. staff[s].uid \in Uid \cup {Pending}
      BY DEF IInv, TypeOK, StaffRow
    <3>3. Agrees(s)'
      BY <1>1, <2>4, <2>5, <3>1, <3>2 DEF Agrees
    <3> QED BY <3>3 DEF Settled
  <2> QED BY <1>1, <2>2, <2>3, <2>4, <2>7, <2>8, <2>9, <2>10, CallsAgree
<1>4. CASE InviteNew(j) /\ ~(Finish(j) /\ UNCHANGED account)
  BY <1>3, <1>4 DEF InviteNew, Asked
<1>5. CASE InviteAgain(j) /\ ~(Finish(j) /\ UNCHANGED account)
  BY <1>3, <1>5 DEF InviteAgain, Asked
<1> QED BY <1>2, <1>4, <1>5

-----------------------------------------------------------------------------
\* What a request writes over the row it read agrees with the account.
LEMMA WrittenAgrees ==
    ASSUME IInv, AInv, EInv, NEW j \in Request, Late(j), job[j].kind # "create",
           job[j].target \notin crossed, NEW row,
           row = Written(j, staff[job[j].target]),
           row.state = "live", row.uid \notin broken \cup {Pending}
    PROVE  account[row.uid] = row.email
<1> DEFINE s == job[j].target
<1>1. /\ job[j].kind \in Handler /\ staff[s] \in StaffRow /\ s \in StaffId
      /\ job[j].uid \in Uid \cup {None}
  BY WantTyped DEF IInv, TypeOK, Job
<1>2. HasRead(j) /\ About(j, s) /\ staff[s] = job[j].seen
  BY DEF HasRead, About, Late, EInv, RowAsRead
<1>3. AccountReady(j) /\ Knows(j)
  BY DEF EInv, AInv
<1>4. ~Changed(j) => Agrees(s)
  BY <1>1, <1>2, AloneAgrees
<1> HIDE DEF s
<1>5. CASE Moves(j)
  <2>1. /\ row.uid = staff[s].uid /\ row.state = staff[s].state
        /\ row.email = IF job[j].want.email = None THEN staff[s].email
                       ELSE job[j].want.email
    BY <1>1, <1>2, <1>5 DEF s, Written, Updated, EmailAfter, Moves, StaffRow
  <2>2. CASE job[j].uid = None
    <3>1. job[j].want.email \in {None, staff[s].email}
      BY <1>2, <1>3, <1>5, <2>1, <2>2 DEF AccountReady
    <3>2. Agrees(s)
      BY <1>4, <1>5, <2>2 DEF Changed, Moves
    <3> QED BY <2>1, <3>1, <3>2 DEF Agrees
  <2>3. CASE job[j].uid # None
    <3>1. job[j].uid = row.uid /\ row.uid \in Uid \ broken
      BY <1>1, <1>2, <1>3, <1>5, <2>1, <2>3 DEF Knows, Moves
    <3>2. account[row.uid] = Asked(j)
      BY <1>3, <3>1 DEF AccountReady
    <3>3. Asked(j) = job[j].want.email /\ job[j].want.email # None
      BY <1>3, <1>5, <2>3 DEF Asked, Moves, AccountReady
    <3> QED BY <2>1, <3>2, <3>3
  <2> QED BY <2>2, <2>3
<1>6. CASE job[j].kind = "delete"
  BY <1>1, <1>6 DEF s, Written, StaffRow
<1>7. CASE job[j].kind = "toggle"
  <2>1. row.uid = staff[s].uid /\ row.state = staff[s].state /\ row.email = staff[s].email
    BY <1>1, <1>7 DEF s, Written, StaffRow
  <2>2. Agrees(s)
    BY <1>4, <1>7 DEF Changed, Moves
  <2> QED BY <2>1, <2>2 DEF Agrees
<1>8. CASE job[j].kind = "resend"
  <2>1. job[j].uid # None
    BY <1>8 DEF Late, IInv, InPlace
  <2>2. row.uid = job[j].uid /\ row.email = staff[s].email
    BY <1>1, <1>8 DEF s, Written, StaffRow
  <2>3. account[row.uid] = Asked(j)
    BY <1>1, <1>3, <1>8, <2>1, <2>2 DEF AccountReady, Invites
  <2> QED BY <1>2, <1>8, <2>2, <2>3 DEF Asked
<1> QED BY <1>1, <1>5, <1>6, <1>7, <1>8 DEF Handler, Moves

\* A write ends the request, and its member agrees.
LEMMA TableEmails ==
    ASSUME IInv, AInv, EInv, NEW j \in Request, Late(j), job[j].kind # "create",
           NEW row, row = Written(j, staff[job[j].target]),
           staff' = [staff EXCEPT ![job[j].target] = row],
           UNCHANGED <<account, crossed>>, broken \subseteq broken',
           \/ staff[job[j].target].uid \in broken' \cup {Pending}
           \/ row.uid = staff[job[j].target].uid,
           job'[j] = Idle, \A k \in Request \ {j} : Same(k)
    PROVE  EInv'
<1> DEFINE s == job[j].target
<1>1. /\ s \in StaffId /\ About(j, s)
      /\ \A t \in StaffId : About(j, t) => t = s
  BY WantTyped DEF About, Late
<1>2. staff'[s] = row /\ \A t \in StaffId \ {s} : staff'[t] = staff[t]
  BY <1>1 DEF IInv, TypeOK
<1>3. row.uid = IF job[j].kind = "resend" THEN job[j].uid ELSE staff[s].uid
  BY <1>1, WrittenAccount DEF Late, AInv, Knows
<1>4. job[j].kind = "resend" => Invites(j) /\ job[j].uid \in Uid
  BY WantTyped DEF Invites, Late, IInv, InPlace
<1>5. Owns(j)
  BY DEF EInv
<1>6. RowsApart'
  <2>1. ASSUME NEW t \in StaffId \ {s}, row.uid = staff[t].uid
        PROVE  row.uid \in broken' \cup {Pending}
    BY <1>1, <1>3, <1>4, <1>5, <2>1 DEF EInv, RowsApart, Owns
  <2>2. ASSUME NEW t \in StaffId \ {s}, NEW v \in StaffId \ {s}, t # v,
               staff[t].uid = staff[v].uid
        PROVE  staff[t].uid \in broken' \cup {Pending}
    BY <2>2 DEF EInv, RowsApart
  <2> QED BY <1>1, <1>2, <2>1, <2>2 DEF RowsApart
<1>7. ASSUME NEW t \in StaffId \ crossed, t = s PROVE Settled(t)'
  <2>1. ASSUME row.state = "live", row.uid \notin broken' \cup {Pending}
        PROVE  account[row.uid] = row.email
    BY <1>7, <2>1, WrittenAgrees
  <2>2. Agrees(t)'
    BY <1>2, <1>7, <2>1 DEF Agrees
  <2> QED BY <2>2 DEF Settled
<1>8. \A t : ~About(j, t)'
  BY IdleIsJob DEF About
<1>9. job'[j].uid = None
  BY DEF Idle
<1>10. \A t \in StaffId :
         \/ staff'[t].uid = staff[t].uid
         \/ /\ staff[t].uid \in broken' \cup {Pending}
            /\ Invites(j) /\ job[j].uid = staff'[t].uid
  BY <1>1, <1>2, <1>3, <1>4
<1>11. ASSUME NEW t \in StaffId \ crossed', About(j, t) \/ staff'[t] # staff[t]
       PROVE  Settled(t)'
  <2>1. t = s
    BY <1>1, <1>2, <1>11
  <2> QED BY <1>7, <2>1
<1>12. \A t \in StaffId : staff'[t] = staff[t] \/ About(j, t)
  BY <1>1, <1>2
<1> HIDE DEF s
<1> QED BY <1>6, <1>8, <1>9, <1>10, <1>11, <1>12, IdleAgrees, EmailsStay

LEMMA WriteEmails ==
    ASSUME IInv, AInv, EInv, NEW j \in Request, WriteRow(j) \/ CommitGuarded(j)
    PROVE  EInv'
<1> DEFINE s == job[j].target
           row == Written(j, staff[s])
<1>1. Late(j) /\ job[j].kind # "create"
  BY DEF WriteRow, CommitGuarded, Late, IInv, InPlace
<1>2. s \in StaffId /\ staff[s].state # "none"
  BY <1>1, WantTyped DEF Late, AInv, Knows
<1>3. row.uid = IF job[j].kind = "resend" THEN job[j].uid ELSE staff[s].uid
  BY <1>1, <1>2, WrittenAccount DEF Late
<1>4. staff' = [staff EXCEPT ![s] = row] /\ UNCHANGED <<account, crossed>>
  BY DEF WriteRow, CommitGuarded
<1>5. ASSUME NEW k \in Request \ {j} PROVE Same(k)
  <2>1. job[k] \in Job
    BY DEF IInv, TypeOK
  <2> QED BY <2>1 DEF WriteRow, CommitGuarded, Finish, IInv, TypeOK, Same, Job
<1>6. job'[j] = Idle
  BY DEF WriteRow, CommitGuarded, Finish, IInv, TypeOK
<1>7. /\ broken \subseteq broken'
      /\ staff[s].uid \in broken' \cup {Pending} \/ row.uid = staff[s].uid
  <2>1. CASE WriteRow(j)
    BY <2>1 DEF WriteRow
  <2>2. CASE CommitGuarded(j)
    BY <1>3, <2>2 DEF CommitGuarded, IInv, InPlace
  <2> QED BY <2>1, <2>2
<1> HIDE DEF row
<1> QED BY <1>1, <1>4, <1>5, <1>6, <1>7, TableEmails DEF row

\* The new row has the email its account was created with.
LEMMA InsertEmails ==
    ASSUME IInv, AInv, EInv, NEW j \in Request, NEW s \in StaffId, InsertRow(j, s)
    PROVE  EInv'
<1> DEFINE row == [state |-> "live", active |-> TRUE,
                   role |-> IF job[j].want.role = None THEN "viewer"
                            ELSE job[j].want.role,
                   email |-> job[j].want.email,
                   uid |-> IF job[j].uid = None THEN Pending ELSE job[j].uid]
<1>1. /\ staff' = [staff EXCEPT ![s] = row]
      /\ Finish(j) /\ UNCHANGED <<account, slipped, broken, crossed>>
      /\ job[j].at = "write" /\ job[j].kind = "create" /\ staff[s].state = "none"
  BY DEF InsertRow, Rows
<1>2. /\ row.email = job[j].want.email
      /\ row.uid = IF job[j].uid = None THEN Pending ELSE job[j].uid
  OBVIOUS
<1> HIDE DEF row
<1>3. staff'[s] = row /\ \A t \in StaffId \ {s} : staff'[t] = staff[t]
  BY <1>1 DEF IInv, TypeOK
<1>4. job'[j] = Idle /\ \A k \in Request \ {j} : Same(k)
  BY <1>1 DEF Finish, IInv, TypeOK, Same
<1>5. Invites(j) /\ Late(j) /\ Owns(j) /\ AccountReady(j) /\ job[j].uid \in Uid \cup {None}
  BY <1>1, WantTyped DEF Invites, Late, EInv
<1>6. staff[s].uid = Pending
  BY <1>1 DEF AInv, Blank
<1>7. RowsApart'
  <2>1. ASSUME NEW t \in StaffId \ {s}, row.uid = staff[t].uid
        PROVE  row.uid \in broken \cup {Pending}
    BY <1>2, <1>5, <2>1 DEF Owns
  <2> QED BY <1>1, <1>3, <2>1 DEF EInv, RowsApart
<1>8. Agrees(s)'
  <2> SUFFICES ASSUME row.uid \notin broken \cup {Pending}
               PROVE  account[row.uid] = row.email
    BY <1>1, <1>3 DEF Agrees
  <2>1. job[j].uid = row.uid /\ row.uid \in Uid
    BY <1>2, <1>5
  <2> QED BY <1>1, <1>2, <1>5, <2>1 DEF AccountReady, Asked
<1>9. \A t \in StaffId : ~About(j, t) /\ ~About(j, t)'
  BY <1>1, <1>4, IdleIsJob DEF About
<1>10. job'[j].uid = None
  BY <1>4 DEF Idle
<1>11. \A t \in StaffId :
         \/ staff'[t].uid = staff[t].uid
         \/ staff[t].uid = Pending /\ Invites(j) /\ job[j].uid = staff'[t].uid
  BY <1>2, <1>3, <1>5, <1>6
<1>12. \A t \in StaffId : staff'[t] = staff[t] \/ staff[t].state = "none"
  BY <1>1, <1>3
<1>13. \A t \in StaffId : staff'[t] # staff[t] => Settled(t)'
  BY <1>3, <1>8 DEF Settled
<1> QED BY <1>1, <1>4, <1>7, <1>9, <1>10, <1>11, <1>12, <1>13, IdleAgrees, EmailsStay

\* A transaction begins; what its request knows stays so.
LEMMA BeginEmails ==
    ASSUME IInv, AInv, EInv, NEW j \in Request, BeginGuarded(j)
    PROVE  EInv'
<1> DEFINE r == [job[j] EXCEPT !.at = "commit", !.admins = ActiveAdmins,
                               !.row = staff[job[j].target]]
<1>1. job[j] \in Job /\ staff[job[j].target] \in StaffRow
  BY WantTyped DEF IInv, TypeOK
<1>2. ActiveAdmins \in SUBSET StaffId
  BY DEF ActiveAdmins
<1>3. /\ r \in Job /\ r.at = "commit" /\ r.kind = job[j].kind /\ r.uid = job[j].uid
      /\ r.seen = job[j].seen /\ r.target = job[j].target /\ r.want = job[j].want
  BY <1>1, <1>2 DEF Job, Step
<1>4. /\ job' = [job EXCEPT ![j] = r] /\ job[j].at = "write"
      /\ UNCHANGED <<staff, account, slipped, broken, crossed>>
  BY DEF BeginGuarded
<1> HIDE DEF r
<1>5. job'[j] = r /\ \A k \in Request \ {j} : job'[k] = job[k]
  BY <1>4 DEF IInv, TypeOK
<1>6. Owns(j) /\ RowAsRead(j) /\ AccountReady(j)
  BY DEF EInv
<1>7. Owns(j)' /\ RowAsRead(j)'
  BY <1>3, <1>4, <1>5, <1>6 DEF Owns, RowAsRead, HasRead, Invites
<1>8. AccountReady(j)'
  BY <1>3, <1>4, <1>5, <1>6 DEF AccountReady, Late, Invites, Moves, Asked
<1>9. ASSUME NEW s \in StaffId \ crossed, About(j, s) PROVE Settled(s)'
  <2>1. Changed(j) => Changed(j)' /\ About(j, s)'
    BY <1>3, <1>4, <1>5, <1>9 DEF Changed, Moves, Late, About
  <2>2. ~Changed(j) => Agrees(s)'
    BY <1>4, <1>9, AloneAgrees DEF Agrees
  <2> QED BY <2>1, <2>2 DEF Settled
<1> QED BY <1>3, <1>4, <1>7, <1>8, <1>9, CallsAgree

\* A write is refused or lost: the account goes back, or was left behind.
LEMMA FailEmails ==
    ASSUME IInv, AInv, EInv, NEW j \in Request,
           RefuseWrite(j) \/ LoseWrite(j) \/ Crash(j)
    PROVE  EInv'
<1>1. UNCHANGED <<staff, account, slipped, crossed>> /\ broken \subseteq broken'
  BY DEF RefuseWrite, LoseWrite, FailWrite, Crash
<1>2. Changed(j) /\ Moves(j) => job[j].uid # None /\ job[j].uid = job[j].seen.uid
  BY DEF Changed, Moves, AInv, Knows
<1>3. CASE Crash(j)
  <2>1. Changed(j) => job[j].seen.uid \in broken' \cup {Pending}
    BY <1>2, <1>3 DEF Crash, Touched, Changed
  <2> QED BY <1>1, <1>3, <2>1, EndAgrees DEF Crash
<1>4. CASE FailWrite(j) /\ Late(j)
  <2>1. CASE Undoes(job[j].kind) /\ job[j].uid # None
    <3>1. Go(j, "revert") /\ UNCHANGED broken
      BY <1>4, <2>1 DEF FailWrite, Fail
    <3>2. Changed(j) => Changed(j)'
      <4>1. job[j] \in Job
        BY DEF IInv, TypeOK
      <4> QED BY <2>1, <3>1, <4>1 DEF Changed, Moves, Go, Undoes, IInv, TypeOK, Job
    <3> QED BY <1>1, <1>4, <3>1, <3>2, GoAgrees DEF Step, Late
  <2>2. CASE ~(Undoes(job[j].kind) /\ job[j].uid # None)
    <3>1. Finish(j)
      BY <1>4, <2>2 DEF FailWrite, Fail
    <3>2. Changed(j) => job[j].seen.uid \in broken' \cup {Pending}
      BY <1>2, <1>4, <2>2 DEF FailWrite, Changed, Moves, Undoes, Touched
    <3> QED BY <1>1, <3>1, <3>2, EndAgrees
  <2> QED BY <2>1, <2>2
<1> QED BY <1>3, <1>4 DEF RefuseWrite, Refused, LoseWrite, Late

\* The compensation gives the account the email of the row, which is as it was read.
LEMMA CompensateEmails ==
    ASSUME IInv, AInv, EInv, NEW j \in Request, Compensate(j)
    PROVE  EInv'
<1> DEFINE u == job[j].uid
<1>1. /\ job[j].at = "revert" /\ Finish(j) /\ UNCHANGED <<staff, slipped, crossed>>
      /\ broken \subseteq broken' /\ u \in Uid /\ (Moves(j) \/ job[j].kind = "create")
  BY WantTyped DEF Compensate, IInv, InPlace, AInv, Knows, Undoes, Moves
<1>2. job' = [job EXCEPT ![j] = Idle] /\ job'[j] = Idle /\ Idle.uid = None
  BY <1>1 DEF Finish, IInv, TypeOK, Idle
<1>3. \A v \in Uid : account'[v] = account[v] \/ v = u
  BY <1>1 DEF Compensate, IInv, TypeOK
<1>4. Moves(j) => HasRead(j) /\ u = job[j].seen.uid
  BY <1>1, StaffAssumption DEF Moves, HasRead, AInv, Knows
<1>5. Mine(j, u)
  BY <1>1, <1>4 DEF Mine, Invites
<1>6. ASSUME NEW s \in StaffId \ crossed, About(j, s) PROVE Settled(s)'
  <2>1. Moves(j) /\ job[j].target = s
    BY <1>1, <1>6 DEF About
  <2>2. staff[s] = job[j].seen /\ staff[s].uid = u
    BY <1>4, <2>1 DEF EInv, RowAsRead
  <2>3. account'[u] = staff[s].email \/ u \in broken'
    BY <1>1, <2>1, <2>2 DEF Compensate, Moves, IInv, TypeOK
  <2> QED BY <1>1, <2>2, <2>3 DEF Settled, Agrees
<1> HIDE DEF u
<1> QED BY <1>1, <1>2, <1>3, <1>5, <1>6, IdleIsJob, IdleAgrees, CallsAgree

\* Every step keeps what the emails rest on.
LEMMA NextEmails == IInv /\ AInv /\ EInv /\ [Next]_vars => EInv'
<1> SUFFICES ASSUME IInv, AInv, EInv, [Next]_vars PROVE EInv'
  OBVIOUS
<1>1. CASE UNCHANGED vars
  BY <1>1 DEF vars, EInv, RowsApart, Owns, RowAsRead, AccountReady, HasRead, Invites,
     Moves, Late, Asked, Alone, About, Settled, Agrees, Changed
<1>2. ASSUME NEW j \in Request, NEW kind \in Kind, NEW actor \in StaffId,
             NEW target \in StaffId, NEW want \in Want,
             Accept(j, kind, actor, target, want)
      PROVE  EInv'
  BY <1>2, AcceptEmails
<1>3. ASSUME NEW j \in Request, ReadTarget(j) \/ CountOthers(j) \/ CheckEmail(j)
      PROVE  EInv'
  BY <1>3, ReadEmails, CheckEmails
<1>4. ASSUME NEW j \in Request,
             MoveEmail(j) \/ DeleteAccount(j) \/ InviteNew(j) \/ InviteAgain(j)
      PROVE  EInv'
  BY <1>4, MoveEmails, DeleteEmails, InviteEmails
<1>5. ASSUME NEW j \in Request, WriteRow(j) \/ BeginGuarded(j) \/ CommitGuarded(j)
      PROVE  EInv'
  BY <1>5, WriteEmails, BeginEmails
<1>6. ASSUME NEW j \in Request, NEW s \in StaffId, InsertRow(j, s) PROVE EInv'
  BY <1>6, InsertEmails
<1>7. ASSUME NEW j \in Request,
             RefuseWrite(j) \/ LoseWrite(j) \/ Compensate(j) \/ Crash(j)
      PROVE  EInv'
  BY <1>7, FailEmails, CompensateEmails
<1> QED BY <1>1, <1>2, <1>3, <1>4, <1>5, <1>6, <1>7 DEF Next

\* When no request about a member is under way, the member has the same email in the
\* database and in the authentication service, unless two requests about that member
\* overlapped or a failure left the account behind; requests about other members
\* interleave as they like, for any number of them (#233).
THEOREM SystemsAgree == Spec => []EmailsAgree
<1>1. Init => IInv /\ AInv /\ EInv
  BY InitHolds, InitAccounts, InitEmails
<1>2. (IInv /\ AInv /\ EInv) /\ [Next]_vars => (IInv /\ AInv /\ EInv)'
  BY NextHolds, NextAccounts, NextEmails
<1>3. IInv /\ AInv /\ EInv => EmailsAgree
  BY DEF EInv, Settled, Agrees, EmailsAgree, InFlight
<1> QED BY <1>1, <1>2, <1>3, PTL DEF Spec
=============================================================================
