------------------------------ MODULE StaffAdmin ------------------------------
(***************************************************************************)
(* Staff administration.  A staff member is a row of our database and an   *)
(* account of the authentication service, and no transaction spans the     *)
(* two: a handler checks, calls the service, then writes its row, and      *)
(* other handlers run between its steps.  Every access to the database or  *)
(* to the service is one step here.                                        *)
(*                                                                         *)
(* The last active administrator must not be lost: the checks for it are   *)
(* made before the calls, and again in the serializable transaction that   *)
(* writes the row.                                                         *)
(***************************************************************************)
EXTENDS Integers, FiniteSets

CONSTANTS
    Request,            \* requests in flight at the same time
    MaxStaff, MaxUid,   \* bounds on the rows and the accounts ever created
    Initial,            \* staff present at the start, each with an account,
    InitialRole,        \*   and the roles they may have
    Email,
    Kind,               \* the handlers in use
    Want,               \* the changes an update can ask for
    None                \* a field that a request does not give; no account

Role == {"viewer", "operator", "manager", "admin"}
Handler == {"create", "update", "delete", "toggle", "resend", "profile"}
Change ==
    [role : Role \cup {None}, active : BOOLEAN \cup {None},
     email : Email \cup {None}]
NoChange == [role |-> None, active |-> None, email |-> None]
StaffId == 1 .. MaxStaff
Uid == 1 .. MaxUid
Pending == 0     \* the placeholder "pending_..." of a row without an account

ASSUME StaffAssumption ==
    /\ MaxStaff \in Nat /\ MaxUid \in Nat
    /\ Initial \in 1 .. MaxStaff /\ Initial <= MaxUid
    /\ Kind \subseteq Handler /\ InitialRole \subseteq Role
    /\ Want \subseteq Change
    /\ None \notin Role /\ None \notin BOOLEAN /\ None \notin Email
    /\ None \notin {Pending} \cup Uid
    /\ IsFiniteSet(Email) /\ Cardinality(Email) >= Initial

VARIABLES
    staff,     \* the Staff table
    account,   \* email of each account of the authentication service, or None
    job,       \* the handler each request is running, and its local variables
    slipped,   \* history: has an unguarded write removed an administrator?
    broken,    \* history: accounts left half changed by a failed or lost call,
               \*   or left behind by an invitation that a second one replaced
    crossed    \* history: members about whom two requests overlapped

vars == <<staff, account, job, slipped, broken, crossed>>

StaffRow ==
    [state : {"none", "live", "deleted"}, role : Role, active : BOOLEAN,
     email : Email \cup {None}, uid : Uid \cup {Pending}]

NoStaffRow ==
    [state |-> "none", role |-> "viewer", active |-> FALSE, email |-> None,
     uid |-> Pending]

Step ==
    {"idle", "read", "count", "email", "remote", "write", "commit", "revert"}

Job ==
    [at : Step, kind : Handler, actor : StaffId, target : StaffId,
     want : Change,
     seen : StaffRow,               \* the row as the handler read it
     uid : Uid \cup {None},         \* the account its remote call changed
     admins : SUBSET StaffId,       \* administrators in its snapshot
     row : StaffRow,                \* its target's row in its snapshot
     overtaken : BOOLEAN]           \* a transaction it conflicts with committed

Idle ==
    [at |-> "idle", kind |-> "update", actor |-> 1, target |-> 1,
     want |-> NoChange, seen |-> NoStaffRow, uid |-> None, admins |-> {},
     row |-> NoStaffRow, overtaken |-> FALSE]

Rows == {s \in StaffId : staff[s].state # "none"}
Administrator(r) == r.state = "live" /\ r.role = "admin" /\ r.active
ActiveAdmins == {s \in StaffId : Administrator(staff[s])}
EmailTaken(e, s) == \E t \in Rows \ {s} : staff[t].email = e

\* A request about a member: an invitation of a new one is about none.
About(j, s) == job[j].at # "idle" /\ job[j].kind # "create" /\ job[j].target = s
InFlight(s) == \E j \in Request : About(j, s)

\* What the email of a row becomes when the request names one, or none.
EmailAfter(j) ==
    IF job[j].want.email = None THEN job[j].seen.email ELSE job[j].want.email

Go(j, step) == job' = [job EXCEPT ![j].at = step]
Finish(j) == job' = [job EXCEPT ![j] = Idle]
-----------------------------------------------------------------------------
(* Checks *)

\* authenticate, requirePermission: the row of the token's account, deleted or
\* not, must be active; all handlers but the profile are for administrators.
\* The handler of updateProfile works on the row read here.
Accept(j, kind, actor, target, want) ==
    LET me == staff[actor] IN
    /\ job[j] = Idle
    /\ me.uid # Pending /\ account[me.uid] # None
    /\ me.active
    /\ kind # "profile" => me.role = "admin"
    /\ kind \in {"create", "profile"} => target = actor
    /\ kind \in {"create", "profile"} => want.email # None
    /\ job' = [job EXCEPT
                 ![j] = [Idle EXCEPT
                   !.at = IF kind \in {"create", "profile"} THEN "email" ELSE "read",
                   !.kind = kind, !.actor = actor, !.target = target,
                   !.want = IF kind \in {"create", "update", "profile"} THEN want
                            ELSE NoChange,
                   !.seen = IF kind = "profile" THEN me ELSE NoStaffRow]]
    /\ crossed' = IF kind # "create" /\ InFlight(target) THEN crossed \cup {target}
                  ELSE crossed
    /\ UNCHANGED <<staff, account, slipped, broken>>

Loses(kind, want) ==
    \/ kind \in {"delete", "toggle"}
    \/ kind = "update" /\ (want.role \notin {None, "admin"} \/ want.active = FALSE)

\* Does the request take an administrator away, as far as its handler saw?
NeedsGuard(kind, want, row) == Administrator(row) /\ Loses(kind, want)

Guarded(j) == NeedsGuard(job[j].kind, job[j].want, job[j].seen)

AfterChecks(kind) ==
    CASE kind = "update" -> "email"
      [] kind \in {"delete", "resend"} -> "remote"
      [] kind = "toggle" -> "write"

\* The row is read, and refused if it is gone or the actor's own.
ReadTarget(j) ==
    LET s == job[j].target
        row == staff[s]
        own == s = job[j].actor
        kind == job[j].kind
    IN /\ job[j].at = "read"
       /\ IF \/ row.state # "live"
             \/ kind = "delete" /\ own
             \/ kind = "toggle" /\ own /\ row.active
          THEN Finish(j)
          ELSE job' = [job EXCEPT
                         ![j].seen = row,
                         ![j].at = IF NeedsGuard(kind, job[j].want, row)
                                   THEN "count" ELSE AfterChecks(kind)]
       /\ UNCHANGED <<staff, account, slipped, broken, crossed>>

\* assertNotLastActiveAdmin, on what is committed now.
CountOthers(j) ==
    /\ job[j].at = "count"
    /\ IF ActiveAdmins \ {job[j].target} = {} THEN Finish(j)
       ELSE Go(j, AfterChecks(job[j].kind))
    /\ UNCHANGED <<staff, account, slipped, broken, crossed>>

\* The new email must be free, also among the rows that are deleted.
CheckEmail(j) ==
    LET e == job[j].want.email
        create == job[j].kind = "create"
    IN /\ job[j].at = "email"
       /\ IF create THEN
             \/ EmailTaken(e, 0) /\ Finish(j)
             \/ ~EmailTaken(e, 0) /\ (Go(j, "remote") \/ Go(j, "write"))
          ELSE IF e \in {None, job[j].seen.email} THEN Go(j, "write")
          ELSE IF EmailTaken(e, job[j].target) THEN Finish(j)
          ELSE IF job[j].seen.uid # Pending THEN Go(j, "remote")
          ELSE Go(j, "write")
       /\ UNCHANGED <<staff, account, slipped, broken, crossed>>

-----------------------------------------------------------------------------
(* The authentication service *)

EmailFree(e) == \A u \in Uid : account[u] # e

\* The service gives the account another email, or refuses: then the request
\* ends with the row as it was.
MoveEmail(j) ==
    LET u == job[j].seen.uid
        e == job[j].want.email
    IN /\ job[j].at = "remote" /\ job[j].kind \in {"update", "profile"}
       /\ \/ /\ account[u] # None /\ EmailFree(e)
             /\ job[j].kind = "profile" => account[u] = job[j].seen.email
             /\ account' = [account EXCEPT ![u] = e]
             /\ job' = [job EXCEPT ![j].uid = u, ![j].at = "write"]
          \/ Finish(j) /\ UNCHANGED account
       /\ UNCHANGED <<staff, slipped, broken, crossed>>

\* The account is deleted before the row; when the service fails, or the
\* request asks to keep the account, the row is deleted all the same.
DeleteAccount(j) ==
    LET u == job[j].seen.uid IN
    /\ job[j].at = "remote" /\ job[j].kind = "delete"
    /\ \/ /\ u # Pending /\ account[u] # None
          /\ account' = [account EXCEPT ![u] = None]
       \/ UNCHANGED account
    /\ Go(j, "write")
    /\ UNCHANGED <<staff, slipped, broken, crossed>>

\* An invitation creates an account, with an id never used before.
FreshUid ==
    {u \in Uid : /\ account[u] = None /\ u > Initial
                 /\ \A s \in StaffId : staff[s].uid # u
                 /\ \A k \in Request : job[k].uid # u}

Invite(j, u, e) ==
    /\ u \in FreshUid
    /\ EmailFree(e)
    /\ account' = [account EXCEPT ![u] = e]
    /\ job' = [job EXCEPT ![j].uid = u, ![j].at = "write"]

InviteNew(j) ==
    /\ job[j].at = "remote" /\ job[j].kind = "create"
    /\ \/ \E u \in Uid : Invite(j, u, job[j].want.email)
       \/ Finish(j) /\ UNCHANGED account
    /\ UNCHANGED <<staff, slipped, broken, crossed>>

\* A member with an account, or whose email has one, gets a password mail.
InviteAgain(j) ==
    /\ job[j].at = "remote" /\ job[j].kind = "resend"
    /\ \/ job[j].seen.uid = Pending /\ \E u \in Uid : Invite(j, u, job[j].seen.email)
       \/ Finish(j) /\ UNCHANGED account
    /\ UNCHANGED <<staff, slipped, broken, crossed>>

-----------------------------------------------------------------------------
(* The row *)

Updated(row, want) ==
    [row EXCEPT !.role = IF want.role = None THEN @ ELSE want.role,
                !.active = IF want.active = None THEN @ ELSE want.active,
                !.email = IF want.email = None THEN @ ELSE want.email]

\* What the handler of j writes over the row: fields of its request, or fields
\* computed from the row it read.
Written(j, row) ==
    CASE job[j].kind = "update" -> Updated(row, job[j].want)
      [] job[j].kind = "profile" -> [row EXCEPT !.email = EmailAfter(j)]
      [] job[j].kind = "delete" -> [row EXCEPT !.state = "deleted", !.active = FALSE]
      [] job[j].kind = "toggle" -> [row EXCEPT !.active = ~job[j].seen.active]
      [] job[j].kind = "resend" -> [row EXCEPT !.uid = job[j].uid]

\* The unique index on email.
Fits(s, row) == row.email = staff[s].email \/ ~EmailTaken(row.email, s)

\* One UPDATE by id, whatever the row has become since it was read: of two
\* invitations sent for one placeholder the row keeps the account written last.
WriteRow(j) ==
    LET s == job[j].target
        row == Written(j, staff[s])
    IN /\ job[j].at = "write" /\ job[j].kind # "create" /\ ~Guarded(j)
       /\ Fits(s, row)
       /\ staff' = [staff EXCEPT ![s] = row]
       /\ slipped' = (slipped \/ (Administrator(staff[s]) /\ ~Administrator(row)))
       /\ broken' = broken \cup ({staff[s].uid} \ {Pending, row.uid})
       /\ Finish(j)
       /\ UNCHANGED <<account, crossed>>

\* The new row; without an invitation its uid is a placeholder.
InsertRow(j, s) ==
    /\ job[j].at = "write" /\ job[j].kind = "create"
    /\ s \in StaffId \ Rows /\ \A t \in StaffId \ Rows : s <= t
    /\ ~EmailTaken(job[j].want.email, s)
    /\ staff' = [staff EXCEPT
                   ![s] = [state |-> "live", active |-> TRUE,
                           role |-> IF job[j].want.role = None THEN "viewer"
                                    ELSE job[j].want.role,
                           email |-> job[j].want.email,
                           uid |-> IF job[j].uid = None THEN Pending
                                   ELSE job[j].uid]]
    /\ Finish(j)
    /\ UNCHANGED <<account, slipped, broken, crossed>>

\* updateStaffGuardingLastAdmin: a serializable transaction writes the row and
\* counts the administrators of its snapshot.
BeginGuarded(j) ==
    /\ job[j].at = "write" /\ Guarded(j)
    /\ job' = [job EXCEPT ![j].at = "commit", ![j].admins = ActiveAdmins,
                          ![j].row = staff[job[j].target]]
    /\ UNCHANGED <<staff, account, slipped, broken, crossed>>

\* Variant: the transaction does not count again, the check before it decides.
MayCommitUncounted(j) == job[j].row = staff[job[j].target]

\* It commits if its count leaves one, if nobody wrote its row since and if no
\* other transaction of this kind committed since: they all read the rows that
\* the others write.
MayCommit(j) ==
    /\ job[j].admins \ {job[j].target} # {}
    /\ ~job[j].overtaken
    /\ job[j].row = staff[job[j].target]

CommitGuarded(j) ==
    LET s == job[j].target
        row == Written(j, staff[s])
    IN /\ job[j].at = "commit"
       /\ MayCommit(j)
       /\ Fits(s, row)
       /\ staff' = [staff EXCEPT ![s] = row]
       /\ job' = [k \in Request |->
                    IF k = j THEN Idle
                    ELSE [job[k] EXCEPT !.overtaken = job[k].at = "commit"]]
       /\ UNCHANGED <<account, slipped, broken, crossed>>

\* After a failed write only the requests that moved or created an account have
\* a handler that undoes it.
Undoes(kind) == kind \in {"create", "update", "profile"}

Fail(j) ==
    IF Undoes(job[j].kind) /\ job[j].uid # None THEN Go(j, "revert") ELSE Finish(j)

\* The accounts that a request has touched, or may have touched.
Touched(j) ==
    ({job[j].uid} \ {None})
      \cup (IF job[j].kind = "delete" THEN {job[j].seen.uid} \ {Pending} ELSE {})

\* The database refuses a write: the index, the count, or a conflict.
Refused(j) ==
    LET s == job[j].target IN
    \/ /\ job[j].at = "write" /\ job[j].kind = "create"
       /\ EmailTaken(job[j].want.email, 0)
    \/ /\ job[j].at = "write" /\ job[j].kind # "create"
       /\ ~Fits(s, Written(j, staff[s]))
    \/ /\ job[j].at = "commit"
       /\ ~MayCommit(j) \/ ~Fits(s, Written(j, staff[s]))

\* A write is refused, or lost with the connection: nothing brings back the
\* account of a member whose deletion failed.
FailWrite(j) ==
    /\ Fail(j)
    /\ broken' = IF Undoes(job[j].kind) THEN broken ELSE broken \cup Touched(j)
    /\ UNCHANGED <<staff, account, slipped, crossed>>

RefuseWrite(j) == Refused(j) /\ FailWrite(j)
LoseWrite(j) == job[j].at \in {"write", "commit"} /\ FailWrite(j)

\* Variant: nothing is undone.
CompensateNever(j) ==
    /\ job[j].at = "revert"
    /\ Finish(j)
    /\ UNCHANGED <<staff, account, slipped, broken, crossed>>

\* The compensation: a created account is deleted, a moved email moved back to
\* the one the handler read.  It is tried once.
Compensate(j) ==
    LET u == job[j].uid IN
    /\ job[j].at = "revert"
    /\ \/ /\ job[j].kind = "create"
          /\ account' = [account EXCEPT ![u] = None]
          /\ UNCHANGED broken
       \/ /\ job[j].kind # "create" /\ account[u] # None
          /\ EmailFree(job[j].seen.email)
          /\ account' = [account EXCEPT ![u] = job[j].seen.email]
          /\ UNCHANGED broken
       \/ broken' = broken \cup {u} /\ UNCHANGED account
    /\ Finish(j)
    /\ UNCHANGED <<staff, slipped, crossed>>

\* The process dies and the request with it.
Crash(j) ==
    /\ job[j].at # "idle"
    /\ Finish(j)
    /\ broken' = broken \cup Touched(j)
    /\ UNCHANGED <<staff, account, slipped, crossed>>

-----------------------------------------------------------------------------
Init ==
    /\ \E role \in [1 .. Initial -> InitialRole],
          active \in [1 .. Initial -> BOOLEAN], email \in [1 .. Initial -> Email] :
         /\ \A s, t \in 1 .. Initial : s # t => email[s] # email[t]
         /\ staff = [s \in StaffId |->
                       IF s <= Initial
                       THEN [state |-> "live", role |-> role[s],
                             active |-> active[s], email |-> email[s], uid |-> s]
                       ELSE NoStaffRow]
         /\ account = [u \in Uid |-> IF u <= Initial THEN email[u] ELSE None]
    /\ ActiveAdmins # {}
    /\ job = [j \in Request |-> Idle]
    /\ slipped = FALSE
    /\ broken = {}
    /\ crossed = {}

Next ==
    \E j \in Request :
      \/ \E kind \in Kind, actor, target \in StaffId, want \in Want :
           Accept(j, kind, actor, target, want)
      \/ ReadTarget(j) \/ CountOthers(j) \/ CheckEmail(j)
      \/ MoveEmail(j) \/ DeleteAccount(j) \/ InviteNew(j) \/ InviteAgain(j)
      \/ WriteRow(j) \/ BeginGuarded(j) \/ CommitGuarded(j)
      \/ \E s \in StaffId : InsertRow(j, s)
      \/ RefuseWrite(j) \/ LoseWrite(j) \/ Compensate(j) \/ Crash(j)

Spec == Init /\ [][Next]_vars
-----------------------------------------------------------------------------
(* Properties *)

\* Rows, accounts and requests have their shapes; the uid of a row is an
\* account's id or the placeholder, never the absence of an answer.
TypeOK ==
    /\ staff \in [StaffId -> StaffRow]
    /\ account \in [Uid -> Email \cup {None}]
    /\ job \in [Request -> Job]
    /\ slipped \in BOOLEAN
    /\ broken \subseteq Uid
    /\ crossed \subseteq StaffId

\* Two administrators who demote, disable or delete each other at the same time
\* do not both succeed (#269): as long as every write that took an administrator
\* away went through the guarded transaction, one is left.
AdminRemains == ~slipped => ActiveAdmins # {}

\* No account without a staff row (#173): an account belongs to a row, or to a
\* request that has still to write it, or its compensation failed or died, or two
\* invitations for one placeholder overlapped and the row kept the other's.
NoOrphanAccount ==
    \A u \in Uid :
      account[u] # None =>
        \/ \E s \in StaffId : staff[s].uid = u
        \/ \E j \in Request : job[j].uid = u
        \/ u \in broken

\* When no request about a member is under way, the member has the same email in
\* both systems (#233), unless two requests about that member overlapped, or a
\* compensation failed or died, or a deletion lost its account and was refused.
\* Requests about other members may overlap as they like.
EmailsAgree ==
    \A s \in StaffId \ crossed :
      LET u == staff[s].uid IN
      staff[s].state = "live" /\ u # Pending /\ ~InFlight(s) /\ u \notin broken
      => account[u] = staff[s].email

-----------------------------------------------------------------------------
(* What comments of the code claim, and the code does not keep *)

\* "prevents the operations that lose the last active admin": staffController.ts.
AlwaysAnAdmin == ActiveAdmins # {}
=============================================================================
