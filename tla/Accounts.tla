------------------------------ MODULE Accounts ------------------------------
(***************************************************************************)
(* Tenants and their people: createSupportTenantProvision, createStaff-     *)
(* Account, assignExistingAuthUserToBusiness, updateStaffAccount and        *)
(* deleteStaffAccount (lib/data.ts).  Logins live in the auth service,      *)
(* profiles, access rows and businesses in the database; no transaction     *)
(* spans two statements, so every statement is an action and each handler   *)
(* undoes by hand what it wants undone.                                     *)
(*                                                                         *)
(* An owner's statements on profiles and access rows run under the row      *)
(* policies of the database; those of the support desk, and everything done *)
(* to logins, do not.  Deleting a login deletes its profile and access      *)
(* rows.  Only the rows of owners are told apart (`wide`).  A user is known  *)
(* by the place of the login in the order they were made: an e-mail may be  *)
(* given a login again after it was deleted.                                *)
(***************************************************************************)
EXTENDS Integers, Sequences, FiniteSets

CONSTANTS
  Hands,        \* requests handled at one time
  Emails,
  Businesses,
  Home,         \* the business there is at the start
  Boss,         \* the e-mail of its owner
  MaxLogins,    \* bound: logins ever made
  MaxRequests,  \* bound: requests
  MaxMishaps    \* bound: failed statements and dead requests

ASSUME AccountsAssumption ==
  /\ Home \in Businesses /\ Boss \in Emails
  /\ MaxLogins \in Nat \ {0} /\ MaxRequests \in Nat /\ MaxMishaps \in Nat

VARIABLES
  emails,      \* emails[u]: the e-mail login u was made with
  alive,       \* logins that exist
  role,        \* role[u] in profiles
  access,      \* rows of staff_branch_access
  businesses,  \* rows of businesses
  work,        \* work[h]: what request h is doing
  opened,      \* history: businesses whose provision succeeded
  crossed,     \* history: e-mails two requests worked on at one time, or checked by a failed read
  shaken,      \* history: businesses whose owner may have been taken away unseen
  refused,     \* history: logins whose access row was refused to a person's request
  strandedLogins,   \* history: logins no request is left to finish or to take back
  strandedTenants,  \* history: businesses no request is left to open or to take back
  requests, mishaps

tables  == <<emails, alive, role, access, businesses>>
stranded == <<strandedLogins, strandedTenants>>
history == <<opened, crossed, shaken, refused, stranded>>
vars    == <<tables, work, history, requests, mishaps>>

Users  == 1..MaxLogins
Nobody == 0
Roles  == {"owner", "staff"}
Row    == [user : Users, biz : Businesses, wide : BOOLEAN]
Work   == [op : {"none", "provision", "create", "assign", "update", "delete"},
           at : {"idle", "branch", "list", "check", "login", "reset", "profile", "unlogin",
                 "clear", "bind", "count", "remove", "unbranch", "unbusiness"},
           biz : Businesses, by : Users \cup {Nobody}, email : Emails,
           user : Users \cup {Nobody}, role : Roles, fresh : BOOLEAN]

TypeOK ==
  /\ emails \in Seq(Emails) /\ Len(emails) <= MaxLogins
  /\ alive \subseteq DOMAIN emails
  /\ role \in [Users -> Roles \cup {"none"}]
  /\ access \subseteq Row /\ \A r \in access : r.user \in alive
  /\ businesses \subseteq Businesses /\ opened \subseteq Businesses /\ shaken \subseteq Businesses
  /\ work \in [Hands -> Work]
  /\ crossed \subseteq Emails /\ refused \subseteq Users
  /\ strandedLogins \subseteq Users /\ strandedTenants \subseteq Businesses
  /\ requests \in 0..MaxRequests /\ mishaps \in 0..MaxMishaps

Idle == [op |-> "none", at |-> "idle", biz |-> Home, by |-> Nobody, email |-> Boss,
         user |-> Nobody, role |-> "staff", fresh |-> FALSE]

Init ==
  /\ emails = <<Boss>> /\ alive = {1}
  /\ role = [u \in Users |-> IF u = 1 THEN "owner" ELSE "none"]
  /\ access = {[user |-> 1, biz |-> Home, wide |-> TRUE]}
  /\ businesses = {Home} /\ opened = {Home}
  /\ work = [h \in Hands |-> Idle]
  /\ crossed = {} /\ shaken = {} /\ refused = {}
  /\ strandedLogins = {} /\ strandedTenants = {}
  /\ requests = 0 /\ mishaps = 0

-----------------------------------------------------------------------------
(* State formulae. *)

RowsOf(u)    == {r \in access : r.user = u}
Tenants(u)   == {r.biz : r \in RowsOf(u)}
Owner(u, b)  == role[u] = "owner" /\ [user |-> u, biz |-> b, wide |-> TRUE] \in access
OwnersOf(b)  == {u \in alive : b \in Tenants(u) /\ role[u] = "owner"}
LoginOf(e)   == {u \in alive : emails[u] = e}
Busy         == {h \in Hands : work[h].at # "idle"}

\* Row policies: what the owner who sent request h may see and change.
MayManage(h) == work[h].by # Nobody => Owner(work[h].by, work[h].biz)
Visible(h)   == {r \in RowsOf(work[h].user) :
                   r.user = work[h].by \/ Owner(work[h].by, r.biz)}
MayEdit(h)   == \/ work[h].user = work[h].by
                \/ role[work[h].by] = "owner" /\ Tenants(work[h].by) \cap Tenants(work[h].user) # {}

-----------------------------------------------------------------------------
(* Requests. *)

At(h, step)   == work[h].at = step
Goto(h, step) == work' = [work EXCEPT ![h].at = step]
Finish(h)     == work' = [work EXCEPT ![h] = Idle]
Mishap == mishaps < MaxMishaps /\ mishaps' = mishaps + 1
Smooth == UNCHANGED mishaps
NoHistory == UNCHANGED <<history, requests>>

\* What a request crosses when it comes in.  The row policies hide from it what
\* else the person it changes or deletes is bound to.
Met(w)       == {g \in Busy : work[g].biz = w.biz \/ work[g].email = w.email}
EditsSelf(w) == w.op \in {"create", "assign", "update"} /\ w.by \in LoginOf(w.email)
Hidden(w)    == IF w.op \in {"update", "delete"} THEN Tenants(w.user) \ {w.biz} ELSE {}

Accept(h, w) ==
  /\ At(h, "idle") /\ requests < MaxRequests /\ requests' = requests + 1
  /\ work' = [work EXCEPT ![h] = w]
  /\ crossed' = crossed \cup {e \in {w.email} : \E g \in Busy : work[g].email = e}
  /\ shaken' = shaken \cup {work[g].biz : g \in Met(w)}
                      \cup {b \in {w.biz} : Met(w) # {} \/ EditsSelf(w)}
                      \cup Hidden(w)
  /\ UNCHANGED <<opened, refused, stranded, mishaps>>

\* The roles page is for owners; it lists the people of the owner's business.
Callers(b) == {u \in alive : Owner(u, b)}

AskForPerson(h) ==
  \E b \in businesses, op \in {"create", "assign"}, e \in Emails, r \in Roles :
    \E u \in Callers(b) :
      /\ Accept(h, [Idle EXCEPT !.op = op, !.at = "list", !.biz = b, !.by = u, !.email = e, !.role = r])
      /\ UNCHANGED tables

AskForChange(h) ==
  \E b \in businesses, op \in {"update", "delete"}, r \in Roles :
    \E u \in Callers(b), p \in alive :
      /\ b \in Tenants(p)
      /\ Accept(h, [Idle EXCEPT !.op = op, !.at = "check", !.biz = b, !.by = u,
                                !.email = emails[p], !.user = p, !.role = r])
      /\ UNCHANGED tables

\* createSupportTenantProvision starts with the row of the business.
AskForTenant(h) ==
  \E b \in Businesses \ businesses, e \in Emails :
    /\ Accept(h, [Idle EXCEPT !.op = "provision", !.at = "branch", !.biz = b, !.email = e, !.role = "owner"])
    /\ businesses' = businesses \cup {b}
    /\ UNCHANGED <<emails, alive, role, access>>

\* A refused provision takes back what it made; nobody else undoes more than
\* a login it has just made.
Refuse(h) ==
  IF work[h].op = "provision" THEN Goto(h, IF work[h].fresh THEN "unlogin" ELSE "unbranch")
                              ELSE Finish(h)

InsertBranch(h) ==
  /\ At(h, "branch")
  /\ \/ Smooth /\ Goto(h, "list")
     \/ Mishap /\ Refuse(h)
  /\ UNCHANGED tables /\ NoHistory

-----------------------------------------------------------------------------
(* Finding or making the login.  One page of logins is listed, so one that   *)
(* exists may not be found.                                                  *)

ListUsers(h) ==
  /\ At(h, "list")
  /\ \/ Mishap /\ Refuse(h)
     \/ \E found \in LoginOf(work[h].email) \cup {Nobody} :
          /\ Smooth
          /\ IF found # Nobody THEN work' = [work EXCEPT ![h].at = "check", ![h].user = found]
             ELSE IF work[h].op = "assign" THEN Refuse(h)
             ELSE Goto(h, "login")
  /\ UNCHANGED tables /\ NoHistory

\* Access rows are read with the service key: all of them are seen.  A read
\* that fails counts as no rows.
\* mutant: a person of another business is taken over
CheckTenantNever(h) ==
  /\ At(h, "check") /\ work[h].op \in {"provision", "create", "assign"} /\ Smooth
  /\ Goto(h, IF work[h].op = "create" THEN "reset" ELSE "profile")
  /\ UNCHANGED tables /\ NoHistory
CheckTenant(h) ==
  /\ At(h, "check") /\ work[h].op \in {"provision", "create", "assign"}
  /\ LET next == IF work[h].op = "create" THEN "reset" ELSE "profile"
     IN \/ /\ Smooth /\ UNCHANGED <<crossed, shaken>>
           /\ IF Tenants(work[h].user) \subseteq {work[h].biz} THEN Goto(h, next) ELSE Refuse(h)
        \/ Mishap /\ Goto(h, next) /\ crossed' = crossed \cup {work[h].email}
           /\ shaken' = shaken \cup Tenants(work[h].user)
  /\ UNCHANGED <<tables, opened, refused, stranded, requests>>

\* An e-mail has one login.  A trigger gives a new login the profile of a waiter.
MakeLogin(email) ==
  /\ LoginOf(email) = {} /\ Len(emails) < MaxLogins
  /\ emails' = Append(emails, email)
  /\ alive' = alive \cup {Len(emails) + 1}
  /\ role' = [role EXCEPT ![Len(emails) + 1] = "staff"]

\* When the answer is lost the login is there, and the request does not know it.
CreateUser(h) ==
  /\ At(h, "login")
  /\ \/ /\ MakeLogin(work[h].email) /\ Smooth
        /\ work' = [work EXCEPT ![h].at = "profile", ![h].user = Len(emails) + 1, ![h].fresh = TRUE]
        /\ UNCHANGED strandedLogins
     \/ /\ MakeLogin(work[h].email) /\ Mishap /\ Refuse(h)
        /\ strandedLogins' = strandedLogins \cup {Len(emails) + 1}
     \/ /\ (LoginOf(work[h].email) # {} /\ Smooth) \/ Mishap
        /\ Refuse(h) /\ UNCHANGED <<emails, alive, role, strandedLogins>>
  /\ UNCHANGED <<access, businesses, opened, crossed, shaken, refused, strandedTenants, requests>>

\* A login that was found gets the new password and name.
ResetUser(h) ==
  /\ At(h, "reset")
  /\ \/ work[h].user \in alive /\ Smooth /\ Goto(h, "profile")
     \/ work[h].user \notin alive /\ Smooth /\ Refuse(h)
     \/ Mishap /\ Refuse(h)
  /\ UNCHANGED tables /\ NoHistory

-----------------------------------------------------------------------------
(* Profile and access row. *)

\* The upsert of create, assign and provision uses the service key; the
\* update of updateStaffAccount changes no row, without an error, when the
\* policy hides it.  Only a login made by the request is taken back.
WriteProfile(h) ==
  /\ At(h, "profile")
  /\ LET there == work[h].user \in alive
         failed == IF work[h].op = "create" /\ work[h].fresh THEN Goto(h, "unlogin") ELSE Refuse(h)
     IN \/ /\ work[h].op # "update" /\ there /\ Smooth /\ Goto(h, "clear")
           /\ role' = [role EXCEPT ![work[h].user] = work[h].role]
        \/ /\ work[h].op # "update" /\ ~there /\ Smooth /\ failed /\ UNCHANGED role
        \/ /\ work[h].op = "update" /\ Smooth /\ Goto(h, "clear")
           /\ role' = IF there /\ MayEdit(h) THEN [role EXCEPT ![work[h].user] = work[h].role] ELSE role
        \/ Mishap /\ failed /\ UNCHANGED role
  /\ UNCHANGED <<emails, alive, access, businesses>> /\ NoHistory

\* Only updateStaffAccount looks at the error of the delete.
ClearAccess(h) ==
  /\ At(h, "clear")
  /\ \/ /\ Smooth /\ Goto(h, "bind")
        /\ access' = IF MayManage(h) THEN {r \in access : ~(r.user = work[h].user /\ r.biz = work[h].biz)}
                                     ELSE access
     \/ /\ Mishap /\ UNCHANGED access
        /\ IF work[h].op = "update" THEN Refuse(h) ELSE Goto(h, "bind")
  /\ UNCHANGED <<emails, alive, role, businesses>> /\ NoHistory

\* One primary row per person and business; the policy asks for the caller's
\* own access row, which ClearAccess has deleted when owners edit themselves.
Bindable(h) == /\ work[h].user \in alive /\ work[h].biz \in businesses
               /\ work[h].biz \notin Tenants(work[h].user) /\ MayManage(h)

InsertAccess(h) ==
  /\ At(h, "bind")
  /\ \/ /\ Bindable(h) /\ Smooth /\ Finish(h)
        /\ access' = access \cup {[user |-> work[h].user, biz |-> work[h].biz, wide |-> work[h].role = "owner"]}
        /\ opened' = IF work[h].op = "provision" THEN opened \cup {work[h].biz} ELSE opened
        /\ UNCHANGED refused
     \/ /\ \/ ~Bindable(h) /\ Smooth
           \/ Mishap
        /\ Refuse(h) /\ UNCHANGED <<access, opened>>
        /\ refused' = IF work[h].op = "provision" THEN refused ELSE refused \cup {work[h].user}
  /\ UNCHANGED <<emails, alive, role, businesses, crossed, shaken, stranded, requests>>

-----------------------------------------------------------------------------
(* updateStaffAccount and deleteStaffAccount. *)

CheckMember(h) ==
  /\ At(h, "check") /\ work[h].op = "update" /\ Smooth
  /\ IF \E r \in Visible(h) : r.biz = work[h].biz THEN Goto(h, "reset") ELSE Finish(h)
  /\ UNCHANGED tables /\ NoHistory

CheckDeletable(h) ==
  /\ At(h, "check") /\ work[h].op = "delete" /\ Smooth
  /\ IF {r.biz : r \in Visible(h)} = {work[h].biz} THEN Goto(h, "count") ELSE Finish(h)
  /\ UNCHANGED tables /\ NoHistory

\* What the caller reads of the person and of the owners goes through the row
\* policies; one who has been made a manager still reads the profile.
\* mutant: the last owner may be deleted
CountOwnersNever(h) ==
  /\ At(h, "count") /\ Smooth /\ Goto(h, "remove")
  /\ UNCHANGED tables /\ NoHistory
CountOwners(h) ==
  /\ At(h, "count") /\ Smooth
  /\ LET last == role[work[h].user] = "owner" /\ (MayManage(h) => Cardinality(OwnersOf(work[h].biz)) <= 1)
     IN \/ work[h].user \in alive /\ work[h].by \in alive /\ ~last /\ Goto(h, "remove")
        \/ (work[h].user \in alive /\ MayEdit(h) => last) /\ Finish(h)
  /\ UNCHANGED tables /\ NoHistory

\* profiles and access rows go with the login.
\* mutant: the access rows stay behind
DeleteLoginOnly(u) ==
  /\ alive' = alive \ {u}
  /\ role' = IF u = Nobody THEN role ELSE [role EXCEPT ![u] = "none"]
  /\ UNCHANGED access
DeleteLogin(u) ==
  /\ alive' = alive \ {u}
  /\ role' = IF u = Nobody THEN role ELSE [role EXCEPT ![u] = "none"]
  /\ access' = {r \in access : r.user # u}

RemoveUser(h) ==
  /\ At(h, "remove") /\ Finish(h)
  /\ \/ Smooth /\ DeleteLogin(work[h].user)
     \/ Mishap /\ UNCHANGED <<alive, role, access>>
  /\ UNCHANGED <<emails, businesses>> /\ NoHistory

-----------------------------------------------------------------------------
(* Undoing.  No result is looked at. *)

AfterLogin(h) == IF work[h].op = "provision" THEN Goto(h, "unbranch") ELSE Finish(h)

\* mutant: the login that was made stays
UndoLoginNever(h) ==
  /\ At(h, "unlogin") /\ AfterLogin(h) /\ Smooth
  /\ UNCHANGED tables /\ NoHistory
UndoLogin(h) ==
  /\ At(h, "unlogin") /\ AfterLogin(h)
  /\ \/ Smooth /\ DeleteLogin(work[h].user) /\ UNCHANGED strandedLogins
     \/ /\ Mishap /\ UNCHANGED <<alive, role, access>>
        /\ strandedLogins' = strandedLogins \cup {work[h].user}
  /\ UNCHANGED <<emails, businesses, opened, crossed, shaken, refused, strandedTenants, requests>>

\* Branches go with their business in any case.
UndoBranch(h) ==
  /\ At(h, "unbranch") /\ Goto(h, "unbusiness")
  /\ Smooth \/ Mishap
  /\ UNCHANGED tables /\ NoHistory

\* Deleting the business deletes its branches and access rows.
UndoBusiness(h) ==
  /\ At(h, "unbusiness") /\ Finish(h)
  /\ \/ /\ Smooth /\ businesses' = businesses \ {work[h].biz} /\ UNCHANGED strandedTenants
        /\ access' = {r \in access : r.biz # work[h].biz}
     \/ /\ Mishap /\ UNCHANGED <<businesses, access>>
        /\ strandedTenants' = strandedTenants \cup {work[h].biz}
  /\ UNCHANGED <<emails, alive, role, opened, crossed, shaken, refused, strandedLogins, requests>>

\* The login it was working on is stranded if it enters nothing, the business
\* if it was not opened yet.
Die(h) ==
  /\ ~At(h, "idle") /\ Mishap /\ Finish(h)
  /\ strandedLogins' = strandedLogins \cup {u \in {work[h].user} \cap alive : RowsOf(u) = {}}
  /\ strandedTenants' = strandedTenants \cup ({work[h].biz} \ opened)
  /\ UNCHANGED <<tables, opened, crossed, shaken, refused, requests>>

-----------------------------------------------------------------------------
Handle(h) ==
  \/ AskForPerson(h) \/ AskForChange(h) \/ AskForTenant(h)
  \/ InsertBranch(h) \/ ListUsers(h) \/ CheckTenant(h) \/ CreateUser(h) \/ ResetUser(h)
  \/ WriteProfile(h) \/ ClearAccess(h) \/ InsertAccess(h)
  \/ CheckMember(h) \/ CheckDeletable(h) \/ CountOwners(h) \/ RemoveUser(h)
  \/ UndoLogin(h) \/ UndoBranch(h) \/ UndoBusiness(h) \/ Die(h)

Next == \E h \in Hands : Handle(h)
Spec == Init /\ [][Next]_vars

-----------------------------------------------------------------------------
(* Properties. *)

\* Nobody works for two businesses (data.ts:9153, "tenant guvenligi"), unless
\* two requests bound the e-mail at one time (check and insert are apart) or
\* the check read nothing because it failed.
OneTenant ==
  \A u \in alive : Cardinality(Tenants(u)) <= 1 \/ emails[u] \in crossed

\* A business that was opened keeps an owner (data.ts:9077, "Son patron
\* kullaniciyi silemezsin"), whatever fails half way, but for these: an owner
\* edited himself; two requests met in the business, or over a person, while
\* one of them worked for it; another business took its person over because
\* the check read nothing when it failed; one who is bound to two businesses
\* was changed or deleted by the other.  An owner whose promotion broke off
\* counts, here as in the code, though the row policies know no such owner.
KeepsOwner ==
  \A b \in opened \cap businesses : OwnersOf(b) # {} \/ b \in shaken

\* What a refused request made is gone: no login that can enter nothing, no
\* business without its provision done.  The exceptions are single logins and
\* businesses: one whose access row was refused last, which nothing takes back;
\* one whose own request died over it, whose undoing failed, or that was made
\* though the auth service reported an error.
NoLeftovers ==
  /\ \A u \in alive : \/ RowsOf(u) # {}
                      \/ u \in refused \cup strandedLogins
                      \/ \E h \in Busy : work[h].user = u
  /\ \A b \in businesses : b \in opened \cup strandedTenants \/ \E h \in Busy : work[h].biz = b
=============================================================================
