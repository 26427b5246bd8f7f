---------------------------- MODULE AccountsProofs ---------------------------
(***************************************************************************)
(* What holds of tenants and their people for any number of businesses,     *)
(* e-mail addresses, requests at one time and failures.                     *)
(***************************************************************************)
EXTENDS Accounts, FiniteSetTheorems, SequenceTheorems, TLAPS

-----------------------------------------------------------------------------
(* Types. *)

Steps == {"idle", "branch", "list", "check", "login", "reset", "profile", "unlogin",
          "clear", "bind", "count", "remove", "unbranch", "unbusiness"}

To(h, step) == [work[h] EXCEPT !.at = step]

\* The request made a login.
Made(w) == w.fresh = TRUE

LEMMA IdleType ==
  Idle \in Work /\ Idle.at = "idle" /\ Idle.op = "none" /\ Idle.user = Nobody /\ ~Made(Idle)
<1>1. Idle.fresh = FALSE
  BY DEF Idle
<1> QED BY <1>1, AccountsAssumption DEF Idle, Work, Roles, Nobody, Made

LEMMA Moves ==
  ASSUME TypeOK, NEW h \in Hands, NEW step \in Steps
  PROVE  /\ To(h, step) \in Work /\ To(h, step).at = step
         /\ To(h, step).op = work[h].op /\ To(h, step).biz = work[h].biz /\ To(h, step).by = work[h].by
         /\ To(h, step).email = work[h].email /\ To(h, step).user = work[h].user
         /\ To(h, step).role = work[h].role /\ To(h, step).fresh = work[h].fresh
         /\ Made(To(h, step)) <=> Made(work[h])
         /\ Goto(h, step) => work' = [work EXCEPT ![h] = To(h, step)]
<1>1. work[h] \in Work
  BY DEF TypeOK
<1>2. Goto(h, step) => work' = [work EXCEPT ![h] = To(h, step)]
  BY DEF Goto, To
<1>3. To(h, step).fresh = work[h].fresh
  BY <1>1 DEF To, Work
<1>4. Made(To(h, step)) <=> Made(work[h])
  BY <1>3, Zenon DEF Made
<1> QED BY <1>1, <1>2, <1>3, <1>4 DEF To, Work, Steps

LEMMA UsersType ==
  ASSUME TypeOK
  PROVE  /\ Len(emails) \in Nat /\ DOMAIN emails = 1..Len(emails) /\ DOMAIN emails \subseteq Users
         /\ \A u \in DOMAIN emails : emails[u] \in Emails
         /\ alive \subseteq DOMAIN emails /\ alive \subseteq Users /\ Nobody \notin Users /\ Nobody \notin alive
<1>1. emails \in Seq(Emails) /\ Len(emails) <= MaxLogins /\ MaxLogins \in Nat
  BY AccountsAssumption DEF TypeOK
<1>2. Len(emails) \in Nat /\ DOMAIN emails = 1..Len(emails) /\ \A u \in 1..Len(emails) : emails[u] \in Emails
  BY <1>1, LenProperties, ElementOfSeq
<1>3. DOMAIN emails \subseteq Users /\ Nobody \notin Users
  BY <1>1, <1>2 DEF Users, Nobody
<1> QED BY <1>2, <1>3 DEF TypeOK

LEMMA CountersType ==
  ASSUME TypeOK, Mishap \/ Smooth
  PROVE  mishaps' \in 0..MaxMishaps
BY AccountsAssumption DEF TypeOK, Mishap, Smooth

\* A person's access rows are a part of all access rows.
LEMMA RowsType ==
  ASSUME TypeOK
  PROVE  /\ \A u : Tenants(u) \subseteq Businesses
         /\ \A u : u \notin alive => Tenants(u) = {}
BY DEF TypeOK, Tenants, RowsOf, Row

-----------------------------------------------------------------------------
(* What a request may become. *)

\* The steps a request of each kind takes.
Shaped(w) ==
  /\ w.at = "idle" <=> w.op = "none"
  /\ w.at \in {"branch", "unbranch", "unbusiness"} => w.op = "provision"
  /\ w.at = "list" => w.op \in {"provision", "create", "assign"}
  /\ w.at = "login" => w.op \in {"provision", "create"}
  /\ w.at \in {"reset", "profile", "clear", "bind", "unlogin"} => w.op # "delete"
  /\ w.at \in {"count", "remove"} => w.op = "delete"
  /\ w.at \in {"check", "reset", "profile", "clear", "bind", "count", "remove"} => w.user # Nobody
  /\ w.at \in {"branch", "list", "check", "login"} => ~Made(w)
  /\ w.at = "unlogin" => Made(w)
  /\ Made(w) => w.user # Nobody

\* It goes on as the same request, or it ends.
Carries(h, w) ==
  \/ w = Idle
  \/ /\ w.at # "idle" /\ w.op = work[h].op /\ w.biz = work[h].biz /\ w.by = work[h].by
     /\ w.email = work[h].email /\ w.role = work[h].role

Becomes(h, w) ==
  /\ w \in Work /\ Shaped(w) /\ work' = [work EXCEPT ![h] = w] /\ Carries(h, w)

\* The steps at which its person has passed the check of tenants.
Trusted(w) ==
  \/ w.at \in {"reset", "profile", "clear", "bind"}
  \/ w.at = "check" /\ w.op = "update"

\* A request that may change what it knows of its person.
TakesUp(w) ==
  w.op \in {"update", "delete"} \/ w.at \in {"reset", "profile", "clear", "bind"} \/ Made(w)

\* The steps some steps come after.
After(h, step) ==
  /\ step = "clear" => At(h, "profile")
  /\ step = "bind" => At(h, "clear")
  /\ step = "remove" => At(h, "count")

\* Becomes w, which still works on the same login if it is trusted or takes it up.
GoesOn(h) ==
  \E w : /\ Becomes(h, w) /\ After(h, w.at)
         /\ w.user \in {work[h].user, Nobody}
         /\ Trusted(w) => Trusted(work[h]) /\ w.user = work[h].user
         /\ TakesUp(w) => TakesUp(work[h]) /\ w.user = work[h].user

LEMMA Ends ==
  ASSUME TypeOK, NEW h \in Hands, Finish(h)
  PROVE  Becomes(h, Idle) /\ ~Trusted(Idle) /\ ~TakesUp(Idle) /\ GoesOn(h)
<1>1. Becomes(h, Idle) /\ ~Trusted(Idle) /\ Idle.user = Nobody /\ After(h, Idle.at) /\ ~TakesUp(Idle)
  BY IdleType DEF Finish, Becomes, Carries, Shaped, Trusted, After, TakesUp
<1> QED BY <1>1, Zenon DEF GoesOn

\* A request that goes to another step stays the same.
LEMMA Going ==
  ASSUME TypeOK, NEW h \in Hands, work[h].at # "idle", NEW step \in Steps \ {"idle"}, Goto(h, step),
         Shaped(To(h, step))
  PROVE  Becomes(h, To(h, step)) /\ To(h, step).user = work[h].user
BY Moves DEF Becomes, Carries

\* It takes up nobody then, but whom it has taken up already or is trusted with.
LEMMA Keeping ==
  ASSUME TypeOK, NEW h \in Hands, NEW step \in Steps, Trusted(To(h, step)) => Trusted(work[h])
  PROVE  TakesUp(To(h, step)) => TakesUp(work[h])
BY Moves DEF TakesUp, Trusted

\* A request that is turned down ends, or takes back what it made.
LEMMA Refusing ==
  ASSUME TypeOK, NEW h \in Hands, Shaped(work[h]), work[h].at # "idle", Refuse(h)
  PROVE  GoesOn(h)
<1>1. CASE work[h].op = "provision"
  <2>0. work[h].fresh \in BOOLEAN
    BY DEF TypeOK, Work
  <2>1. PICK step \in {"unlogin", "unbranch"} : Goto(h, step) /\ (step = "unlogin" => Made(work[h]))
    BY <1>1, <2>0 DEF Refuse, Made
  <2>2. step \in Steps \ {"idle"}
    BY DEF Steps
  <2>3. Shaped(To(h, step)) /\ ~Trusted(To(h, step))
    BY <1>1, <2>1, <2>2, Moves DEF Shaped, Trusted
  <2>4. Becomes(h, To(h, step)) /\ To(h, step).user = work[h].user /\ (TakesUp(To(h, step)) => TakesUp(work[h]))
    BY <2>1, <2>2, <2>3, Going, Keeping
  <2>5. After(h, To(h, step).at)
    BY <2>1, <2>2, Moves DEF After
  <2> QED BY <2>3, <2>4, <2>5, Zenon DEF GoesOn
<1>2. CASE work[h].op # "provision"
  BY <1>2, Ends DEF Refuse
<1> QED BY <1>1, <1>2

-----------------------------------------------------------------------------
(* Type correctness. *)

\* A step that leaves the tables alone.
LEMMA TypeStays ==
  ASSUME TypeOK, UNCHANGED tables, NEW h \in Hands, NEW w \in Work, work' = [work EXCEPT ![h] = w],
         UNCHANGED <<opened, refused, stranded, requests>>,
         crossed' \subseteq Emails, shaken' \subseteq Businesses, mishaps' \in 0..MaxMishaps
  PROVE  TypeOK'
<1>1. work' \in [Hands -> Work]
  BY DEF TypeOK
<1> QED BY <1>1 DEF TypeOK, tables, stranded

\* A request as it comes in.
Incoming(w) ==
  /\ w \in Work /\ Shaped(w) /\ w.at # "idle" /\ w.op # "none" /\ w.fresh = FALSE
  /\ \/ /\ w.op = "provision" /\ w.at = "branch" /\ w.by = Nobody /\ w.user = Nobody /\ w.role = "owner"
        /\ w.biz \notin businesses
     \/ /\ w.op \in {"create", "assign"} /\ w.at = "list" /\ w.user = Nobody
        /\ w.biz \in businesses /\ w.by \in Callers(w.biz)
     \/ /\ w.op \in {"update", "delete"} /\ w.at = "check"
        /\ w.user \in alive /\ w.biz \in Tenants(w.user) /\ w.email = emails[w.user]
        /\ w.biz \in businesses /\ w.by \in Callers(w.biz)

ComesIn(h, w) ==
  /\ Incoming(w) /\ Accept(h, w) /\ UNCHANGED <<emails, alive, role, access>>
  /\ businesses' = businesses \cup {b \in {w.biz} : w.op = "provision"}

LEMMA Asks ==
  ASSUME TypeOK, NEW h \in Hands, AskForPerson(h) \/ AskForChange(h) \/ AskForTenant(h)
  PROVE  \E w \in Work : ComesIn(h, w)
<1>0. /\ businesses \subseteq Businesses /\ Idle.fresh = FALSE /\ Idle.role \in Roles
  BY IdleType DEF TypeOK, Work, Idle, Roles
<1>1. CASE AskForPerson(h)
  <2>0. PICK b \in businesses, op \in {"create", "assign"}, e \in Emails, r \in Roles : \E u \in Callers(b) :
          /\ Accept(h, [Idle EXCEPT !.op = op, !.at = "list", !.biz = b, !.by = u, !.email = e, !.role = r])
          /\ UNCHANGED tables
    BY <1>1 DEF AskForPerson
  <2>1. PICK u \in Callers(b) :
          /\ Accept(h, [Idle EXCEPT !.op = op, !.at = "list", !.biz = b, !.by = u, !.email = e, !.role = r])
          /\ UNCHANGED tables
    BY <2>0
  <2> DEFINE w == [Idle EXCEPT !.op = op, !.at = "list", !.biz = b, !.by = u, !.email = e, !.role = r]
  <2>2. b \in Businesses /\ u \in Users
    BY <1>0, UsersType DEF Callers
  <2>3. /\ w \in Work /\ w.op = op /\ w.at = "list" /\ w.biz = b /\ w.by = u /\ w.user = Nobody
    BY <1>0, <2>2, IdleType DEF Work
  <2>3a. w.fresh = FALSE /\ ~Made(w)
    BY <1>0, IdleType DEF Work, Made
  <2>4. Accept(h, w) /\ UNCHANGED tables
    BY <2>1
  <2> HIDE DEF w
  <2>5. Shaped(w)
    BY <2>3, <2>3a DEF Shaped
  <2>6. Incoming(w)
    BY <2>3, <2>3a, <2>5 DEF Incoming
  <2> QED BY <2>3, <2>4, <2>6 DEF tables, ComesIn
<1>2. CASE AskForChange(h)
  <2>0. PICK b \in businesses, op \in {"update", "delete"}, r \in Roles : \E u \in Callers(b), p \in alive :
          /\ b \in Tenants(p)
          /\ Accept(h, [Idle EXCEPT !.op = op, !.at = "check", !.biz = b, !.by = u,
                                    !.email = emails[p], !.user = p, !.role = r])
          /\ UNCHANGED tables
    BY <1>2 DEF AskForChange
  <2>1. PICK u \in Callers(b), p \in alive :
          /\ b \in Tenants(p)
          /\ Accept(h, [Idle EXCEPT !.op = op, !.at = "check", !.biz = b, !.by = u,
                                    !.email = emails[p], !.user = p, !.role = r])
          /\ UNCHANGED tables
    BY <2>0
  <2> DEFINE e == emails[p]
             w == [Idle EXCEPT !.op = op, !.at = "check", !.biz = b, !.by = u,
                               !.email = e, !.user = p, !.role = r]
  <2>2. b \in Businesses /\ u \in Users /\ p \in Users /\ e \in Emails
    BY <1>0, UsersType DEF Callers
  <2>3. Accept(h, w) /\ UNCHANGED tables /\ b \in Tenants(p) /\ e = emails[p]
    BY <2>1
  <2> HIDE DEF e
  <2>4. /\ w \in Work /\ w.op = op /\ w.at = "check" /\ w.biz = b /\ w.by = u /\ w.user = p /\ w.email = e
    BY <1>0, <2>2, IdleType DEF Work
  <2>4a. w.fresh = FALSE /\ ~Made(w)
    BY <1>0, IdleType DEF Work, Made
  <2> HIDE DEF w
  <2>5. Shaped(w)
    BY <2>2, <2>4, <2>4a, UsersType DEF Shaped
  <2>6. Incoming(w)
    BY <2>3, <2>4, <2>4a, <2>5 DEF Incoming
  <2> QED BY <2>3, <2>4, <2>6 DEF tables, ComesIn
<1>3. CASE AskForTenant(h)
  <2>1. PICK b \in Businesses \ businesses, e \in Emails :
          /\ Accept(h, [Idle EXCEPT !.op = "provision", !.at = "branch", !.biz = b, !.email = e, !.role = "owner"])
          /\ businesses' = businesses \cup {b}
          /\ UNCHANGED <<emails, alive, role, access>>
    BY <1>3 DEF AskForTenant
  <2> DEFINE w == [Idle EXCEPT !.op = "provision", !.at = "branch", !.biz = b, !.email = e, !.role = "owner"]
  <2>2. /\ w \in Work /\ w.op = "provision" /\ w.at = "branch" /\ w.biz = b /\ w.by = Nobody /\ w.user = Nobody
        /\ w.role = "owner"
    <3>1. Idle.by = Nobody
      BY DEF Idle
    <3> QED BY <1>0, <3>1, IdleType DEF Work, Roles
  <2>2a. w.fresh = FALSE /\ ~Made(w)
    BY <1>0, IdleType DEF Work, Made
  <2>3. Accept(h, w)
    BY <2>1
  <2> HIDE DEF w
  <2>4. Shaped(w)
    BY <2>2, <2>2a DEF Shaped
  <2>5. Incoming(w)
    BY <2>2, <2>2a, <2>4 DEF Incoming
  <2>6. businesses' = businesses \cup {d \in {w.biz} : w.op = "provision"}
    BY <2>1, <2>2
  <2> QED BY <2>1, <2>2, <2>3, <2>5, <2>6 DEF ComesIn
<1> QED BY <1>1, <1>2, <1>3

LEMMA AskType ==
  ASSUME TypeOK, NEW h \in Hands, NEW w \in Work, ComesIn(h, w)
  PROVE  TypeOK'
<1>0. Accept(h, w) /\ UNCHANGED <<emails, alive, role, access>>
  BY DEF ComesIn
<1>1. work' \in [Hands -> Work]
  BY <1>0 DEF TypeOK, Accept
<1>2. requests' \in 0..MaxRequests
  BY <1>0, AccountsAssumption DEF TypeOK, Accept
<1>3. crossed' \subseteq Emails
  BY <1>0 DEF TypeOK, Accept, Work
<1>4. shaken' \subseteq Businesses
  <2>1. \A g \in Met(w) : work[g].biz \in Businesses
    BY DEF Met, Busy, TypeOK, Work
  <2>2. w.biz \in Businesses /\ \A u : Tenants(u) \subseteq Businesses
    BY RowsType DEF Work
  <2>3. Hidden(w) \subseteq Businesses
    BY <2>2 DEF Hidden
  <2> QED BY <1>0, <2>1, <2>2, <2>3 DEF Accept, TypeOK
<1>5. businesses' \subseteq Businesses
  BY DEF ComesIn, TypeOK, Work
<1> QED BY <1>0, <1>1, <1>2, <1>3, <1>4, <1>5 DEF TypeOK, Accept, stranded

-----------------------------------------------------------------------------
(* Requests going on. *)

\* The steps of a request that go on as GoesOn says, for all but the three
\* that find, check or make a login.
LEMMA StepsOn ==
  ASSUME TypeOK, NEW h \in Hands, Shaped(work[h]), work[h].at # "idle",
         \/ InsertBranch(h) \/ ResetUser(h) \/ WriteProfile(h) \/ ClearAccess(h) \/ InsertAccess(h)
         \/ CheckMember(h) \/ CheckDeletable(h) \/ CountOwners(h) \/ RemoveUser(h)
         \/ UndoLogin(h) \/ UndoBranch(h) \/ UndoBusiness(h) \/ Die(h)
  PROVE  GoesOn(h)
<1>1. Finish(h) \/ Refuse(h) => GoesOn(h)
  BY Ends, Refusing
<1>2. ASSUME NEW step \in Steps \ {"idle"}, Goto(h, step), Shaped(To(h, step)),
             Trusted(To(h, step)) => Trusted(work[h]), After(h, step)
      PROVE  GoesOn(h)
  <2>1. Becomes(h, To(h, step)) /\ To(h, step).user = work[h].user /\ To(h, step).at = step
        /\ (TakesUp(To(h, step)) => TakesUp(work[h]))
    BY <1>2, Going, Moves, Keeping
  <2>2. After(h, To(h, step).at)
    BY <1>2, <2>1
  <2> QED BY <1>2, <2>1, <2>2, Zenon DEF GoesOn
<1>3. CASE InsertBranch(h)
  <2>1. CASE Goto(h, "list")
    <3>0. work[h].at = "branch"
      BY <1>3 DEF InsertBranch, At
    <3>1. Shaped(To(h, "list")) /\ ~Trusted(To(h, "list")) /\ "list" \in Steps \ {"idle"} /\ After(h, "list")
      BY <3>0, Moves DEF Shaped, Trusted, After, At, Steps
    <3> QED BY <1>2, <2>1, <3>1
  <2> QED BY <1>1, <1>3, <2>1 DEF InsertBranch
<1>4. CASE ResetUser(h)
  <2>1. CASE Goto(h, "profile")
    <3>0. work[h].at = "reset"
      BY <1>4 DEF ResetUser, At
    <3>1. Shaped(To(h, "profile")) /\ Trusted(work[h]) /\ "profile" \in Steps \ {"idle"} /\ After(h, "profile")
      BY <3>0, Moves DEF Shaped, Trusted, After, At, Steps
    <3> QED BY <1>2, <2>1, <3>1
  <2> QED BY <1>1, <1>4, <2>1 DEF ResetUser
<1>5. CASE WriteProfile(h)
  <2>1. CASE Goto(h, "clear")
    <3>0. work[h].at = "profile"
      BY <1>5 DEF WriteProfile, At
    <3>1. Shaped(To(h, "clear")) /\ Trusted(work[h]) /\ "clear" \in Steps \ {"idle"} /\ After(h, "clear")
      BY <3>0, Moves DEF Shaped, Trusted, After, At, Steps
    <3> QED BY <1>2, <2>1, <3>1
  <2>2. CASE Goto(h, "unlogin") /\ work[h].fresh
    <3>0. Made(work[h])
      BY <2>2 DEF TypeOK, Work, Made
    <3>1. Shaped(To(h, "unlogin")) /\ Trusted(work[h]) /\ "unlogin" \in Steps \ {"idle"} /\ After(h, "unlogin")
      BY <1>5, <3>0, Moves DEF Shaped, Trusted, After, WriteProfile, At, Steps
    <3> QED BY <1>2, <2>2, <3>1
  <2>3. Goto(h, "clear") \/ (Goto(h, "unlogin") /\ work[h].fresh) \/ Refuse(h)
    BY <1>5, Zenon DEF WriteProfile
  <2> QED BY <1>1, <2>1, <2>2, <2>3, Zenon
<1>6. CASE ClearAccess(h)
  <2>1. CASE Goto(h, "bind")
    <3>0. work[h].at = "clear"
      BY <1>6 DEF ClearAccess, At
    <3>1. Shaped(To(h, "bind")) /\ Trusted(work[h]) /\ "bind" \in Steps \ {"idle"} /\ After(h, "bind")
      BY <3>0, Moves DEF Shaped, Trusted, After, At, Steps
    <3> QED BY <1>2, <2>1, <3>1
  <2> QED BY <1>1, <1>6, <2>1 DEF ClearAccess
<1>7. CASE InsertAccess(h)
  BY <1>1, <1>7 DEF InsertAccess
<1>8. CASE CheckMember(h)
  <2>1. CASE Goto(h, "reset")
    <3>0. work[h].at = "check" /\ work[h].op = "update"
      BY <1>8 DEF CheckMember, At
    <3>1. Shaped(To(h, "reset")) /\ Trusted(work[h]) /\ "reset" \in Steps \ {"idle"} /\ After(h, "reset")
      BY <3>0, Moves DEF Shaped, Trusted, After, At, Steps
    <3> QED BY <1>2, <2>1, <3>1
  <2> QED BY <1>1, <1>8, <2>1 DEF CheckMember
<1>9. CASE CheckDeletable(h)
  <2>1. CASE Goto(h, "count")
    <3>0. work[h].at = "check" /\ work[h].op = "delete"
      BY <1>9 DEF CheckDeletable, At
    <3>1. Shaped(To(h, "count")) /\ ~Trusted(To(h, "count")) /\ "count" \in Steps \ {"idle"} /\ After(h, "count")
      BY <3>0, Moves DEF Shaped, Trusted, After, At, Steps
    <3> QED BY <1>2, <2>1, <3>1
  <2> QED BY <1>1, <1>9, <2>1 DEF CheckDeletable
<1>10. CASE CountOwners(h)
  <2>1. CASE Goto(h, "remove")
    <3>1. Shaped(To(h, "remove")) /\ ~Trusted(To(h, "remove")) /\ "remove" \in Steps \ {"idle"} /\ After(h, "remove")
      BY <1>10, Moves DEF Shaped, Trusted, After, CountOwners, At, Steps
    <3> QED BY <1>2, <2>1, <3>1
  <2>2. Goto(h, "remove") \/ Finish(h)
    BY <1>10, Zenon DEF CountOwners
  <2> QED BY <1>1, <2>1, <2>2
<1>11. CASE UndoLogin(h)
  <2>1. CASE Goto(h, "unbranch") /\ work[h].op = "provision"
    <3>1. Shaped(To(h, "unbranch")) /\ ~Trusted(To(h, "unbranch")) /\ "unbranch" \in Steps \ {"idle"} /\ After(h, "unbranch")
      BY <2>1, Moves DEF Shaped, Trusted, After, Steps
    <3> QED BY <1>2, <2>1, <3>1
  <2> QED BY <1>1, <1>11, <2>1 DEF UndoLogin, AfterLogin
<1>12. CASE UndoBranch(h)
  <2>1. Shaped(To(h, "unbusiness")) /\ ~Trusted(To(h, "unbusiness")) /\ "unbusiness" \in Steps \ {"idle"} /\ After(h, "unbusiness")
    BY <1>12, Moves DEF Shaped, Trusted, After, Steps, UndoBranch, At
  <2> QED BY <1>2, <1>12, <2>1 DEF UndoBranch
<1>13. CASE RemoveUser(h) \/ UndoBusiness(h) \/ Die(h)
  BY <1>1, <1>13 DEF RemoveUser, UndoBusiness, Die
<1> QED BY <1>3, <1>4, <1>5, <1>6, <1>7, <1>8, <1>9, <1>10, <1>11, <1>12, <1>13

\* The three steps that find, check and make the login, when they succeed.
Finds(h) ==
  \E u \in LoginOf(work[h].email) :
    /\ At(h, "list") /\ Smooth /\ UNCHANGED tables /\ NoHistory
    /\ work' = [work EXCEPT ![h].at = "check", ![h].user = u]

Passes(h) ==
  /\ At(h, "check") /\ work[h].op \in {"provision", "create", "assign"}
  /\ Goto(h, IF work[h].op = "create" THEN "reset" ELSE "profile")
  /\ UNCHANGED <<tables, opened, refused, stranded, requests>>
  /\ \/ Tenants(work[h].user) \subseteq {work[h].biz} /\ Smooth /\ UNCHANGED <<crossed, shaken>>
     \/ /\ Mishap /\ crossed' = crossed \cup {work[h].email}
        /\ shaken' = shaken \cup Tenants(work[h].user)

Makes(h) ==
  /\ At(h, "login") /\ MakeLogin(work[h].email) /\ Smooth
  /\ work' = [work EXCEPT ![h].at = "profile", ![h].user = Len(emails) + 1, ![h].fresh = TRUE]
  /\ UNCHANGED <<access, businesses>> /\ NoHistory

\* The login is made, and the request does not know it.
Loses(h) ==
  /\ At(h, "login") /\ MakeLogin(work[h].email) /\ Mishap /\ Refuse(h)
  /\ strandedLogins' = strandedLogins \cup {Len(emails) + 1}
  /\ UNCHANGED <<access, businesses, opened, crossed, shaken, refused, strandedTenants, requests>>

\* What a login that is made does to the e-mails.
LEMMA LoginMade ==
  ASSUME TypeOK, NEW e \in Emails, MakeLogin(e)
  PROVE  /\ Len(emails) + 1 \in Users /\ Len(emails) + 1 \notin DOMAIN emails
         /\ Len(emails) + 1 \notin alive
         /\ DOMAIN emails' = DOMAIN emails \cup {Len(emails) + 1}
         /\ emails' \in Seq(Emails) /\ Len(emails') <= MaxLogins
         /\ \A u \in DOMAIN emails : emails'[u] = emails[u]
         /\ emails'[Len(emails) + 1] = e
         /\ role' \in [Users -> Roles \cup {"none"}]
<1> DEFINE n == Len(emails) + 1
<1>1. n \in Users /\ Len(emails) \in Nat /\ DOMAIN emails = 1..Len(emails) /\ Len(emails) < MaxLogins
  BY UsersType, AccountsAssumption DEF Users, MakeLogin
<1>2. emails \in Seq(Emails) /\ emails' = Append(emails, e) /\ role' = [role EXCEPT ![n] = "staff"]
  BY DEF TypeOK, MakeLogin
<1>3. /\ emails' \in Seq(Emails) /\ Len(emails') = n
      /\ \A u \in 1..Len(emails) : emails'[u] = emails[u]
      /\ emails'[n] = e
  BY <1>2, AppendProperties
<1>4. DOMAIN emails' = 1..n
  BY <1>3, LenProperties
<1>5. DOMAIN emails' = DOMAIN emails \cup {n} /\ n \notin DOMAIN emails /\ Len(emails') <= MaxLogins
  BY <1>1, <1>3, <1>4, AccountsAssumption
<1>6. role' \in [Users -> Roles \cup {"none"}] /\ n \notin alive
  BY <1>2, <1>5, UsersType DEF TypeOK, Roles
<1> QED BY <1>1, <1>3, <1>5, <1>6

\* They go on as the same request, with the login they found or made.
LEMMA FindsOn ==
  ASSUME TypeOK, NEW h \in Hands, Shaped(work[h]), Finds(h)
  PROVE  \E w : /\ Becomes(h, w) /\ ~Trusted(w) /\ ~TakesUp(w) /\ w.at = "check"
                /\ w.user \in LoginOf(work[h].email) /\ w.fresh = work[h].fresh
<1>1. PICK u \in LoginOf(work[h].email) : work' = [work EXCEPT ![h].at = "check", ![h].user = u]
  BY DEF Finds
<1> DEFINE w == [work[h] EXCEPT !.at = "check", !.user = u]
<1>2. work[h] \in Work /\ u \in Users
  BY UsersType DEF TypeOK, LoginOf
<1>3. /\ w \in Work /\ w.op = work[h].op /\ w.biz = work[h].biz /\ w.by = work[h].by
      /\ w.email = work[h].email /\ w.role = work[h].role /\ w.at = "check" /\ w.user = u
      /\ w.fresh = work[h].fresh
  BY <1>2 DEF Work
<1>3a. Made(w) <=> Made(work[h])
  BY <1>3, Zenon DEF Made
<1>4. work' = [work EXCEPT ![h] = w]
  BY <1>1
<1> HIDE DEF w
<1>5. Shaped(w) /\ ~Trusted(w) /\ ~TakesUp(w)
  BY <1>2, <1>3, <1>3a, UsersType DEF Finds, At, Shaped, Trusted, TakesUp
<1>6. Becomes(h, w)
  BY <1>3, <1>4, <1>5 DEF Becomes, Carries
<1> QED BY <1>3, <1>5, <1>6, Zenon

LEMMA PassesOn ==
  ASSUME TypeOK, NEW h \in Hands, Shaped(work[h]), Passes(h)
  PROVE  \E w : /\ Becomes(h, w) /\ w.at \in {"reset", "profile"} /\ w.user = work[h].user
                /\ w.op \in {"provision", "create", "assign"} /\ w.fresh = work[h].fresh
<1>1. PICK step \in {"reset", "profile"} : Goto(h, step)
  BY DEF Passes
<1>2. step \in Steps \ {"idle"} /\ work[h].at # "idle"
  BY DEF Steps, Passes, At
<1>3. Shaped(To(h, step))
  BY <1>1, <1>2, Moves DEF Shaped, Passes, At
<1>4. Becomes(h, To(h, step)) /\ To(h, step).user = work[h].user
  BY <1>1, <1>2, <1>3, Going
<1>5. /\ To(h, step).at \in {"reset", "profile"} /\ To(h, step).op \in {"provision", "create", "assign"}
      /\ To(h, step).fresh = work[h].fresh
  BY <1>1, <1>2, Moves DEF Passes
<1> QED BY <1>4, <1>5, Zenon

LEMMA MakesOn ==
  ASSUME TypeOK, NEW h \in Hands, Shaped(work[h]), Makes(h)
  PROVE  /\ \E w : /\ Becomes(h, w) /\ w.at = "profile" /\ w.user = Len(emails) + 1
                   /\ w.op \in {"provision", "create"} /\ w.fresh = TRUE
         /\ Len(emails) + 1 \in Users /\ Len(emails) + 1 \notin DOMAIN emails
         /\ Len(emails) + 1 \notin alive
         /\ DOMAIN emails' = DOMAIN emails \cup {Len(emails) + 1}
         /\ emails' \in Seq(Emails) /\ Len(emails') <= MaxLogins
         /\ \A u \in DOMAIN emails : emails'[u] = emails[u]
         /\ emails'[Len(emails) + 1] = work[h].email
         /\ role' \in [Users -> Roles \cup {"none"}]
<1> DEFINE n == Len(emails) + 1
           w == [work[h] EXCEPT !.at = "profile", !.user = n, !.fresh = TRUE]
<1>2. work[h] \in Work /\ work[h].email \in Emails
  BY DEF TypeOK, Work
<1>3. MakeLogin(work[h].email) /\ work' = [work EXCEPT ![h] = w]
  BY DEF Makes
<1>1. /\ n \in Users /\ n \notin DOMAIN emails /\ n \notin alive
      /\ DOMAIN emails' = DOMAIN emails \cup {n}
      /\ emails' \in Seq(Emails) /\ Len(emails') <= MaxLogins
      /\ \A u \in DOMAIN emails : emails'[u] = emails[u]
      /\ emails'[n] = work[h].email
      /\ role' \in [Users -> Roles \cup {"none"}]
  BY <1>2, <1>3, LoginMade
<1>7. /\ w \in Work /\ w.op = work[h].op /\ w.biz = work[h].biz /\ w.by = work[h].by
      /\ w.email = work[h].email /\ w.role = work[h].role /\ w.at = "profile" /\ w.user = n
  BY <1>1, <1>2 DEF Work
<1>7a. w.fresh = TRUE /\ Made(w)
  BY <1>2 DEF Work, Made
<1> HIDE DEF w
<1>8. Shaped(w) /\ w.op \in {"provision", "create"}
  BY <1>1, <1>7, <1>7a, UsersType DEF Makes, At, Shaped
<1>9. Becomes(h, w)
  BY <1>3, <1>7, <1>8 DEF Becomes, Carries
<1>10. \E v : /\ Becomes(h, v) /\ v.at = "profile" /\ v.user = n
              /\ v.op \in {"provision", "create"} /\ v.fresh = TRUE
  BY <1>7, <1>7a, <1>8, <1>9, Zenon
<1> QED BY <1>1, <1>10

\* When they fail or find nothing, they go on as well and leave the tables alone.
LEMMA LookupsOn ==
  ASSUME TypeOK, NEW h \in Hands, Shaped(work[h]),
         ListUsers(h) \/ CheckTenant(h) \/ CreateUser(h), ~Finds(h), ~Passes(h), ~Makes(h), ~Loses(h)
  PROVE  GoesOn(h) /\ UNCHANGED tables /\ NoHistory /\ (Smooth \/ Mishap)
<1>1. work[h].at # "idle"
  BY DEF ListUsers, CheckTenant, CreateUser, At
<1>2. Refuse(h) => GoesOn(h)
  BY <1>1, Refusing
<1>3. CASE ListUsers(h)
  <2>1. At(h, "list") /\ UNCHANGED tables /\ NoHistory
    BY <1>3 DEF ListUsers
  <2>2. CASE Mishap /\ Refuse(h)
    BY <1>2, <2>1, <2>2
  <2>3. CASE \E found \in LoginOf(work[h].email) \cup {Nobody} :
               /\ Smooth
               /\ IF found # Nobody THEN work' = [work EXCEPT ![h].at = "check", ![h].user = found]
                  ELSE IF work[h].op = "assign" THEN Refuse(h)
                  ELSE Goto(h, "login")
    <3>1. PICK found \in LoginOf(work[h].email) \cup {Nobody} :
            /\ Smooth
            /\ IF found # Nobody THEN work' = [work EXCEPT ![h].at = "check", ![h].user = found]
               ELSE IF work[h].op = "assign" THEN Refuse(h)
               ELSE Goto(h, "login")
      BY <2>3
    <3>2. CASE found # Nobody
      BY <2>1, <3>1, <3>2 DEF Finds
    <3>3. CASE found = Nobody /\ work[h].op = "assign"
      BY <1>2, <2>1, <3>1, <3>3
    <3>4. CASE found = Nobody /\ work[h].op # "assign"
      <4>1. Goto(h, "login") /\ Smooth /\ "login" \in Steps \ {"idle"}
        BY <3>1, <3>4 DEF Steps
      <4>2. Shaped(To(h, "login")) /\ ~Trusted(To(h, "login"))
        BY <2>1, <3>4, <4>1, Moves DEF Shaped, Trusted, At
      <4>3. Becomes(h, To(h, "login")) /\ To(h, "login").user = work[h].user
            /\ (TakesUp(To(h, "login")) => TakesUp(work[h]))
        BY <1>1, <4>1, <4>2, Going, Keeping
      <4>4. After(h, To(h, "login").at)
        BY <4>1, Moves DEF After
      <4>5. GoesOn(h)
        BY <4>2, <4>3, <4>4, Zenon DEF GoesOn
      <4> QED BY <2>1, <4>1, <4>5
    <3> QED BY <3>2, <3>3, <3>4
  <2> QED BY <1>3, <2>2, <2>3 DEF ListUsers
<1>4. CASE CheckTenant(h)
  <2>1. At(h, "check") /\ work[h].op \in {"provision", "create", "assign"}
        /\ UNCHANGED <<tables, opened, refused, stranded, requests>>
    BY <1>4 DEF CheckTenant
  <2> DEFINE next == IF work[h].op = "create" THEN "reset" ELSE "profile"
  <2>2. CASE /\ Smooth /\ UNCHANGED <<crossed, shaken>>
             /\ IF Tenants(work[h].user) \subseteq {work[h].biz} THEN Goto(h, next) ELSE Refuse(h)
    <3>1. CASE Tenants(work[h].user) \subseteq {work[h].biz}
      <4>1. Goto(h, next)
        BY <2>2, <3>1
      <4> QED BY <2>1, <2>2, <3>1, <4>1 DEF Passes
    <3>2. CASE ~(Tenants(work[h].user) \subseteq {work[h].biz})
      BY <1>2, <2>1, <2>2, <3>2 DEF NoHistory, history
    <3> QED BY <3>1, <3>2
  <2>3. CASE Mishap /\ Goto(h, next) /\ crossed' = crossed \cup {work[h].email}
             /\ shaken' = shaken \cup Tenants(work[h].user)
    BY <2>1, <2>3 DEF Passes
  <2> QED BY <1>4, <2>2, <2>3 DEF CheckTenant
<1>5. CASE CreateUser(h)
  <2>1. At(h, "login") /\ UNCHANGED <<access, businesses, opened, crossed, shaken, refused, strandedTenants, requests>>
    BY <1>5 DEF CreateUser
  <2>2. CASE /\ MakeLogin(work[h].email) /\ Smooth
             /\ work' = [work EXCEPT ![h].at = "profile", ![h].user = Len(emails) + 1, ![h].fresh = TRUE]
             /\ UNCHANGED strandedLogins
    BY <2>1, <2>2 DEF Makes, NoHistory, history, stranded
  <2>3. CASE /\ MakeLogin(work[h].email) /\ Mishap /\ Refuse(h)
             /\ strandedLogins' = strandedLogins \cup {Len(emails) + 1}
    BY <2>1, <2>3 DEF Loses
  <2>4. CASE (Smooth \/ Mishap) /\ Refuse(h) /\ UNCHANGED <<emails, alive, role, strandedLogins>>
    BY <1>2, <2>1, <2>4 DEF tables, NoHistory, history, stranded
  <2> QED BY <1>5, <2>2, <2>3, <2>4 DEF CreateUser
<1> QED BY <1>3, <1>4, <1>5

-----------------------------------------------------------------------------
(* What a request that goes on does to the tables. *)

LEMMA WorkType ==
  ASSUME TypeOK, NEW h \in Hands, GoesOn(h)
  PROVE  work' \in [Hands -> Work]
BY DEF TypeOK, GoesOn, Becomes

\* The steps that write nothing, or write a profile.
LEMMA QuietType ==
  ASSUME TypeOK, NEW h \in Hands, GoesOn(h), UNCHANGED <<emails, alive, access, businesses>>, NoHistory,
         Smooth \/ Mishap,
         role' = role \/ \E u \in alive : role' = [role EXCEPT ![u] = work[h].role]
  PROVE  TypeOK'
<1>1. role' \in [Users -> Roles \cup {"none"}]
  BY UsersType DEF TypeOK, Work
<1> QED BY <1>1, WorkType, CountersType DEF TypeOK, NoHistory, history, stranded

\* The steps that write tables, each with what it does to them.
Writes(h) ==
  \/ ClearAccess(h) \/ InsertAccess(h) \/ RemoveUser(h) \/ UndoLogin(h) \/ UndoBusiness(h)

LEMMA DeleteType ==
  ASSUME TypeOK, NEW u \in Users \cup {Nobody}, DeleteLogin(u)
  PROVE  /\ alive' \subseteq alive /\ role' \in [Users -> Roles \cup {"none"}]
         /\ access' \subseteq access /\ \A r \in access' : r.user \in alive'
<1>1. role' \in [Users -> Roles \cup {"none"}]
  BY DEF DeleteLogin, TypeOK
<1> QED BY <1>1 DEF DeleteLogin, TypeOK

LEMMA WritesType ==
  ASSUME TypeOK, NEW h \in Hands, Shaped(work[h]), GoesOn(h), Writes(h)
  PROVE  TypeOK' /\ emails' = emails /\ alive' \subseteq alive /\ crossed' = crossed /\ shaken' = shaken
<1>0. work[h] \in Work /\ work' \in [Hands -> Work]
  BY WorkType DEF TypeOK
<1>0a. Smooth \/ Mishap => mishaps' \in 0..MaxMishaps
  BY CountersType
<1>1. CASE ClearAccess(h)
  <2>1. access' \subseteq access /\ UNCHANGED <<emails, alive, role, businesses>> /\ NoHistory /\ (Smooth \/ Mishap)
    BY <1>1 DEF ClearAccess
  <2> QED BY <1>0, <1>0a, <2>1 DEF TypeOK, NoHistory, history, stranded
<1>2. CASE InsertAccess(h)
  <2>1. CASE /\ Bindable(h) /\ Smooth
             /\ access' = access \cup {[user |-> work[h].user, biz |-> work[h].biz, wide |-> work[h].role = "owner"]}
             /\ opened' = IF work[h].op = "provision" THEN opened \cup {work[h].biz} ELSE opened
             /\ UNCHANGED refused
    <3>1. work[h].user \in alive /\ work[h].user \in Users
      BY <2>1, UsersType DEF Bindable
    <3>2. [user |-> work[h].user, biz |-> work[h].biz, wide |-> work[h].role = "owner"] \in Row
      BY <1>0, <3>1, Zenon DEF Row, Work
    <3> DEFINE r == [user |-> work[h].user, biz |-> work[h].biz, wide |-> work[h].role = "owner"]
    <3>3. r \in Row /\ r.user \in alive /\ access' = access \cup {r}
      BY <2>1, <3>1, <3>2
    <3> HIDE DEF r
    <3>4. opened' \subseteq Businesses
      BY <1>0, <2>1 DEF TypeOK, Work
    <3> QED BY <1>0, <1>0a, <1>2, <2>1, <3>3, <3>4 DEF InsertAccess, TypeOK, stranded
  <2>2. CASE /\ Smooth \/ Mishap
             /\ UNCHANGED <<access, opened>>
             /\ refused' = IF work[h].op = "provision" THEN refused ELSE refused \cup {work[h].user}
    <3>1. work[h].user \in Users
      BY <1>0, <1>2 DEF Shaped, InsertAccess, At, Work, Nobody
    <3> QED BY <1>0, <1>0a, <1>2, <2>2, <3>1 DEF InsertAccess, TypeOK, stranded
  <2> QED BY <1>2, <2>1, <2>2 DEF InsertAccess
<1>3. CASE RemoveUser(h)
  <2>1. UNCHANGED <<emails, businesses>> /\ NoHistory /\ (Smooth \/ Mishap)
        /\ (DeleteLogin(work[h].user) \/ UNCHANGED <<alive, role, access>>)
    BY <1>3 DEF RemoveUser
  <2>2. /\ alive' \subseteq alive /\ role' \in [Users -> Roles \cup {"none"}]
        /\ access' \subseteq access /\ \A r \in access' : r.user \in alive'
    BY <1>0, <2>1, DeleteType DEF Work, TypeOK
  <2> QED BY <1>0, <1>0a, <2>1, <2>2 DEF TypeOK, NoHistory, history, stranded
<1>4. CASE UndoLogin(h)
  <2>0. work[h].user \in Users
    BY <1>0, <1>4 DEF Shaped, UndoLogin, At, Work, Nobody
  <2>1. UNCHANGED <<emails, businesses, opened, crossed, shaken, refused, strandedTenants, requests>>
        /\ (Smooth \/ Mishap) /\ (DeleteLogin(work[h].user) \/ UNCHANGED <<alive, role, access>>)
    BY <1>4 DEF UndoLogin
  <2>1a. strandedLogins' \subseteq Users
    BY <1>4, <2>0, Zenon DEF UndoLogin, TypeOK
  <2>2. /\ alive' \subseteq alive /\ role' \in [Users -> Roles \cup {"none"}]
        /\ access' \subseteq access /\ \A r \in access' : r.user \in alive'
    BY <1>0, <2>1, DeleteType DEF Work, TypeOK
  <2> QED BY <1>0, <1>0a, <2>1, <2>1a, <2>2 DEF TypeOK
<1>5. CASE UndoBusiness(h)
  <2>1. UNCHANGED <<emails, alive, role, opened, crossed, shaken, refused, strandedLogins, requests>>
        /\ (Smooth \/ Mishap) /\ access' \subseteq access /\ businesses' \subseteq businesses
    BY <1>5 DEF UndoBusiness
  <2>1a. strandedTenants' \subseteq Businesses
    BY <1>0, <1>5 DEF UndoBusiness, TypeOK, Work
  <2> QED BY <1>0, <1>0a, <2>1, <2>1a DEF TypeOK
<1> QED BY <1>1, <1>2, <1>3, <1>4, <1>5 DEF Writes

\* A request that goes on leaves the e-mails and the histories of checks alone,
\* and gives access only to the person and the business it is for.
LEMMA OnEffect ==
  ASSUME TypeOK, NEW h \in Hands, Shaped(work[h]), work[h].at # "idle", GoesOn(h), Handle(h),
         ~Finds(h), ~Passes(h), ~Makes(h), ~Loses(h), ~(\E w \in Work : ComesIn(h, w))
  PROVE  /\ TypeOK' /\ emails' = emails /\ alive' \subseteq alive /\ crossed' = crossed /\ shaken' = shaken
         /\ \A u : Tenants(u)' \subseteq Tenants(u) \cup {b \in {work[h].biz} : At(h, "bind") /\ u = work[h].user}
<1>1. ~(AskForPerson(h) \/ AskForChange(h) \/ AskForTenant(h))
  BY Asks
<1>2. CASE \/ InsertBranch(h) \/ ListUsers(h) \/ CheckTenant(h) \/ CreateUser(h) \/ ResetUser(h)
           \/ CheckMember(h) \/ CheckDeletable(h) \/ CountOwners(h)
  <2>1. UNCHANGED tables /\ NoHistory /\ (Smooth \/ Mishap)
    <3>1. CASE ListUsers(h) \/ CheckTenant(h) \/ CreateUser(h)
      BY <3>1, LookupsOn
    <3>2. CASE InsertBranch(h) \/ ResetUser(h)
      BY <3>2 DEF InsertBranch, ResetUser
    <3>3. CASE CheckMember(h) \/ CheckDeletable(h) \/ CountOwners(h)
      BY <3>3 DEF CheckMember, CheckDeletable, CountOwners
    <3> QED BY <1>2, <3>1, <3>2, <3>3
  <2>2. TypeOK'
    BY <2>1, QuietType DEF tables
  <2> QED BY <2>1, <2>2 DEF tables, NoHistory, history, Tenants, RowsOf
<1>3. CASE UndoBranch(h) \/ Die(h)
  <2>1. UNCHANGED <<tables, opened, crossed, shaken, refused, requests>> /\ (Smooth \/ Mishap)
    BY <1>3 DEF UndoBranch, Die, NoHistory, history
  <2>2. strandedLogins' \subseteq Users /\ strandedTenants' \subseteq Businesses
    <3>1. CASE UndoBranch(h)
      BY <3>1 DEF UndoBranch, NoHistory, history, stranded, TypeOK
    <3>2. CASE Die(h)
      <4>1. work[h].biz \in Businesses /\ alive \subseteq Users
        BY UsersType DEF TypeOK, Work
      <4> QED BY <3>2, <4>1 DEF Die, TypeOK
    <3> QED BY <1>3, <3>1, <3>2
  <2>3. TypeOK'
    BY <2>1, <2>2, WorkType, CountersType DEF TypeOK, tables
  <2> QED BY <2>1, <2>3 DEF tables, Tenants, RowsOf
<1>4. CASE WriteProfile(h)
  <2>1. /\ UNCHANGED <<emails, alive, access, businesses>> /\ NoHistory /\ (Smooth \/ Mishap)
        /\ role' = role \/ \E u \in alive : role' = [role EXCEPT ![u] = work[h].role]
    BY <1>4, Zenon DEF WriteProfile
  <2>2. TypeOK'
    BY <2>1, QuietType
  <2> QED BY <2>1, <2>2 DEF NoHistory, history, Tenants, RowsOf
<1>5. CASE Writes(h)
  <2>1. TypeOK' /\ emails' = emails /\ alive' \subseteq alive /\ crossed' = crossed /\ shaken' = shaken
    BY <1>5, WritesType
  <2> DEFINE r == [user |-> work[h].user, biz |-> work[h].biz, wide |-> work[h].role = "owner"]
  <2>2. r.user = work[h].user /\ r.biz = work[h].biz
    OBVIOUS
  <2>3. InsertAccess(h) => access' = access \/ (At(h, "bind") /\ access' = access \cup {r})
    BY Zenon DEF InsertAccess
  <2> HIDE DEF r
  <2>4. CASE access' \subseteq access
    BY <2>1, <2>4 DEF Tenants, RowsOf
  <2>5. CASE At(h, "bind") /\ access' = access \cup {r}
    BY <2>1, <2>2, <2>5 DEF Tenants, RowsOf
  <2>6. access' \subseteq access \/ (At(h, "bind") /\ access' = access \cup {r})
    <3>1. CASE ClearAccess(h)
      BY <3>1 DEF ClearAccess
    <3>2. CASE RemoveUser(h) \/ UndoLogin(h)
      BY <3>2 DEF RemoveUser, UndoLogin, DeleteLogin
    <3>3. CASE UndoBusiness(h)
      BY <3>3 DEF UndoBusiness
    <3> QED BY <1>5, <2>3, <3>1, <3>2, <3>3 DEF Writes
  <2> QED BY <2>1, <2>4, <2>5, <2>6
<1> QED BY <1>1, <1>2, <1>3, <1>4, <1>5 DEF Handle, Writes

\* Every step of a request is one of these.
Turn(h) ==
  /\ work[h].at # "idle" /\ GoesOn(h) /\ TypeOK' /\ emails' = emails /\ alive' \subseteq alive
  /\ crossed' = crossed /\ shaken' = shaken
  /\ \A u : Tenants(u)' \subseteq Tenants(u) \cup {b \in {work[h].biz} : At(h, "bind") /\ u = work[h].user}

LEMMA Turns ==
  ASSUME TypeOK, NEW h \in Hands, Shaped(work[h]), Handle(h)
  PROVE  \/ \E w \in Work : ComesIn(h, w)
         \/ Finds(h) \/ Passes(h) \/ Makes(h) \/ Loses(h) \/ Turn(h)
<1> SUFFICES ASSUME ~(\E w \in Work : ComesIn(h, w)), ~Finds(h), ~Passes(h), ~Makes(h), ~Loses(h)
             PROVE  Turn(h)
  OBVIOUS
<1>1. ~(AskForPerson(h) \/ AskForChange(h) \/ AskForTenant(h))
  BY Asks
<1>2. work[h].at # "idle"
  BY <1>1 DEF Handle, InsertBranch, ListUsers, CheckTenant, CreateUser, ResetUser, WriteProfile, ClearAccess,
       InsertAccess, CheckMember, CheckDeletable, CountOwners, RemoveUser, UndoLogin, UndoBranch,
       UndoBusiness, Die, At
<1>3. GoesOn(h)
  BY <1>1, <1>2, StepsOn, LookupsOn DEF Handle
<1> QED BY <1>2, <1>3, OnEffect DEF Turn

-----------------------------------------------------------------------------
(* Who works on whose login. *)

\* A request keeps to the logins of its e-mail.
Tied ==
  \A h \in Busy : work[h].user # Nobody =>
    work[h].user \in DOMAIN emails /\ emails[work[h].user] = work[h].email

WorkInv == TypeOK /\ (\A h \in Hands : Shaped(work[h])) /\ Tied

\* The emails of logins once made never change.
LEMMA TiedStep ==
  ASSUME WorkInv, NEW h \in Hands, NEW w, Becomes(h, w), work[h].at # "idle",
         TypeOK', DOMAIN emails \subseteq DOMAIN emails', \A u \in DOMAIN emails : emails'[u] = emails[u],
         w.user \notin {Nobody, work[h].user} => w.user \in DOMAIN emails' /\ emails'[w.user] = work[h].email
  PROVE  WorkInv'
<1>1. work \in [Hands -> Work] /\ Idle.user = Nobody
  BY IdleType DEF WorkInv, TypeOK
<1>2. work'[h] = w /\ \A g \in Hands : g # h => work'[g] = work[g]
  BY <1>1 DEF Becomes
<1>3. Tied'
  <2> SUFFICES ASSUME NEW g \in Hands, work'[g].at # "idle", work'[g].user # Nobody
               PROVE  work'[g].user \in DOMAIN emails' /\ emails'[work'[g].user] = work'[g].email
    BY DEF Tied, Busy
  <2>1. CASE g # h
    BY <1>2, <2>1 DEF WorkInv, Tied, Busy
  <2>2. CASE g = h
    <3>1. w.email = work[h].email
      BY <1>1, <1>2, <2>2 DEF Becomes, Carries
    <3> QED BY <1>2, <2>2, <3>1 DEF WorkInv, Tied, Busy
  <2> QED BY <2>1, <2>2
<1> QED BY <1>2, <1>3 DEF WorkInv, Becomes

LEMMA WorkStep ==
  ASSUME WorkInv, [Next]_vars
  PROVE  WorkInv'
<1>1. CASE UNCHANGED vars
  BY <1>1 DEF vars, tables, history, stranded, WorkInv, TypeOK, Tied, Busy
<1>2. ASSUME NEW h \in Hands, Handle(h)
      PROVE  WorkInv'
  <2>0. TypeOK /\ Shaped(work[h]) /\ work \in [Hands -> Work]
    BY DEF WorkInv, TypeOK
  <2>1. CASE \E w \in Work : ComesIn(h, w)
    <3>1. PICK w \in Work : ComesIn(h, w)
      BY <2>1
    <3>2. TypeOK'
      BY <2>0, <3>1, AskType
    <3>3. work' = [work EXCEPT ![h] = w] /\ emails' = emails
      BY <3>1 DEF ComesIn, Accept
    <3>4. work'[h] = w /\ \A g \in Hands : g # h => work'[g] = work[g]
      BY <2>0, <3>3
    <3>5. Shaped(w) /\ (w.user # Nobody => w.user \in DOMAIN emails /\ emails[w.user] = w.email)
      BY <2>0, <3>1, UsersType DEF ComesIn, Incoming
    <3>6. Tied'
      BY <3>3, <3>4, <3>5 DEF WorkInv, Tied, Busy
    <3> QED BY <3>2, <3>4, <3>5, <3>6 DEF WorkInv
  <2>2. CASE Finds(h)
    <3>1. PICK w : Becomes(h, w) /\ w.user \in LoginOf(work[h].email)
      BY <2>0, <2>2, FindsOn
    <3>2. UNCHANGED tables /\ NoHistory /\ Smooth /\ work[h].at # "idle"
      BY <2>2 DEF Finds, At
    <3>3. TypeOK'
      BY <2>0, <3>1, <3>2 DEF TypeOK, tables, NoHistory, history, stranded, Smooth, Becomes
    <3>4. w.user \in DOMAIN emails /\ emails[w.user] = work[h].email
      BY <2>0, <3>1, UsersType DEF LoginOf
    <3> QED BY <3>1, <3>2, <3>3, <3>4, TiedStep DEF tables
  <2>3. CASE Passes(h)
    <3>1. PICK w : Becomes(h, w) /\ w.user = work[h].user
      BY <2>0, <2>3, PassesOn
    <3>2. /\ UNCHANGED <<tables, opened, refused, stranded, requests>> /\ work[h].at # "idle"
          /\ Smooth \/ Mishap
          /\ crossed' \subseteq crossed \cup {work[h].email} /\ shaken' \subseteq shaken \cup Tenants(work[h].user)
      BY <2>3 DEF Passes, At
    <3>3. crossed' \subseteq Emails /\ shaken' \subseteq Businesses
      BY <2>0, <3>2, RowsType DEF TypeOK, Work
    <3>4. TypeOK'
      BY <2>0, <3>1, <3>2, <3>3, CountersType DEF TypeOK, tables, stranded, Becomes
    <3> QED BY <3>1, <3>2, <3>4, TiedStep DEF tables
  <2>4. CASE Makes(h)
    <3>0. /\ \E w : Becomes(h, w) /\ w.user = Len(emails) + 1
          /\ Len(emails) + 1 \in Users
          /\ DOMAIN emails' = DOMAIN emails \cup {Len(emails) + 1}
          /\ emails' \in Seq(Emails) /\ Len(emails') <= MaxLogins
          /\ \A u \in DOMAIN emails : emails'[u] = emails[u]
          /\ emails'[Len(emails) + 1] = work[h].email
          /\ role' \in [Users -> Roles \cup {"none"}]
      BY <2>0, <2>4, MakesOn
    <3>1. PICK w : Becomes(h, w) /\ w.user = Len(emails) + 1
      BY <3>0
    <3>2. /\ UNCHANGED <<access, businesses>> /\ NoHistory /\ Smooth /\ work[h].at # "idle"
          /\ alive' = alive \cup {Len(emails) + 1}
      BY <2>4 DEF Makes, MakeLogin, At
    <3>4. work' \in [Hands -> Work]
      BY <2>0, <3>1 DEF Becomes
    <3>5. TypeOK'
      BY <2>0, <3>0, <3>2, <3>4 DEF TypeOK, NoHistory, history, stranded, Smooth
    <3> QED BY <3>0, <3>1, <3>2, <3>5, TiedStep
  <2>6. CASE Loses(h)
    <3>0. /\ Len(emails) + 1 \in Users
          /\ DOMAIN emails' = DOMAIN emails \cup {Len(emails) + 1}
          /\ emails' \in Seq(Emails) /\ Len(emails') <= MaxLogins
          /\ \A u \in DOMAIN emails : emails'[u] = emails[u]
          /\ role' \in [Users -> Roles \cup {"none"}]
      <4>1. work[h].email \in Emails
        BY <2>0 DEF TypeOK, Work
      <4> QED BY <2>0, <2>6, <4>1, LoginMade DEF Loses
    <3>1. GoesOn(h) /\ work[h].at # "idle"
      BY <2>0, <2>6, Refusing DEF Loses, At
    <3>2. PICK w : Becomes(h, w) /\ w.user \in {work[h].user, Nobody}
      BY <3>1 DEF GoesOn
    <3>3. /\ UNCHANGED <<access, businesses, opened, crossed, shaken, refused, strandedTenants, requests>> /\ Mishap
          /\ alive' = alive \cup {Len(emails) + 1} /\ strandedLogins' = strandedLogins \cup {Len(emails) + 1}
      BY <2>6 DEF Loses, MakeLogin
    <3>4. work' \in [Hands -> Work] /\ mishaps' \in 0..MaxMishaps
      BY <2>0, <3>1, <3>3, WorkType, CountersType
    <3>5. TypeOK'
      BY <2>0, <3>0, <3>3, <3>4 DEF TypeOK
    <3> QED BY <3>0, <3>1, <3>2, <3>5, TiedStep
  <2>5. CASE Turn(h)
    <3>1. PICK w : Becomes(h, w) /\ w.user \in {work[h].user, Nobody}
      BY <2>5 DEF Turn, GoesOn
    <3> QED BY <2>5, <3>1, TiedStep DEF Turn
  <2> QED BY <1>2, <2>0, <2>1, <2>2, <2>3, <2>4, <2>5, <2>6, Turns
<1> QED BY <1>1, <1>2 DEF Next

LEMMA WorkStart ==
  ASSUME Init
  PROVE  WorkInv
<1>1. 1 \in Users /\ emails \in Seq(Emails) /\ Len(emails) = 1
  BY AccountsAssumption DEF Init, Users
<1>2. DOMAIN emails = 1..1 /\ 0 \in 0..MaxRequests /\ 0 \in 0..MaxMishaps
  BY <1>1, LenProperties, AccountsAssumption
<1>3. [user |-> 1, biz |-> Home, wide |-> TRUE] \in Row
  BY <1>1, AccountsAssumption DEF Row
<1>4. role \in [Users -> Roles \cup {"none"}]
  BY DEF Init, Roles
<1>5. TypeOK
  <2>1. access \subseteq Row /\ \A r \in access : r.user \in alive
    <3> DEFINE r == [user |-> 1, biz |-> Home, wide |-> TRUE]
    <3>1. r \in Row /\ r.user = 1
      BY <1>3
    <3>2. access = {r} /\ alive = {1}
      BY DEF Init
    <3> HIDE DEF r
    <3> QED BY <3>1, <3>2
  <2>2. alive \subseteq DOMAIN emails /\ Len(emails) <= MaxLogins
    BY <1>1, <1>2, AccountsAssumption DEF Init
  <2>3. work \in [Hands -> Work]
    BY IdleType DEF Init
  <2> QED BY <1>1, <1>2, <1>4, <2>1, <2>2, <2>3, AccountsAssumption DEF Init, TypeOK
<1>6. \A h \in Hands : Shaped(work[h]) /\ work[h].at = "idle"
  BY IdleType DEF Init, Shaped
<1> QED BY <1>5, <1>6 DEF WorkInv, Tied, Busy

\* The rows of every store keep their types.
THEOREM TenantTables == Spec => []TypeOK
<1>1. Init => WorkInv
  BY WorkStart
<1>2. WorkInv /\ [Next]_vars => WorkInv'
  BY WorkStep
<1>3. WorkInv => TypeOK
  BY DEF WorkInv
<1> QED BY <1>1, <1>2, <1>3, PTL DEF Spec

-----------------------------------------------------------------------------
(* Nobody works for two businesses. *)

\* Two requests for one e-mail have crossed.
Meeting == \A g, h \in Busy : g # h /\ work[g].email = work[h].email => work[g].email \in crossed

\* Past the check, the person has no row of another business.
Checked == \A h \in Hands :
  Trusted(work[h]) => work[h].email \in crossed \/ Tenants(work[h].user) \subseteq {work[h].biz}

Alone == \A u \in alive : emails[u] \in crossed \/ \E b \in Businesses : Tenants(u) \subseteq {b}

TenantInv == WorkInv /\ Meeting /\ Checked /\ Alone

\* A request that takes a step, with what it then is and what access it gave.
LEMMA TenantStep ==
  ASSUME TenantInv, WorkInv', NEW h \in Hands, NEW w, work[h].at # "idle", Becomes(h, w),
         \A u \in DOMAIN emails : emails'[u] = emails[u],
         crossed \subseteq crossed',
         \A u : Tenants(u)' \subseteq Tenants(u) \cup {b \in {work[h].biz} : At(h, "bind") /\ u = work[h].user},
         \A u \in alive' : u \in alive \/ Tenants(u)' = {},
         Trusted(w) => w.email \in crossed' \/ Tenants(w.user)' \subseteq {w.biz}
  PROVE  TenantInv'
<1>1. /\ work \in [Hands -> Work] /\ ~Trusted(Idle) /\ Idle.at = "idle" /\ TypeOK
      /\ work'[h] = w /\ \A g \in Hands : g # h => work'[g] = work[g]
      /\ w.at # "idle" => w.email = work[h].email /\ w.biz = work[h].biz
  BY IdleType DEF TenantInv, WorkInv, TypeOK, Becomes, Carries, Trusted
<1>2. Meeting'
  BY <1>1 DEF TenantInv, Meeting, Busy
<1>3. At(h, "bind") => work[h].email \in crossed \/ Tenants(work[h].user) \subseteq {work[h].biz}
  BY DEF TenantInv, Checked, Trusted, At
<1>4. Checked'
  <2>1. ASSUME NEW g \in Hands, NEW v, v = work'[g], Trusted(v), v.email \notin crossed'
        PROVE  Tenants(v.user)' \subseteq {v.biz}
    <3>1. CASE g = h
      BY <1>1, <2>1, <3>1
    <3>2. CASE g # h
      <4>1. v = work[g] /\ work[g].at # "idle"
        BY <1>1, <2>1, <3>2 DEF Trusted
      <4>2. Tenants(v.user) \subseteq {v.biz}
        BY <2>1, <4>1 DEF TenantInv, Checked
      <4>3. CASE At(h, "bind") /\ v.user = work[h].user
        <5>1. work[h].user # Nobody
          BY <4>3 DEF TenantInv, WorkInv, Shaped, At
        <5>2. work[g].email = work[h].email
          BY <4>1, <4>3, <5>1 DEF TenantInv, WorkInv, Tied, Busy
        <5>3. work[g].email \in crossed
          BY <3>2, <4>1, <5>2 DEF TenantInv, Meeting, Busy
        <5> QED BY <2>1, <4>1, <5>3
      <4>4. CASE ~(At(h, "bind") /\ v.user = work[h].user)
        BY <4>2, <4>4
      <4> QED BY <4>3, <4>4
    <3> QED BY <3>1, <3>2
  <2> QED BY <2>1 DEF Checked, Tenants, RowsOf
<1>5. Alone'
  <2> SUFFICES ASSUME NEW u \in alive', emails'[u] \notin crossed'
               PROVE  \E b \in Businesses : Tenants(u)' \subseteq {b}
    BY DEF Alone
  <2>1. CASE u \notin alive
    BY <2>1, AccountsAssumption
  <2>2. CASE u \in alive
    <3>1. u \in DOMAIN emails /\ emails'[u] = emails[u] /\ emails[u] \notin crossed
      BY <1>1, <2>2, UsersType
    <3>2. PICK b \in Businesses : Tenants(u) \subseteq {b}
      BY <2>2, <3>1 DEF TenantInv, Alone
    <3>3. CASE At(h, "bind") /\ u = work[h].user
      <4>1. emails[u] = work[h].email
        <5>1. u # Nobody
          BY <1>1, <2>2, UsersType
        <5> QED BY <3>3, <5>1 DEF TenantInv, WorkInv, Tied, Busy
      <4>2. Tenants(u) \subseteq {work[h].biz} /\ work[h].biz \in Businesses
        BY <1>1, <1>3, <3>1, <3>3, <4>1 DEF Work
      <4> QED BY <4>2
    <3> QED BY <3>2, <3>3
  <2> QED BY <2>1, <2>2
<1> QED BY <1>2, <1>4, <1>5 DEF TenantInv

LEMMA TenantNext ==
  ASSUME TenantInv, [Next]_vars
  PROVE  TenantInv'
<1>0. WorkInv' /\ WorkInv /\ TypeOK
  BY WorkStep DEF TenantInv, WorkInv
<1>1. CASE UNCHANGED vars
  BY <1>0, <1>1 DEF vars, tables, history, stranded, TenantInv, Meeting, Checked, Alone, Tenants, RowsOf, Busy
<1>2. ASSUME NEW h \in Hands, Handle(h)
      PROVE  TenantInv'
  <2>0. TypeOK /\ Shaped(work[h]) /\ work \in [Hands -> Work]
    BY <1>0 DEF WorkInv, TypeOK
  <2>1. CASE \E w \in Work : ComesIn(h, w)
    <3>1. PICK w \in Work : ComesIn(h, w)
      BY <2>1
    <3>2. /\ work' = [work EXCEPT ![h] = w] /\ UNCHANGED <<emails, alive, access>>
          /\ crossed' = crossed \cup {e \in {w.email} : \E g \in Busy : work[g].email = e}
          /\ work[h].at = "idle"
      BY <3>1 DEF ComesIn, Accept, At
    <3>3. work'[h] = w /\ \A g \in Hands : g # h => work'[g] = work[g]
      BY <2>0, <3>2
    <3>4. \A u : Tenants(u)' = Tenants(u)
      BY <3>2 DEF Tenants, RowsOf
    <3>5. Meeting'
      BY <3>2, <3>3 DEF TenantInv, Meeting, Busy
    <3>6. Trusted(w) => w.email \in crossed \/ Tenants(w.user) \subseteq {w.biz}
      <4>1. Trusted(w) => w.user \in alive /\ w.biz \in Tenants(w.user) /\ w.email = emails[w.user]
        BY <3>1 DEF ComesIn, Incoming, Trusted
      <4> QED BY <4>1 DEF TenantInv, Alone
    <3>7. Checked'
      BY <3>2, <3>3, <3>4, <3>6 DEF TenantInv, Checked
    <3>8. Alone'
      BY <3>2, <3>4 DEF TenantInv, Alone
    <3> QED BY <1>0, <3>5, <3>7, <3>8 DEF TenantInv
  <2>2. CASE Finds(h)
    <3>1. PICK w : Becomes(h, w) /\ ~Trusted(w)
      BY <2>0, <2>2, FindsOn
    <3>2. UNCHANGED tables /\ crossed' = crossed /\ work[h].at # "idle"
      BY <2>2 DEF Finds, At, NoHistory, history
    <3>3. \A u : Tenants(u)' = Tenants(u)
      BY <3>2 DEF Tenants, RowsOf, tables
    <3> QED BY <1>0, <3>1, <3>2, <3>3, TenantStep DEF tables
  <2>3. CASE Passes(h)
    <3>1. PICK w : Becomes(h, w) /\ w.at # "idle" /\ w.user = work[h].user
      BY <2>0, <2>3, PassesOn
    <3>2. /\ UNCHANGED tables /\ work[h].at # "idle" /\ crossed \subseteq crossed'
          /\ work[h].email \in crossed' \/ Tenants(work[h].user) \subseteq {work[h].biz}
      BY <2>3 DEF Passes, At
    <3>3. \A u : Tenants(u)' = Tenants(u)
      BY <3>2 DEF Tenants, RowsOf, tables
    <3>4. w.email = work[h].email /\ w.biz = work[h].biz
      BY <3>1, IdleType DEF Becomes, Carries
    <3> QED BY <1>0, <3>1, <3>2, <3>3, <3>4, TenantStep DEF tables
  <2>4. CASE Makes(h)
    <3>1. PICK w : Becomes(h, w) /\ w.user = Len(emails) + 1
      BY <2>0, <2>4, MakesOn
    <3>2. /\ Len(emails) + 1 \notin DOMAIN emails /\ \A u \in DOMAIN emails : emails'[u] = emails[u]
      BY <2>0, <2>4, MakesOn
    <3>3. /\ access' = access /\ crossed' = crossed /\ work[h].at # "idle"
          /\ alive' = alive \cup {Len(emails) + 1}
      BY <2>4 DEF Makes, MakeLogin, At, NoHistory, history
    <3>4. (\A u : Tenants(u)' = Tenants(u)) /\ Tenants(Len(emails) + 1) = {}
      <4>1. Len(emails) + 1 \notin alive
        BY <2>0, <3>2, UsersType
      <4> QED BY <2>0, <3>3, <4>1, RowsType DEF Tenants, RowsOf
    <3> QED BY <1>0, <3>1, <3>2, <3>3, <3>4, TenantStep
  <2>5. CASE Turn(h)
    <3>1. PICK w : /\ Becomes(h, w)
                   /\ Trusted(w) => Trusted(work[h]) /\ w.user = work[h].user
      BY <2>5 DEF Turn, GoesOn
    <3>2. /\ work[h].at # "idle" /\ emails' = emails /\ alive' \subseteq alive /\ crossed' = crossed
          /\ \A u : Tenants(u)' \subseteq Tenants(u) \cup {b \in {work[h].biz} : At(h, "bind") /\ u = work[h].user}
      BY <2>5 DEF Turn
    <3>3. Trusted(w) => w.email \in crossed' \/ Tenants(w.user)' \subseteq {w.biz}
      <4>1. Trusted(w) => w.email = work[h].email /\ w.biz = work[h].biz
        BY <3>1, IdleType DEF Becomes, Carries, Trusted
      <4> QED BY <3>1, <3>2, <4>1 DEF TenantInv, Checked
    <3> QED BY <1>0, <3>1, <3>2, <3>3, TenantStep
  <2>6. CASE Loses(h)
    <3>1. GoesOn(h) /\ work[h].at # "idle"
      BY <2>0, <2>6, Refusing DEF Loses, At
    <3>2. PICK w : /\ Becomes(h, w)
                   /\ Trusted(w) => Trusted(work[h]) /\ w.user = work[h].user
      BY <3>1 DEF GoesOn
    <3>3. Len(emails) + 1 \notin alive /\ \A u \in DOMAIN emails : emails'[u] = emails[u]
      <4>1. work[h].email \in Emails
        BY <2>0 DEF TypeOK, Work
      <4> QED BY <2>0, <2>6, <4>1, LoginMade DEF Loses
    <3>4. access' = access /\ crossed' = crossed /\ alive' = alive \cup {Len(emails) + 1}
      BY <2>6 DEF Loses, MakeLogin
    <3>5. (\A u : Tenants(u)' = Tenants(u)) /\ Tenants(Len(emails) + 1) = {}
      BY <2>0, <3>3, <3>4, RowsType DEF Tenants, RowsOf
    <3>6. Trusted(w) => w.email \in crossed' \/ Tenants(w.user)' \subseteq {w.biz}
      <4>1. Trusted(w) => w.email = work[h].email /\ w.biz = work[h].biz
        BY <3>2, IdleType DEF Becomes, Carries, Trusted
      <4> QED BY <3>2, <3>4, <3>5, <4>1 DEF TenantInv, Checked
    <3> QED BY <1>0, <3>1, <3>2, <3>3, <3>4, <3>5, <3>6, TenantStep
  <2> QED BY <1>2, <2>0, <2>1, <2>2, <2>3, <2>4, <2>5, <2>6, Turns
<1> QED BY <1>1, <1>2 DEF Next

\* Nobody works for two businesses, however many requests are handled at one
\* time and whatever fails, but for e-mails two of them worked on together.
THEOREM OneTenantEach == Spec => []OneTenant
<1>1. Init => TenantInv
  <2> SUFFICES ASSUME Init
               PROVE  TenantInv
    OBVIOUS
  <2>1. \A h \in Hands : work[h].at = "idle" /\ ~Trusted(work[h])
    BY IdleType DEF Init, Trusted
  <2>2. \A u : Tenants(u) \subseteq {Home}
    BY DEF Init, Tenants, RowsOf
  <2> QED BY <2>1, <2>2, WorkStart, AccountsAssumption DEF TenantInv, Meeting, Checked, Alone, Busy
<1>2. TenantInv /\ [Next]_vars => TenantInv'
  BY TenantNext
<1>3. TenantInv => OneTenant
  <2> SUFFICES ASSUME TenantInv, NEW u \in alive, emails[u] \notin crossed
               PROVE  Cardinality(Tenants(u)) <= 1
    BY DEF OneTenant
  <2>1. PICK b \in Businesses : Tenants(u) \subseteq {b}
    BY DEF TenantInv, Alone
  <2>2. IsFiniteSet({b}) /\ Cardinality({b}) = 1
    BY FS_Singleton
  <2>3. IsFiniteSet(Tenants(u)) /\ Cardinality(Tenants(u)) <= Cardinality({b})
    BY <2>1, <2>2, FS_Subset
  <2> QED BY <2>2, <2>3
<1> QED BY <1>1, <1>2, <1>3, PTL DEF Spec

-----------------------------------------------------------------------------
(* Which businesses there are, and whose rows. *)

PlaceInv ==
  /\ \A r \in access : r.biz \in opened
  /\ opened \subseteq businesses
  /\ \A h \in Busy : work[h].op # "provision" => work[h].biz \in opened
  /\ \A h \in Busy : work[h].op = "provision" =>
       work[h].biz \in businesses \ opened /\ work[h].role = "owner"
  /\ \A g, h \in Busy : g # h /\ work[g].op = "provision" => work[h].biz # work[g].biz

\* What a step of a busy request, which becomes w, may do to the tables.
OnlyItsPeople(h) ==
  \A u \in alive : u # work[h].user \/ ~TakesUp(work[h]) =>
    /\ u \in alive' /\ role'[u] = role[u]
    /\ \A r \in Row : r.user = u => (r \in access' <=> r \in access)

GivesOnlyItsRows(h, w) ==
  /\ \A u : Tenants(u)' \subseteq Tenants(u)
            \cup {b \in {work[h].biz} : w = Idle /\ u = work[h].user /\ u \in alive}
  /\ \A r \in access' : r \in access \/ (r.biz = work[h].biz /\ r.biz \in opened')

OpensOnlyItsOwn(h, w) ==
  \/ UNCHANGED <<opened, businesses>>
  \/ /\ w = Idle /\ work[h].op = "provision" /\ opened' = opened /\ businesses' = businesses \ {work[h].biz}
  \/ /\ w = Idle /\ work[h].op = "provision" /\ opened' = opened \cup {work[h].biz}
     /\ businesses' = businesses /\ At(h, "bind") /\ work[h].user \in alive /\ UNCHANGED <<alive, role>>
     /\ [user |-> work[h].user, biz |-> work[h].biz, wide |-> TRUE] \in access'

\* Whom it takes up works for its business alone, or shakes the others.
TakesOver(h, w) ==
  TakesUp(w) => \/ TakesUp(work[h]) /\ w.user = work[h].user
                \/ \A b \in Tenants(w.user)' : b = w.biz \/ b \in shaken'

ProfileDone(h, w) ==
  w.at \in {"clear", "bind"} /\ w.op = "provision" =>
    /\ alive' = alive /\ w.user = work[h].user
    /\ \/ work[h].at \in {"clear", "bind"} /\ role' = role
       \/ w.user \in alive => role'[w.user] = w.role

DeletesOnce(h, w) ==
  /\ work[h].op = "delete" => \/ UNCHANGED tables
                              \/ At(h, "remove") /\ DeleteLogin(work[h].user) /\ w = Idle
  /\ w.at = "remove" => CountOwners(h) /\ UNCHANGED tables /\ w.user = work[h].user

Effects(h, w) ==
  /\ Becomes(h, w) /\ work[h].at # "idle" /\ shaken \subseteq shaken'
  /\ \A u \in DOMAIN emails : emails'[u] = emails[u]
  /\ \A u \in alive' : u \in alive \/ (Tenants(u)' = {} /\ u \notin DOMAIN emails)
  /\ OnlyItsPeople(h) /\ GivesOnlyItsRows(h, w) /\ OpensOnlyItsOwn(h, w)
  /\ ProfileDone(h, w) /\ DeletesOnce(h, w) /\ TakesOver(h, w)

\* A step that leaves the tables alone.
LEMMA QuietEffects ==
  ASSUME WorkInv, NEW h \in Hands, NEW w, Becomes(h, w), After(h, w.at), work[h].at # "idle",
         UNCHANGED tables, opened' = opened, shaken \subseteq shaken', w.user = work[h].user \/ w.at # "remove",
         w.at \notin {"clear", "bind"}, w.at = "remove" => CountOwners(h), TakesOver(h, w)
  PROVE  Effects(h, w)
<1>1. UNCHANGED <<emails, alive, role, access, businesses>> /\ \A u : Tenants(u)' = Tenants(u)
  BY DEF tables, Tenants, RowsOf
<1>2. OnlyItsPeople(h) /\ GivesOnlyItsRows(h, w) /\ OpensOnlyItsOwn(h, w)
  BY <1>1 DEF OnlyItsPeople, GivesOnlyItsRows, OpensOnlyItsOwn
<1>3. ProfileDone(h, w) /\ DeletesOnce(h, w)
  BY <1>1 DEF ProfileDone, DeletesOnce
<1> QED BY <1>1, <1>2, <1>3 DEF Effects

\* Its person is one of the logins of its e-mail.
LEMMA ItsPerson ==
  ASSUME WorkInv, NEW h \in Hands, work[h].at # "idle", NEW u \in alive, u = work[h].user
  PROVE  emails[u] = work[h].email /\ u \in Users /\ u # Nobody
<1>1. u \in Users /\ u # Nobody
  BY UsersType DEF WorkInv
<1> QED BY <1>1 DEF WorkInv, Tied, Busy

LEMMA DeleteEffects ==
  ASSUME WorkInv, NEW h \in Hands, TakesUp(work[h]), DeleteLogin(work[h].user), emails' = emails
  PROVE  /\ OnlyItsPeople(h) /\ \A u : Tenants(u)' \subseteq Tenants(u)
         /\ alive' \subseteq alive /\ access' \subseteq access
<1>2. alive \subseteq Users /\ role \in [Users -> Roles \cup {"none"}]
  BY UsersType DEF WorkInv, TypeOK
<1>3. OnlyItsPeople(h)
  BY <1>2 DEF OnlyItsPeople, DeleteLogin
<1> QED BY <1>3 DEF DeleteLogin, Tenants, RowsOf

LEMMA ProfileEffects ==
  ASSUME WorkInv, NEW h \in Hands, WriteProfile(h)
  PROVE  \E w : Effects(h, w)
<1>0. TypeOK /\ Shaped(work[h]) /\ At(h, "profile") /\ work[h].at # "idle" /\ work[h].op # "delete"
      /\ TakesUp(work[h])
  BY DEF WorkInv, WriteProfile, At, Shaped, TakesUp
<1>1. PICK w : /\ Becomes(h, w) /\ After(h, w.at) /\ (Trusted(w) => w.user = work[h].user)
               /\ TakesOver(h, w)
  BY <1>0, StepsOn DEF GoesOn, TakesOver
<1>2. /\ UNCHANGED <<emails, alive, access, businesses>> /\ NoHistory
      /\ role' = role \/ (work[h].user \in alive /\ role' = [role EXCEPT ![work[h].user] = work[h].role])
  BY Zenon DEF WriteProfile
<1>3. \A u : Tenants(u)' = Tenants(u)
  BY <1>2 DEF Tenants, RowsOf
<1>4. OnlyItsPeople(h)
  <2>1. alive \subseteq Users /\ role \in [Users -> Roles \cup {"none"}]
    BY UsersType DEF WorkInv, TypeOK
  <2> QED BY <1>0, <1>2, <2>1 DEF OnlyItsPeople
<1>5. GivesOnlyItsRows(h, w) /\ OpensOnlyItsOwn(h, w)
  BY <1>2, <1>3 DEF GivesOnlyItsRows, OpensOnlyItsOwn, NoHistory, history
<1>6. DeletesOnce(h, w)
  BY <1>0, <1>1 DEF DeletesOnce, After, At
<1>7. ProfileDone(h, w)
  <2> SUFFICES ASSUME w.at \in {"clear", "bind"}, w.op = "provision"
               PROVE  w.user = work[h].user /\ (w.user \in alive => role'[w.user] = w.role)
    BY <1>2 DEF ProfileDone
  <2>1. w.user = work[h].user /\ w.op = work[h].op /\ w.role = work[h].role /\ work' = [work EXCEPT ![h] = w]
    BY <1>1, IdleType DEF Trusted, Becomes, Carries
  <2>2. work'[h].at \in {"clear", "bind"}
    BY <2>1 DEF WorkInv, TypeOK
  <2>3. CASE Refuse(h)
    <3>1. work'[h].at \in {"unlogin", "unbranch", "idle"}
      <4>1. work \in [Hands -> Work] /\ Idle.at = "idle"
        BY IdleType DEF WorkInv, TypeOK
      <4>2. Goto(h, "unlogin") \/ Goto(h, "unbranch") \/ Finish(h)
        BY <2>3, Zenon DEF Refuse
      <4>3. To(h, "unlogin").at = "unlogin" /\ To(h, "unbranch").at = "unbranch"
            /\ (Goto(h, "unlogin") => work' = [work EXCEPT ![h] = To(h, "unlogin")])
            /\ (Goto(h, "unbranch") => work' = [work EXCEPT ![h] = To(h, "unbranch")])
        BY <1>0, Moves DEF Steps
      <4> QED BY <4>1, <4>2, <4>3 DEF Finish
    <3> QED BY <2>2, <3>1
  <2>4. CASE Goto(h, "unlogin")
    <3>1. work \in [Hands -> Work] /\ To(h, "unlogin").at = "unlogin" /\ work' = [work EXCEPT ![h] = To(h, "unlogin")]
      BY <1>0, <2>4, Moves DEF Steps, TypeOK
    <3> QED BY <2>2, <3>1
  <2>5. CASE work[h].user \in alive /\ role' = [role EXCEPT ![work[h].user] = work[h].role]
    BY <1>0, <2>1, <2>5, UsersType DEF TypeOK
  <2>6. CASE work[h].user \notin alive
    BY <2>1, <2>6
  <2> QED BY <2>1, <2>3, <2>4, <2>5, <2>6, Zenon DEF WriteProfile
<1> QED BY <1>0, <1>1, <1>2, <1>3, <1>4, <1>5, <1>6, <1>7 DEF Effects, NoHistory, history

LEMMA ClearEffects ==
  ASSUME WorkInv, NEW h \in Hands, ClearAccess(h)
  PROVE  \E w : Effects(h, w)
<1>0. TypeOK /\ Shaped(work[h]) /\ At(h, "clear") /\ work[h].at # "idle" /\ work[h].op # "delete"
      /\ TakesUp(work[h])
  BY DEF WorkInv, ClearAccess, At, Shaped, TakesUp
<1>1. PICK w : /\ Becomes(h, w) /\ After(h, w.at) /\ (Trusted(w) => w.user = work[h].user)
               /\ TakesOver(h, w)
  BY <1>0, StepsOn DEF GoesOn, TakesOver
<1>2. /\ UNCHANGED <<emails, alive, role, businesses>> /\ NoHistory
      /\ access' \subseteq access
      /\ \A r \in access : r.user # work[h].user => r \in access'
  BY DEF ClearAccess
<1>3. \A u : Tenants(u)' \subseteq Tenants(u)
  BY <1>2 DEF Tenants, RowsOf
<1>4. OnlyItsPeople(h)
  BY <1>0, <1>2 DEF OnlyItsPeople
<1>5. GivesOnlyItsRows(h, w) /\ OpensOnlyItsOwn(h, w)
  BY <1>2, <1>3 DEF GivesOnlyItsRows, OpensOnlyItsOwn, NoHistory, history
<1>6. DeletesOnce(h, w) /\ ProfileDone(h, w)
  BY <1>0, <1>1, <1>2 DEF DeletesOnce, ProfileDone, After, At, Trusted
<1> QED BY <1>0, <1>1, <1>2, <1>4, <1>5, <1>6 DEF Effects, NoHistory, history

LEMMA BindEffects ==
  ASSUME WorkInv, PlaceInv, NEW h \in Hands, InsertAccess(h)
  PROVE  \E w : Effects(h, w)
<1>0. TypeOK /\ Shaped(work[h]) /\ At(h, "bind") /\ work[h].at # "idle" /\ work[h].op # "delete"
      /\ work[h] \in Work /\ TakesUp(work[h])
  BY DEF WorkInv, InsertAccess, At, Shaped, TypeOK, TakesUp
<1>1. UNCHANGED <<emails, alive, role, businesses, shaken>>
  BY DEF InsertAccess
<1>2. CASE access' = access /\ opened' = opened
  <2>1. PICK w : Becomes(h, w) /\ After(h, w.at) /\ TakesOver(h, w)
    BY <1>0, StepsOn DEF GoesOn, TakesOver
  <2>2. w.at \notin {"clear", "bind", "remove"}
    BY <1>0, <2>1 DEF After, At
  <2> QED BY <1>0, <1>1, <1>2, <2>1, <2>2, QuietEffects DEF tables
<1>3. CASE /\ Bindable(h) /\ Finish(h)
           /\ access' = access \cup {[user |-> work[h].user, biz |-> work[h].biz, wide |-> work[h].role = "owner"]}
           /\ opened' = IF work[h].op = "provision" THEN opened \cup {work[h].biz} ELSE opened
  <2> DEFINE r == [user |-> work[h].user, biz |-> work[h].biz, wide |-> work[h].role = "owner"]
  <2>1. r.user = work[h].user /\ r.biz = work[h].biz /\ access' = access \cup {r}
    BY <1>3
  <2>2. work[h].op = "provision" => r = [user |-> work[h].user, biz |-> work[h].biz, wide |-> TRUE]
    <3>1. work[h].op = "provision" => work[h].role = "owner"
      BY <1>0 DEF PlaceInv, Busy
    <3> QED BY <3>1, Zenon
  <2> HIDE DEF r
  <2>3. Becomes(h, Idle) /\ work[h].user \in alive /\ Idle.at = "idle" /\ TakesOver(h, Idle)
    BY <1>0, <1>3, Ends, IdleType DEF Bindable, TakesOver
  <2>4. work[h].biz \in opened'
    BY <1>0, <1>3 DEF PlaceInv, Busy
  <2>5. GivesOnlyItsRows(h, Idle)
    BY <2>1, <2>3, <2>4 DEF GivesOnlyItsRows, Tenants, RowsOf
  <2>6. OnlyItsPeople(h)
    BY <1>0, <1>1, <2>1 DEF OnlyItsPeople
  <2>7. OpensOnlyItsOwn(h, Idle)
    <3>1. CASE work[h].op = "provision"
      BY <1>0, <1>1, <1>3, <2>1, <2>2, <2>3, <3>1 DEF OpensOnlyItsOwn
    <3>2. CASE work[h].op # "provision"
      BY <1>1, <1>3, <3>2 DEF OpensOnlyItsOwn
    <3> QED BY <3>1, <3>2
  <2>8. DeletesOnce(h, Idle) /\ ProfileDone(h, Idle)
    BY <1>0, <2>3 DEF DeletesOnce, ProfileDone
  <2> QED BY <1>0, <1>1, <2>3, <2>5, <2>6, <2>7, <2>8, Zenon DEF Effects
<1>4. \/ Bindable(h) /\ Finish(h)
         /\ access' = access \cup {[user |-> work[h].user, biz |-> work[h].biz, wide |-> work[h].role = "owner"]}
         /\ opened' = IF work[h].op = "provision" THEN opened \cup {work[h].biz} ELSE opened
      \/ UNCHANGED <<access, opened>>
  BY Zenon DEF InsertAccess
<1> QED BY <1>2, <1>3, <1>4

LEMMA RemoveEffects ==
  ASSUME WorkInv, NEW h \in Hands, RemoveUser(h)
  PROVE  \E w : Effects(h, w)
<1>0. TypeOK /\ Shaped(work[h]) /\ At(h, "remove") /\ work[h].at # "idle" /\ Idle.at = "idle"
      /\ TakesUp(work[h])
  BY IdleType DEF WorkInv, RemoveUser, At, Shaped, TakesUp
<1>1. Becomes(h, Idle) /\ UNCHANGED <<emails, businesses, opened, shaken>> /\ TakesOver(h, Idle)
  BY <1>0, Ends DEF RemoveUser, NoHistory, history, TakesOver
<1>2. CASE UNCHANGED <<alive, role, access>>
  <2>1. After(h, Idle.at)
    BY <1>0 DEF After
  <2> QED BY <1>0, <1>1, <1>2, <2>1, QuietEffects DEF tables
<1>3. CASE DeleteLogin(work[h].user)
  <2>1. OnlyItsPeople(h) /\ (\A u : Tenants(u)' \subseteq Tenants(u)) /\ alive' \subseteq alive /\ access' \subseteq access
    BY <1>0, <1>1, <1>3, DeleteEffects
  <2>2. GivesOnlyItsRows(h, Idle) /\ OpensOnlyItsOwn(h, Idle) /\ ProfileDone(h, Idle) /\ DeletesOnce(h, Idle)
    BY <1>0, <1>1, <1>3, <2>1 DEF GivesOnlyItsRows, OpensOnlyItsOwn, ProfileDone, DeletesOnce
  <2> QED BY <1>0, <1>1, <2>1, <2>2 DEF Effects
<1> QED BY <1>2, <1>3 DEF RemoveUser

LEMMA UndoEffects ==
  ASSUME WorkInv, PlaceInv, NEW h \in Hands, UndoLogin(h) \/ UndoBusiness(h)
  PROVE  \E w : Effects(h, w)
<1>0. TypeOK /\ Shaped(work[h]) /\ work[h].at \in {"unlogin", "unbusiness"} /\ work[h].op # "delete"
  BY DEF WorkInv, UndoLogin, UndoBusiness, At, Shaped
<1>1. PICK w : Becomes(h, w) /\ After(h, w.at) /\ TakesOver(h, w)
  BY <1>0, StepsOn DEF GoesOn, TakesOver
<1>2. w.at \notin {"clear", "bind", "remove"} /\ UNCHANGED <<emails, opened, shaken>>
  BY <1>0, <1>1 DEF After, At, UndoLogin, UndoBusiness
<1>3. CASE UNCHANGED <<alive, role, access, businesses>>
  BY <1>0, <1>1, <1>2, <1>3, QuietEffects DEF tables
<1>4. CASE UndoLogin(h) /\ DeleteLogin(work[h].user) /\ UNCHANGED businesses
  <2>0. TakesUp(work[h])
    BY <1>0, <1>4 DEF UndoLogin, At, Shaped, TakesUp
  <2>1. OnlyItsPeople(h) /\ (\A u : Tenants(u)' \subseteq Tenants(u)) /\ alive' \subseteq alive /\ access' \subseteq access
    BY <1>2, <1>4, <2>0, DeleteEffects
  <2>2. GivesOnlyItsRows(h, w) /\ OpensOnlyItsOwn(h, w) /\ ProfileDone(h, w) /\ DeletesOnce(h, w)
    BY <1>0, <1>2, <1>4, <2>1 DEF GivesOnlyItsRows, OpensOnlyItsOwn, ProfileDone, DeletesOnce
  <2> QED BY <1>0, <1>1, <1>2, <2>1, <2>2 DEF Effects
<1>5. CASE /\ UndoBusiness(h) /\ businesses' = businesses \ {work[h].biz}
           /\ access' = {r \in access : r.biz # work[h].biz}
  <2>1. work[h].op = "provision" /\ work[h].biz \notin opened /\ UNCHANGED <<alive, role>> /\ Finish(h)
    BY <1>0, <1>5 DEF PlaceInv, Busy, Shaped, UndoBusiness, At
  <2>2. access' = access
    BY <1>5, <2>1 DEF PlaceInv
  <2>3. Becomes(h, Idle) /\ Idle.at = "idle" /\ TakesOver(h, Idle)
    BY <1>0, <2>1, Ends, IdleType DEF TakesOver
  <2>4. /\ OnlyItsPeople(h) /\ GivesOnlyItsRows(h, Idle) /\ OpensOnlyItsOwn(h, Idle) /\ ProfileDone(h, Idle)
        /\ DeletesOnce(h, Idle)
    BY <1>0, <1>2, <1>5, <2>1, <2>2, <2>3 DEF OnlyItsPeople, GivesOnlyItsRows, OpensOnlyItsOwn, ProfileDone,
       DeletesOnce, Tenants, RowsOf
  <2> QED BY <1>0, <1>2, <2>1, <2>3, <2>4 DEF Effects
<1>6. CASE UndoLogin(h)
  BY <1>3, <1>4, <1>6 DEF UndoLogin
<1>7. CASE UndoBusiness(h)
  BY <1>3, <1>5, <1>7 DEF UndoBusiness
<1> QED BY <1>6, <1>7

LEMMA MakesEffects ==
  ASSUME WorkInv, NEW h \in Hands, Makes(h) \/ Loses(h)
  PROVE  \E w : Effects(h, w)
<1>0. TypeOK /\ Shaped(work[h]) /\ work[h].at = "login" /\ work[h].op # "delete"
      /\ role \in [Users -> Roles \cup {"none"}]
  BY DEF WorkInv, Makes, Loses, At, TypeOK, Shaped
<1> DEFINE n == Len(emails) + 1
<1>2. n \notin DOMAIN emails /\ n \notin alive /\ \A u \in DOMAIN emails : emails'[u] = emails[u]
  <2>1. MakeLogin(work[h].email) /\ work[h].email \in Emails
    BY <1>0 DEF Makes, Loses, TypeOK, Work
  <2> QED BY <1>0, <2>1, LoginMade
<1>3. /\ UNCHANGED <<access, businesses, opened, shaken>>
      /\ alive' = alive \cup {n} /\ role' = [role EXCEPT ![n] = "staff"]
  BY DEF Makes, Loses, MakeLogin, NoHistory, history
<1> HIDE DEF n
<1>4. alive \subseteq Users
  BY <1>0, UsersType
<1>5. (\A u : Tenants(u)' = Tenants(u)) /\ Tenants(n) = {}
  BY <1>0, <1>2, <1>3, RowsType DEF Tenants, RowsOf
<1>6. OnlyItsPeople(h)
  BY <1>0, <1>2, <1>3, <1>4 DEF OnlyItsPeople
<1>1. PICK w : Becomes(h, w) /\ w.at \notin {"clear", "bind", "remove"} /\ TakesOver(h, w)
  <2>1. CASE Makes(h)
    <3>1. PICK w : Becomes(h, w) /\ w.at = "profile" /\ w.user = n
      BY <1>0, <2>1, MakesOn DEF n
    <3> QED BY <1>5, <3>1 DEF TakesOver
  <2>2. CASE Loses(h)
    <3>1. GoesOn(h)
      BY <1>0, <2>2, Refusing DEF Loses
    <3>2. PICK w : /\ Becomes(h, w) /\ After(h, w.at)
                   /\ TakesUp(w) => TakesUp(work[h]) /\ w.user = work[h].user
      BY <3>1 DEF GoesOn
    <3> QED BY <1>0, <3>2 DEF TakesOver, After, At
  <2> QED BY <2>1, <2>2
<1>8. GivesOnlyItsRows(h, w) /\ OpensOnlyItsOwn(h, w) /\ ProfileDone(h, w) /\ DeletesOnce(h, w)
  BY <1>0, <1>1, <1>3, <1>5 DEF GivesOnlyItsRows, OpensOnlyItsOwn, ProfileDone, DeletesOnce
<1> QED BY <1>0, <1>1, <1>2, <1>3, <1>5, <1>6, <1>8 DEF Effects

\* Every step of a busy request.
LEMMA EveryEffect ==
  ASSUME WorkInv, PlaceInv, NEW h \in Hands, Handle(h)
  PROVE  (\E w \in Work : ComesIn(h, w)) \/ (\E w : Effects(h, w))
<1>0. TypeOK /\ Shaped(work[h]) /\ Idle.at = "idle"
  BY IdleType DEF WorkInv
<1> SUFFICES ASSUME ~(\E w \in Work : ComesIn(h, w))
             PROVE  \E w : Effects(h, w)
  OBVIOUS
<1>1. CASE Finds(h)
  <2>1. PICK w : Becomes(h, w) /\ w.at = "check" /\ TakesOver(h, w)
    BY <1>0, <1>1, FindsOn DEF TakesOver
  <2>2. UNCHANGED tables /\ opened' = opened /\ shaken' = shaken /\ work[h].at # "idle" /\ After(h, w.at)
    BY <1>1, <2>1 DEF Finds, At, NoHistory, history, After
  <2> QED BY <2>1, <2>2, QuietEffects
<1>2. CASE Passes(h)
  <2>1. PICK w : Becomes(h, w) /\ w.at \in {"reset", "profile"} /\ w.user = work[h].user
    BY <1>0, <1>2, PassesOn
  <2>2. UNCHANGED tables /\ opened' = opened /\ shaken \subseteq shaken' /\ work[h].at # "idle" /\ After(h, w.at)
    BY <1>2, <2>1 DEF Passes, At, After
  <2>3. w.biz = work[h].biz
    BY <2>1, IdleType DEF Becomes, Carries
  <2>4. \A b \in Tenants(work[h].user) : b = work[h].biz \/ b \in shaken'
    BY <1>2 DEF Passes
  <2>5. TakesOver(h, w)
    BY <2>1, <2>2, <2>3, <2>4 DEF TakesOver, Tenants, RowsOf, tables
  <2> QED BY <2>1, <2>2, <2>5, QuietEffects
<1>3. CASE Makes(h) \/ Loses(h)
  BY <1>3, MakesEffects
<1>4. CASE /\ ~Finds(h) /\ ~Passes(h) /\ ~Makes(h) /\ ~Loses(h)
           /\ \/ InsertBranch(h) \/ ListUsers(h) \/ CheckTenant(h) \/ CreateUser(h) \/ ResetUser(h)
              \/ CheckMember(h) \/ CheckDeletable(h) \/ CountOwners(h) \/ UndoBranch(h) \/ Die(h)
  <2>1. work[h].at \notin {"idle", "profile", "clear"} \/ Die(h)
    BY <1>4 DEF InsertBranch, ListUsers, CheckTenant, CreateUser, ResetUser, CheckMember, CheckDeletable,
         CountOwners, UndoBranch, At
  <2>2. /\ UNCHANGED tables /\ opened' = opened /\ shaken' = shaken /\ work[h].at # "idle"
        /\ work[h].at = "count" => CountOwners(h) \/ Die(h)
    <3>1. CASE ListUsers(h) \/ CheckTenant(h) \/ CreateUser(h)
      <4>1. UNCHANGED tables /\ NoHistory
        BY <1>0, <1>4, <3>1, LookupsOn
      <4> QED BY <3>1, <4>1 DEF ListUsers, CheckTenant, CreateUser, At, NoHistory, history
    <3>2. CASE InsertBranch(h) \/ ResetUser(h)
      BY <3>2 DEF InsertBranch, ResetUser, At, NoHistory, history
    <3>3. CASE CheckMember(h) \/ CheckDeletable(h) \/ CountOwners(h)
      BY <3>3 DEF CheckMember, CheckDeletable, CountOwners, At, NoHistory, history
    <3>4. CASE UndoBranch(h) \/ Die(h)
      BY <3>4 DEF UndoBranch, Die, At, NoHistory, history
    <3> QED BY <1>4, <3>1, <3>2, <3>3, <3>4
  <2>3. CASE Die(h)
    <3>1. Becomes(h, Idle) /\ After(h, Idle.at) /\ TakesOver(h, Idle)
      BY <1>0, <2>3, Ends DEF Die, After, TakesOver
    <3> QED BY <1>0, <2>2, <3>1, QuietEffects
  <2>4. CASE ~Die(h)
    <3>1. GoesOn(h)
      BY <1>0, <1>4, <2>2, <2>4, StepsOn, LookupsOn
    <3>2. PICK w : /\ Becomes(h, w) /\ After(h, w.at) /\ w.user \in {work[h].user, Nobody}
                   /\ TakesOver(h, w)
      BY <3>1 DEF GoesOn, TakesOver
    <3>3. w.at = "remove" => w.user # Nobody /\ CountOwners(h)
      BY <2>2, <2>4, <3>2 DEF Becomes, Shaped, After, At
    <3>4. w.at \notin {"clear", "bind"}
      BY <2>1, <2>4, <3>2 DEF After, At
    <3> QED BY <2>2, <3>2, <3>3, <3>4, QuietEffects
  <2> QED BY <2>3, <2>4
<1>5. CASE \/ WriteProfile(h) \/ ClearAccess(h) \/ InsertAccess(h) \/ RemoveUser(h)
           \/ UndoLogin(h) \/ UndoBusiness(h)
  BY <1>5, ProfileEffects, ClearEffects, BindEffects, RemoveEffects, UndoEffects
<1>6. ~(AskForPerson(h) \/ AskForChange(h) \/ AskForTenant(h))
  BY <1>0, Asks
<1> QED BY <1>1, <1>2, <1>3, <1>4, <1>5, <1>6 DEF Handle

\* What a request that comes in leaves as it was, and what it shakes.
LEMMA ComingIn ==
  ASSUME WorkInv, NEW h \in Hands, NEW w \in Work, ComesIn(h, w)
  PROVE  /\ UNCHANGED <<emails, alive, role, access, opened>> /\ work[h].at = "idle"
         /\ businesses' = businesses \cup {b \in {w.biz} : w.op = "provision"}
         /\ work'[h] = w /\ \A g \in Hands : g # h => work'[g] = work[g]
         /\ Busy' = Busy \cup {h} /\ h \notin Busy
         /\ \A u : Tenants(u)' = Tenants(u)
         /\ shaken \subseteq shaken'
         /\ \A g \in Busy : work[g].biz = w.biz \/ work[g].email = w.email =>
              work[g].biz \in shaken' /\ w.biz \in shaken'
         /\ EditsSelf(w) => w.biz \in shaken'
         /\ TakesUp(w) => \A b \in Tenants(w.user) : b = w.biz \/ b \in shaken'
<1>1. Accept(h, w) /\ Incoming(w) /\ UNCHANGED <<emails, alive, role, access>>
      /\ businesses' = businesses \cup {b \in {w.biz} : w.op = "provision"}
  BY DEF ComesIn
<1>2. /\ work' = [work EXCEPT ![h] = w] /\ opened' = opened /\ work[h].at = "idle"
      /\ shaken' = shaken \cup {work[g].biz : g \in Met(w)}
                          \cup {b \in {w.biz} : Met(w) # {} \/ EditsSelf(w)}
                          \cup Hidden(w)
  BY <1>1 DEF Accept, At
<1>3. work'[h] = w /\ (\A g \in Hands : g # h => work'[g] = work[g]) /\ w.at # "idle"
  BY <1>1, <1>2 DEF WorkInv, TypeOK, Incoming
<1>4. Busy' = Busy \cup {h} /\ h \notin Busy
  BY <1>2, <1>3 DEF Busy
<1>5. \A u : Tenants(u)' = Tenants(u)
  BY <1>1 DEF Tenants, RowsOf
<1>6. \A g \in Busy : work[g].biz = w.biz \/ work[g].email = w.email =>
        work[g].biz \in shaken' /\ w.biz \in shaken'
  <2> SUFFICES ASSUME NEW g \in Busy, work[g].biz = w.biz \/ work[g].email = w.email
               PROVE  work[g].biz \in shaken' /\ w.biz \in shaken'
    OBVIOUS
  <2>1. g \in Met(w)
    BY DEF Met
  <2> QED BY <1>2, <2>1
<1>7. TakesUp(w) => \A b \in Tenants(w.user) : b = w.biz \/ b \in shaken'
  <2>0. ~Made(w)
    BY <1>1 DEF Incoming, Made
  <2>1. TakesUp(w) => Hidden(w) = Tenants(w.user) \ {w.biz}
    BY <1>1, <2>0 DEF TakesUp, Incoming, Hidden
  <2> QED BY <1>2, <2>1
<1>8. EditsSelf(w) => w.biz \in shaken'
  BY <1>2
<1> QED BY <1>1, <1>2, <1>3, <1>4, <1>5, <1>6, <1>7, <1>8

\* What a step does to the requests.
LEMMA GoingOn ==
  ASSUME WorkInv, NEW h \in Hands, NEW w, Becomes(h, w), work[h].at # "idle"
  PROVE  /\ work'[h] = w /\ \A g \in Hands : g # h => work'[g] = work[g]
         /\ h \in Busy /\ Busy' \subseteq Busy
         /\ w.at # "idle" => /\ w # Idle /\ w.op = work[h].op /\ w.biz = work[h].biz /\ w.by = work[h].by
                             /\ w.email = work[h].email /\ w.role = work[h].role
<1>1. /\ work'[h] = w /\ \A g \in Hands : g # h => work'[g] = work[g]
      /\ w.at # "idle" => /\ w # Idle /\ w.op = work[h].op /\ w.biz = work[h].biz /\ w.by = work[h].by
                          /\ w.email = work[h].email /\ w.role = work[h].role
  BY IdleType DEF WorkInv, TypeOK, Becomes, Carries
<1> QED BY <1>1 DEF Busy

LEMMA OwnsARow ==
  ASSUME NEW u, NEW b, Owner(u, b)
  PROVE  b \in Tenants(u) /\ (PlaceInv => b \in opened)
<1> DEFINE r == [user |-> u, biz |-> b, wide |-> TRUE]
<1>1. r \in access /\ r.user = u /\ r.biz = b
  BY DEF Owner
<1> HIDE DEF r
<1> QED BY <1>1 DEF Tenants, RowsOf, PlaceInv

LEMMA PlaceStep ==
  ASSUME WorkInv, PlaceInv, [Next]_vars
  PROVE  PlaceInv'
<1>1. CASE UNCHANGED vars
  BY <1>1 DEF vars, tables, history, PlaceInv, Busy
<1>2. ASSUME NEW h \in Hands, NEW w \in Work, ComesIn(h, w)
      PROVE  PlaceInv'
  <2>1. /\ UNCHANGED <<access, opened>> /\ businesses' = businesses \cup {b \in {w.biz} : w.op = "provision"}
        /\ work'[h] = w /\ \A g \in Hands : g # h => work'[g] = work[g]
        /\ Busy' = Busy \cup {h} /\ h \notin Busy
    BY <1>2, ComingIn
  <2>2. /\ w.op # "provision" => w.biz \in opened
        /\ w.op = "provision" => w.biz \notin businesses /\ w.role = "owner"
    <3>1. w.op # "provision" => \E u \in alive : Owner(u, w.biz)
      BY <1>2 DEF ComesIn, Incoming, Callers
    <3>2. w.op = "provision" => w.biz \notin businesses /\ w.role = "owner"
      BY <1>2 DEF ComesIn, Incoming
    <3> QED BY <3>1, <3>2, OwnsARow
  <2>3. (\A r \in access' : r.biz \in opened') /\ opened' \subseteq businesses'
    BY <2>1 DEF PlaceInv
  <2>4. \A g \in Busy' : work'[g].op # "provision" => work'[g].biz \in opened'
    BY <2>1, <2>2 DEF PlaceInv, Busy
  <2>5. \A g \in Busy' : work'[g].op = "provision" =>
          work'[g].biz \in businesses' \ opened' /\ work'[g].role = "owner"
    BY <2>1, <2>2 DEF PlaceInv, Busy
  <2>6. \A f, g \in Busy' : f # g /\ work'[f].op = "provision" => work'[g].biz # work'[f].biz
    <3> SUFFICES ASSUME NEW f \in Busy', NEW g \in Busy', f # g, work'[f].op = "provision"
                 PROVE  work'[g].biz # work'[f].biz
      OBVIOUS
    <3>1. CASE f = h
      BY <2>1, <2>2, <3>1 DEF PlaceInv, Busy
    <3>2. CASE g = h
      BY <2>1, <2>2, <3>2 DEF PlaceInv, Busy
    <3>3. CASE f # h /\ g # h
      BY <2>1, <3>3 DEF PlaceInv, Busy
    <3> QED BY <3>1, <3>2, <3>3
  <2> QED BY <2>3, <2>4, <2>5, <2>6 DEF PlaceInv
<1>3. ASSUME NEW h \in Hands, NEW w, Effects(h, w)
      PROVE  PlaceInv'
  <2>1. /\ work'[h] = w /\ \A g \in Hands : g # h => work'[g] = work[g]
        /\ h \in Busy /\ Busy' \subseteq Busy
        /\ w.at # "idle" => w # Idle /\ w.op = work[h].op /\ w.biz = work[h].biz /\ w.role = work[h].role
    BY <1>3, GoingOn DEF Effects
  <2>2. /\ \/ UNCHANGED <<opened, businesses>>
           \/ /\ w = Idle /\ work[h].op = "provision" /\ opened' = opened
              /\ businesses' = businesses \ {work[h].biz}
           \/ /\ w = Idle /\ work[h].op = "provision" /\ opened' = opened \cup {work[h].biz}
              /\ businesses' = businesses
        /\ \A r \in access' : r \in access \/ (r.biz = work[h].biz /\ r.biz \in opened')
    BY <1>3 DEF Effects, OpensOnlyItsOwn, GivesOnlyItsRows
  <2>2a. w = Idle => w.at = "idle"
    BY IdleType
  <2>3. (\A r \in access' : r.biz \in opened') /\ opened' \subseteq businesses'
    BY <2>1, <2>2 DEF PlaceInv
  <2>4. \A g \in Busy' : work'[g].op # "provision" => work'[g].biz \in opened'
    BY <2>1, <2>2 DEF PlaceInv, Busy
  <2>5. \A g \in Busy' : work'[g].op = "provision" =>
          work'[g].biz \in businesses' \ opened' /\ work'[g].role = "owner"
    <3> SUFFICES ASSUME NEW g \in Busy', work'[g].op = "provision"
                 PROVE  work'[g].biz \in businesses' \ opened' /\ work'[g].role = "owner"
      OBVIOUS
    <3>1. g \in Busy /\ g \in Hands /\ work'[g].at # "idle"
      BY <2>1 DEF Busy
    <3>2. CASE g = h
      BY <2>1, <2>2, <2>2a, <3>1, <3>2 DEF PlaceInv
    <3>3. CASE g # h
      <4>1. work'[g] = work[g] /\ (work[h].op = "provision" => work[g].biz # work[h].biz)
        BY <2>1, <3>1, <3>3 DEF PlaceInv
      <4> QED BY <2>2, <3>1, <4>1 DEF PlaceInv
    <3> QED BY <3>2, <3>3
  <2>6. \A f, g \in Busy' : f # g /\ work'[f].op = "provision" => work'[g].biz # work'[f].biz
    BY <2>1 DEF PlaceInv, Busy
  <2> QED BY <2>3, <2>4, <2>5, <2>6 DEF PlaceInv
<1> QED BY <1>1, <1>2, <1>3, EveryEffect DEF Next

-----------------------------------------------------------------------------
(* A business that was opened keeps an owner. *)

\* Requests that met in a business, or on a person, shake it.
MetInv ==
  \A g, h \in Busy : g # h /\ (work[g].biz = work[h].biz \/ work[g].email = work[h].email) =>
    work[g].biz \in shaken /\ work[h].biz \in shaken

\* Whom a request has taken up belongs to its business alone.
PeopleInv ==
  \A h \in Busy : TakesUp(work[h]) =>
    \A b \in Tenants(work[h].user) : b = work[h].biz \/ b \in shaken

\* Who sent it stays an owner, and is not the one it changes.
SenderInv ==
  \A h \in Busy : work[h].op # "provision" /\ work[h].biz \notin shaken =>
    /\ work[h].by \in alive /\ Owner(work[h].by, work[h].biz)
    /\ work[h].op # "delete" => emails[work[h].by] # work[h].email

\* A new business gets an owner.
NewOwnerInv ==
  \A h \in Busy : work[h].op = "provision" /\ work[h].at \in {"clear", "bind"} /\ work[h].biz \notin shaken =>
    (work[h].user \in alive => role[work[h].user] = "owner")

\* An owner who is deleted is not the last.
OthersInv ==
  \A h \in Busy : work[h].at = "remove" /\ work[h].biz \notin shaken =>
    \E u \in OwnersOf(work[h].biz) : u # work[h].user

OwnerInv ==
  /\ WorkInv /\ PlaceInv /\ MetInv /\ PeopleInv /\ SenderInv /\ NewOwnerInv /\ OthersInv
  /\ KeepsOwner

LEMMA OwnerIncoming ==
  ASSUME OwnerInv, NEW h \in Hands, NEW w \in Work, ComesIn(h, w)
  PROVE  MetInv' /\ PeopleInv' /\ SenderInv' /\ NewOwnerInv' /\ OthersInv' /\ KeepsOwner'
<1>1. /\ UNCHANGED <<emails, alive, role, access, opened>>
      /\ businesses' = businesses \cup {b \in {w.biz} : w.op = "provision"}
      /\ work'[h] = w /\ \A g \in Hands : g # h => work'[g] = work[g]
      /\ Busy' = Busy \cup {h} /\ h \notin Busy
      /\ \A u : Tenants(u)' = Tenants(u)
      /\ shaken \subseteq shaken'
      /\ \A g \in Busy : work[g].biz = w.biz \/ work[g].email = w.email =>
           work[g].biz \in shaken' /\ w.biz \in shaken'
      /\ EditsSelf(w) => w.biz \in shaken'
      /\ TakesUp(w) => \A b \in Tenants(w.user) : b = w.biz \/ b \in shaken'
  BY ComingIn DEF OwnerInv
<1>1a. \A b : OwnersOf(b)' = OwnersOf(b)
  BY <1>1 DEF OwnersOf
<1>1b. Incoming(w) /\ \A g \in Busy : g \in Hands /\ g # h
  BY <1>1 DEF ComesIn, Busy
<1>2. MetInv'
  BY <1>1, <1>1b DEF OwnerInv, MetInv
<1>3. PeopleInv'
  BY <1>1, <1>1b DEF OwnerInv, PeopleInv
<1>4. SenderInv'
  <2>1. w.op # "provision" /\ w.biz \notin shaken' =>
          /\ w.by \in alive /\ Owner(w.by, w.biz)
          /\ w.op # "delete" => emails[w.by] # w.email
    <3>1. w.op # "provision" => w.by \in alive /\ Owner(w.by, w.biz)
      BY <1>1b DEF Incoming, Callers
    <3>2. w.op \in {"provision", "create", "assign", "update", "delete"}
      BY <1>1b DEF Incoming
    <3>3. w.op \notin {"provision", "delete"} /\ emails[w.by] = w.email => EditsSelf(w)
      BY <3>1, <3>2 DEF EditsSelf, LoginOf
    <3> QED BY <1>1, <3>1, <3>3
  <2> QED BY <1>1, <1>1b, <2>1 DEF OwnerInv, SenderInv, Owner
<1>5. NewOwnerInv' /\ OthersInv'
  <2>1. w.at \notin {"clear", "bind", "remove"}
    BY <1>1b DEF Incoming
  <2> QED BY <1>1, <1>1a, <1>1b, <2>1 DEF OwnerInv, NewOwnerInv, OthersInv
<1>6. KeepsOwner'
  <2>1. \A b \in opened' \cap businesses' : b \in opened \cap businesses
    BY <1>1 DEF OwnerInv, PlaceInv
  <2> QED BY <1>1, <1>1a, <2>1 DEF OwnerInv, KeepsOwner
<1> QED BY <1>2, <1>3, <1>4, <1>5, <1>6

LEMMA OwnerStep ==
  ASSUME OwnerInv, WorkInv', PlaceInv', NEW h \in Hands, NEW w, Effects(h, w)
  PROVE  MetInv' /\ PeopleInv' /\ SenderInv' /\ NewOwnerInv' /\ OthersInv' /\ KeepsOwner'
<1>1. /\ work'[h] = w /\ \A g \in Hands : g # h => work'[g] = work[g]
      /\ h \in Busy /\ Busy' \subseteq Busy /\ work[h].at # "idle"
      /\ w.at # "idle" => /\ w # Idle /\ w.op = work[h].op /\ w.biz = work[h].biz /\ w.by = work[h].by
                          /\ w.email = work[h].email /\ w.role = work[h].role
  BY GoingOn DEF Effects, OwnerInv
<1>2. /\ shaken \subseteq shaken' /\ \A u \in DOMAIN emails : emails'[u] = emails[u]
      /\ \A u \in alive' : u \in alive \/ (Tenants(u)' = {} /\ u \notin DOMAIN emails)
      /\ alive \subseteq DOMAIN emails
      /\ \A u : Tenants(u)' \subseteq Tenants(u)
                \cup {b \in {work[h].biz} : w = Idle /\ u = work[h].user /\ u \in alive}
  BY UsersType DEF Effects, GivesOnlyItsRows, OwnerInv, WorkInv
\* Whom it has not taken up is left alone.
<1>3. \A u \in alive : u # work[h].user \/ ~TakesUp(work[h]) =>
        u \in alive' /\ role'[u] = role[u] /\ Tenants(u)' = Tenants(u) /\ \A b \in Businesses : Owner(u, b) => Owner(u, b)'
  <2> SUFFICES ASSUME NEW u \in alive, u # work[h].user \/ ~TakesUp(work[h])
               PROVE  /\ u \in alive' /\ role'[u] = role[u] /\ Tenants(u)' = Tenants(u)
                      /\ \A b \in Businesses : Owner(u, b) => Owner(u, b)'
    OBVIOUS
  <2>1. /\ u \in alive' /\ role'[u] = role[u]
        /\ \A r \in Row : r.user = u => (r \in access' <=> r \in access)
    BY DEF Effects, OnlyItsPeople
  <2>2. access \subseteq Row /\ access' \subseteq Row /\ u \in Users
    BY UsersType DEF OwnerInv, WorkInv, TypeOK
  <2>3. Tenants(u)' = Tenants(u)
    BY <2>1, <2>2 DEF Tenants, RowsOf
  <2>4. ASSUME NEW b \in Businesses, Owner(u, b)
        PROVE  Owner(u, b)'
    <3> DEFINE r == [user |-> u, biz |-> b, wide |-> TRUE]
    <3>1. r \in access /\ r.user = u /\ role[u] = "owner"
      BY <2>4 DEF Owner
    <3>2. r \in access'
      <4> HIDE DEF r
      <4> QED BY <2>1, <2>2, <3>1
    <3> QED BY <2>1, <3>1, <3>2 DEF Owner
  <2> QED BY <2>1, <2>3, <2>4
<1>3a. \A u \in alive : emails[u] # work[h].email => u # work[h].user
  BY <1>1, ItsPerson DEF OwnerInv
\* Whom it has taken up has no row in another business.
<1>4. \A u \in alive : \A b : b \in Tenants(u) /\ b # work[h].biz /\ b \notin shaken =>
        u # work[h].user \/ ~TakesUp(work[h])
  BY <1>1 DEF OwnerInv, PeopleInv
<1>5. \A b : b # work[h].biz /\ b \notin shaken => \A u \in OwnersOf(b) : u \in OwnersOf(b)'
  BY <1>3, <1>4 DEF OwnersOf
<1>6. \A g \in Busy' : g # h => /\ g \in Busy /\ g \in Hands /\ work'[g] = work[g]
                                /\ work[g].biz \notin shaken => /\ work[g].biz # work[h].biz
                                                                /\ work[g].email # work[h].email
  BY <1>1 DEF OwnerInv, MetInv, Busy
<1>7. MetInv'
  BY <1>1, <1>2, <1>6 DEF OwnerInv, MetInv, Busy
<1>8. PeopleInv'
  <2>1. ASSUME NEW g \in Busy', NEW u, u = work'[g].user, TakesUp(work'[g]), NEW b \in Tenants(u)', b \notin shaken'
        PROVE  b = work'[g].biz
    <3>1. g \in Busy /\ g \in Hands /\ work'[g].at # "idle"
      BY <1>1 DEF Busy
    <3>2. CASE g = h
      <4>1. \/ TakesUp(work[h]) /\ w.user = work[h].user
            \/ \A c \in Tenants(w.user)' : c = w.biz \/ c \in shaken'
        BY <1>1, <2>1, <3>2 DEF Effects, TakesOver
      <4>2. CASE TakesUp(work[h]) /\ w.user = work[h].user
        <5>1. b \in Tenants(u) \/ b = work[h].biz
          BY <1>2, <2>1
        <5> QED BY <1>1, <1>2, <2>1, <3>1, <3>2, <4>2, <5>1 DEF OwnerInv, PeopleInv
      <4>3. CASE \A c \in Tenants(w.user)' : c = w.biz \/ c \in shaken'
        <5>1. b \in Tenants(w.user)'
          BY <1>1, <2>1, <3>2 DEF Tenants, RowsOf
        <5>2. b = w.biz
          BY <2>1, <4>3, <5>1
        <5> QED BY <1>1, <3>2, <5>2
      <4> QED BY <4>1, <4>2, <4>3
    <3>3. CASE g # h
      <4>1. work'[g] = work[g]
        BY <1>6, <3>3
      <4>2. b \in Tenants(u) => b = work[g].biz
        BY <1>2, <2>1, <3>1, <4>1 DEF OwnerInv, PeopleInv
      <4>3. CASE b \notin Tenants(u)
        <5>1. b = work[h].biz /\ u = work[h].user /\ u \in alive
          BY <1>2, <2>1, <4>3
        <5>2. emails[u] = work[h].email /\ emails[u] = work[g].email
          BY <1>1, <2>1, <3>1, <4>1, <5>1, ItsPerson DEF OwnerInv
        <5>3. work[h].biz \in shaken
          BY <1>1, <3>1, <3>3, <5>2 DEF OwnerInv, MetInv
        <5> QED BY <1>2, <2>1, <5>1, <5>3
      <4> QED BY <4>1, <4>2, <4>3
    <3> QED BY <3>2, <3>3
  <2> QED BY <2>1 DEF PeopleInv, Tenants, RowsOf
<1>9. SenderInv'
  <2> SUFFICES ASSUME NEW g \in Busy', work'[g].op # "provision", work'[g].biz \notin shaken'
               PROVE  /\ work'[g].by \in alive' /\ Owner(work[g].by, work[g].biz)'
                      /\ work'[g].op # "delete" => emails'[work'[g].by] # work'[g].email
    BY DEF SenderInv
  <2>1. g \in Busy /\ g \in Hands /\ work'[g].at # "idle"
    BY <1>1 DEF Busy
  <2>2. /\ work'[g].op = work[g].op /\ work'[g].biz = work[g].biz /\ work'[g].by = work[g].by
        /\ work'[g].email = work[g].email /\ work[g].biz \notin shaken /\ work[g].biz \in Businesses
    <3>1. work[g].biz \in Businesses
      BY <2>1 DEF OwnerInv, WorkInv, TypeOK, Work
    <3> QED BY <1>1, <1>2, <2>1, <3>1
  <2>3. /\ work[g].by \in alive /\ Owner(work[g].by, work[g].biz)
        /\ work[g].op # "delete" => emails[work[g].by] # work[g].email
    BY <2>1, <2>2 DEF OwnerInv, SenderInv
  <2>4. work[g].biz \in Tenants(work[g].by)
    BY <2>3, OwnsARow
  <2>5. ASSUME NEW u, NEW b, u = work'[g].by, b = work'[g].biz, Owner(u, b)'
        PROVE  Owner(work[g].by, work[g].biz)'
    BY <2>5 DEF Owner
  <2>6. CASE work[g].by # work[h].user \/ ~TakesUp(work[h])
    <3>1. work[g].by \in alive' /\ \A u, b : u = work[g].by /\ b = work[g].biz => Owner(u, b)'
      BY <1>3, <2>2, <2>3, <2>6
    <3>2. Owner(work[g].by, work[g].biz)'
      BY <2>2, <2>5, <3>1
    <3> QED BY <1>2, <2>2, <2>3, <3>1, <3>2
  <2>7. CASE work[g].by = work[h].user /\ TakesUp(work[h])
    <3>1. g = h
      BY <1>4, <1>6, <2>1, <2>2, <2>3, <2>4, <2>7
    <3>1a. emails[work[g].by] = work[h].email
      BY <1>3a, <2>3, <2>7
    <3>2. work[h].op = "delete" /\ w # Idle
      <4>1. work[h].op = "delete"
        BY <2>3, <3>1, <3>1a
      <4>2. w.at # "idle"
        BY <1>1, <2>1, <3>1
      <4> QED BY <4>1, <4>2, IdleType
    <3>3. UNCHANGED tables
      BY <3>2 DEF Effects, DeletesOnce
    <3>4. \A u, b : u = work[g].by /\ b = work[g].biz => Owner(u, b)'
      BY <2>3, <3>3 DEF tables, Owner
    <3>5. Owner(work[g].by, work[g].biz)'
      BY <2>2, <2>5, <3>4
    <3> QED BY <2>2, <2>3, <3>3, <3>5 DEF tables
  <2> QED BY <2>6, <2>7
<1>10. NewOwnerInv'
  <2> SUFFICES ASSUME NEW g \in Busy', work'[g].op = "provision", work'[g].at \in {"clear", "bind"},
                      work'[g].biz \notin shaken', work'[g].user \in alive'
               PROVE  role'[work'[g].user] = "owner"
    BY DEF NewOwnerInv
  <2>1. CASE g = h
    <3>1. /\ alive' = alive /\ w.user = work[h].user
          /\ \/ work[h].at \in {"clear", "bind"} /\ role' = role
             \/ w.user \in alive => role'[w.user] = w.role
      BY <1>1, <2>1 DEF Effects, ProfileDone
    <3>2. w.role = "owner" /\ work[h].op = "provision" /\ work[h].biz \notin shaken
      BY <1>1, <1>2, <2>1 DEF OwnerInv, PlaceInv
    <3> QED BY <1>1, <2>1, <3>1, <3>2 DEF OwnerInv, NewOwnerInv
  <2>2. CASE g # h
    <3>1. work'[g] = work[g] /\ g \in Busy /\ work[g].email # work[h].email /\ work[g].biz \notin shaken
      BY <1>2, <1>6, <2>2
    <3>2. work[g].user # Nobody
      BY <3>1 DEF OwnerInv, WorkInv, Shaped, Busy
    <3>3. work[g].user \in DOMAIN emails /\ emails[work[g].user] = work[g].email
      BY <3>1, <3>2 DEF OwnerInv, WorkInv, Tied
    <3>4. work[g].user \in alive
      BY <1>2, <3>1, <3>3
    <3>5. role'[work[g].user] = role[work[g].user]
      BY <1>3, <1>3a, <3>1, <3>3, <3>4
    <3> QED BY <2>2, <3>1, <3>4, <3>5 DEF OwnerInv, NewOwnerInv
  <2> QED BY <2>1, <2>2
<1>11. OthersInv'
  <2>1. ASSUME NEW g \in Busy', NEW b, b = work'[g].biz, work'[g].at = "remove", b \notin shaken'
        PROVE  \E u \in OwnersOf(b)' : u # work'[g].user
    <3>1. CASE g = h
      <4>1. /\ UNCHANGED tables /\ CountOwners(h) /\ w.user = work[h].user /\ w.at = "remove" /\ b = work[h].biz
        BY <1>1, <2>1, <3>1 DEF Effects, DeletesOnce
      <4>2. work[h].op = "delete" /\ b \notin shaken /\ work[h].by \in alive /\ Owner(work[h].by, b)
        BY <1>1, <1>2, <2>1, <4>1 DEF OwnerInv, WorkInv, Shaped, SenderInv, CountOwners, At
      <4>3. work[h].by \in OwnersOf(b) /\ MayManage(h)
        BY <4>1, <4>2, OwnsARow DEF OwnersOf, MayManage, Owner
      <4>4. ~Finish(h)
        BY <1>1, <4>1, IdleType DEF Finish, OwnerInv, WorkInv, TypeOK
      <4>5. role[work[h].user] # "owner" \/ ~(Cardinality(OwnersOf(b)) <= 1)
        BY <4>1, <4>3, <4>4 DEF CountOwners
      <4>6. CASE role[work[h].user] # "owner"
        <5>1. work[h].by # work[h].user
          BY <4>2, <4>6 DEF Owner
        <5>2. \E u \in OwnersOf(b) : u # work[h].user
          BY <4>3, <5>1
        <5> QED BY <1>1, <3>1, <4>1, <5>2 DEF tables, OwnersOf, Tenants, RowsOf
      <4>7. CASE ~(Cardinality(OwnersOf(b)) <= 1)
        <5>1. \E u \in OwnersOf(b) : u # work[h].user
          <6> SUFFICES ASSUME OwnersOf(b) \subseteq {work[h].user}
                       PROVE  FALSE
            OBVIOUS
          <6>1. IsFiniteSet({work[h].user}) /\ Cardinality({work[h].user}) = 1
            BY FS_Singleton
          <6>2. IsFiniteSet(OwnersOf(b)) /\ Cardinality(OwnersOf(b)) <= Cardinality({work[h].user})
            BY <6>1, FS_Subset
          <6> QED BY <4>7, <6>1, <6>2
        <5> QED BY <1>1, <3>1, <4>1, <5>1 DEF tables, OwnersOf, Tenants, RowsOf
      <4> QED BY <4>5, <4>6, <4>7
    <3>2. CASE g # h
      <4>1. work'[g] = work[g] /\ g \in Busy /\ b # work[h].biz /\ b \notin shaken /\ b = work[g].biz
        BY <1>2, <1>6, <2>1, <3>2
      <4>2. \E u \in OwnersOf(b) : u # work[g].user
        BY <2>1, <4>1 DEF OwnerInv, OthersInv
      <4> QED BY <1>5, <4>1, <4>2
    <3> QED BY <3>1, <3>2
  <2> QED BY <2>1 DEF OthersInv, OwnersOf, Tenants, RowsOf
<1>12. KeepsOwner'
  <2> SUFFICES ASSUME NEW b \in opened' \cap businesses', b \notin shaken'
               PROVE  OwnersOf(b)' # {}
    BY DEF KeepsOwner
  <2>1. b \notin shaken
    BY <1>2
  <2>2. b \in opened => b \in businesses /\ OwnersOf(b) # {}
    BY <2>1 DEF OwnerInv, PlaceInv, KeepsOwner
  <2>3. b \in opened \/ b = work[h].biz
    BY DEF Effects, OpensOnlyItsOwn
  <2>4. CASE b # work[h].biz
    BY <1>5, <2>1, <2>2, <2>3, <2>4
  <2>5. CASE b = work[h].biz /\ work[h].op = "provision"
    <3>1. b \notin opened
      BY <1>1, <2>5 DEF OwnerInv, PlaceInv
    <3>2. /\ At(h, "bind") /\ work[h].user \in alive /\ UNCHANGED <<alive, role>>
          /\ [user |-> work[h].user, biz |-> b, wide |-> TRUE] \in access'
      BY <2>5, <3>1 DEF Effects, OpensOnlyItsOwn
    <3>3. role[work[h].user] = "owner"
      BY <1>1, <2>1, <2>5, <3>2 DEF OwnerInv, NewOwnerInv, At
    <3> DEFINE r == [user |-> work[h].user, biz |-> b, wide |-> TRUE]
    <3>4. r.user = work[h].user /\ r.biz = b /\ r \in access'
      BY <3>2
    <3> HIDE DEF r
    <3>5. work[h].user \in OwnersOf(b)'
      BY <3>2, <3>3, <3>4 DEF OwnersOf, Tenants, RowsOf
    <3> QED BY <3>5
  <2>6. CASE b = work[h].biz /\ work[h].op # "provision"
    <3>1. work[h].by \in alive /\ Owner(work[h].by, b) /\ (work[h].op # "delete" => emails[work[h].by] # work[h].email)
      BY <1>1, <2>1, <2>6 DEF OwnerInv, SenderInv
    <3>2. work[h].by \in OwnersOf(b)
      BY <3>1, OwnsARow DEF OwnersOf, Owner
    <3>3. CASE work[h].op # "delete"
      <4>1. work[h].by \in OwnersOf(b)'
        BY <1>3, <1>3a, <3>1, <3>2, <3>3 DEF OwnersOf
      <4> QED BY <4>1
    <3>4. CASE UNCHANGED tables
      BY <3>2, <3>4 DEF tables, OwnersOf, Tenants, RowsOf
    <3>5. CASE At(h, "remove") /\ DeleteLogin(work[h].user)
      <4>1. PICK u \in OwnersOf(b) : u # work[h].user
        BY <1>1, <2>1, <2>6, <3>5 DEF OwnerInv, OthersInv, At
      <4>2. u \in alive' /\ role'[u] = role[u]
        BY <3>5, <4>1, UsersType DEF DeleteLogin, OwnersOf, OwnerInv, WorkInv, TypeOK
      <4>3. Tenants(u)' = Tenants(u)
        BY <3>5, <4>1 DEF DeleteLogin, Tenants, RowsOf
      <4>4. u \in OwnersOf(b)'
        BY <4>1, <4>2, <4>3 DEF OwnersOf
      <4> QED BY <4>4
    <3> QED BY <3>3, <3>4, <3>5 DEF Effects, DeletesOnce
  <2> QED BY <2>4, <2>5, <2>6
<1> QED BY <1>7, <1>8, <1>9, <1>10, <1>11, <1>12

LEMMA OwnerNext ==
  ASSUME OwnerInv, [Next]_vars
  PROVE  OwnerInv'
<1>0. WorkInv' /\ PlaceInv'
  BY WorkStep, PlaceStep DEF OwnerInv
<1>1. CASE UNCHANGED vars
  BY <1>0, <1>1 DEF vars, tables, history, stranded, OwnerInv, MetInv, PeopleInv, SenderInv, NewOwnerInv, OthersInv,
     KeepsOwner, OwnersOf, Owner, Tenants, RowsOf, Busy
<1>2. ASSUME NEW h \in Hands, Handle(h)
      PROVE  OwnerInv'
  <2>1. (\E w \in Work : ComesIn(h, w)) \/ (\E w : Effects(h, w))
    BY <1>2, EveryEffect DEF OwnerInv
  <2>2. MetInv' /\ PeopleInv' /\ SenderInv' /\ NewOwnerInv' /\ OthersInv' /\ KeepsOwner'
    BY <1>0, <2>1, OwnerIncoming, OwnerStep
  <2> QED BY <1>0, <2>2 DEF OwnerInv
<1> QED BY <1>1, <1>2 DEF Next

LEMMA OwnerStart ==
  ASSUME Init
  PROVE  OwnerInv
<1>1. Busy = {} /\ WorkInv
  BY WorkStart, IdleType DEF Busy, Init
<1> DEFINE r == [user |-> 1, biz |-> Home, wide |-> TRUE]
<1>2. access = {r} /\ r.user = 1 /\ r.biz = Home
  BY DEF Init
<1> HIDE DEF r
<1>3. alive = {1} /\ role[1] = "owner" /\ opened = {Home} /\ businesses = {Home}
  BY AccountsAssumption DEF Init, Users
<1>4. PlaceInv
  BY <1>1, <1>2, <1>3 DEF PlaceInv
<1>5. 1 \in OwnersOf(Home)
  BY <1>2, <1>3 DEF OwnersOf, Tenants, RowsOf
<1>6. KeepsOwner
  BY <1>3, <1>5 DEF KeepsOwner
<1> QED BY <1>1, <1>4, <1>6 DEF OwnerInv, MetInv, PeopleInv, SenderInv, NewOwnerInv, OthersInv

\* A business that was opened keeps an owner, but for the four ways to lose one
\* that KeepsOwner names: an owner edits himself, two requests meet, a check that
\* failed lets another business take its person over, or one who is bound to two
\* businesses is changed or deleted by the other.
THEOREM BusinessKeepsOwner == Spec => []KeepsOwner
<1>1. Init => OwnerInv
  BY OwnerStart
<1>2. OwnerInv /\ [Next]_vars => OwnerInv'
  BY OwnerNext
<1>3. OwnerInv => KeepsOwner
  BY DEF OwnerInv
<1> QED BY <1>1, <1>2, <1>3, PTL DEF Spec

-----------------------------------------------------------------------------
(* What a refused request made is gone. *)

\* The request that has yet to give the login its row, or to take it back.
InCharge(w, u) ==
  /\ w.user = u
  /\ \/ w.fresh = TRUE /\ w.at \in {"profile", "clear", "bind", "unlogin"}
     \/ w.op # "provision" /\ w.at = "bind"

LeftInv ==
  /\ WorkInv /\ PlaceInv
  /\ \A h \in Hands : work[h].fresh = TRUE => work[h].op \in {"provision", "create"}
  /\ \A u \in alive : RowsOf(u) # {} \/ u \in refused \cup strandedLogins \/ \E h \in Hands : InCharge(work[h], u)
  /\ \A b \in businesses : \/ b \in opened \cup strandedTenants
                          \/ \E h \in Hands : work[h].op = "provision" /\ work[h].biz = b

\* What a step of a busy request leaves to itself, or has in order.
Tidies(h) ==
  /\ work'[h].fresh = TRUE => work'[h].op \in {"provision", "create"}
  /\ \A u \in alive : RowsOf(u) # {} => u \notin alive' \/ RowsOf(u)' # {} \/ InCharge(work'[h], u)
  /\ \A u \in alive' : u \in alive \/ InCharge(work'[h], u) \/ u \in strandedLogins'
  /\ \A u \in alive' : InCharge(work[h], u) =>
       InCharge(work'[h], u) \/ RowsOf(u)' # {} \/ u \in refused' \cup strandedLogins'
  /\ refused \subseteq refused' /\ strandedLogins \subseteq strandedLogins'
  /\ strandedTenants \subseteq strandedTenants'
  /\ businesses' \subseteq businesses /\ opened \subseteq opened'
  /\ work[h].op = "provision" => \/ work'[h].op = "provision" /\ work'[h].biz = work[h].biz
                                 \/ work[h].biz \in opened' \cup strandedTenants' \/ work[h].biz \notin businesses'

\* Where a request goes.
GoesTo(h, step) ==
  /\ work'[h].at = step /\ work'[h].op = work[h].op /\ work'[h].biz = work[h].biz
  /\ work'[h].user = work[h].user /\ work'[h].fresh = work[h].fresh

LEMMA WhereItGoes ==
  ASSUME TypeOK, NEW h \in Hands
  PROVE  /\ \A step \in Steps : Goto(h, step) => GoesTo(h, step)
         /\ Finish(h) => work'[h] = Idle
         /\ Refuse(h) => \/ work[h].op # "provision" /\ work'[h] = Idle
                         \/ work[h].op = "provision" /\ work[h].fresh = TRUE /\ GoesTo(h, "unlogin")
                         \/ work[h].op = "provision" /\ work[h].fresh # TRUE /\ GoesTo(h, "unbranch")
         /\ Idle.fresh # TRUE /\ Idle.op = "none" /\ Idle.at = "idle"
<1>1. work \in [Hands -> Work] /\ work[h] \in Work
  BY DEF TypeOK
<1>2. \A step \in Steps : Goto(h, step) => GoesTo(h, step)
  <2> SUFFICES ASSUME NEW step \in Steps, Goto(h, step)
               PROVE  GoesTo(h, step)
    OBVIOUS
  <2>1. work'[h] = To(h, step)
    BY <1>1, Moves
  <2> QED BY <2>1, Moves DEF GoesTo
<1>3. Finish(h) => work'[h] = Idle
  BY <1>1 DEF Finish
<1>4. Idle.fresh = FALSE
  BY DEF Idle
<1>5. Refuse(h) => \/ work[h].op # "provision" /\ work'[h] = Idle
                   \/ work[h].op = "provision" /\ work[h].fresh = TRUE /\ GoesTo(h, "unlogin")
                   \/ work[h].op = "provision" /\ work[h].fresh # TRUE /\ GoesTo(h, "unbranch")
  <2> SUFFICES ASSUME Refuse(h)
               PROVE  \/ work[h].op # "provision" /\ work'[h] = Idle
                      \/ work[h].op = "provision" /\ work[h].fresh = TRUE /\ GoesTo(h, "unlogin")
                      \/ work[h].op = "provision" /\ work[h].fresh # TRUE /\ GoesTo(h, "unbranch")
    OBVIOUS
  <2>1. CASE work[h].op # "provision"
    BY <1>3, <2>1 DEF Refuse
  <2>2. CASE work[h].op = "provision" /\ work[h].fresh = TRUE
    <3>1. Goto(h, "unlogin")
      BY <2>2 DEF Refuse
    <3> QED BY <1>2, <2>2, <3>1 DEF Steps
  <2>3. CASE work[h].op = "provision" /\ work[h].fresh # TRUE
    <3>1. work[h].fresh = FALSE
      BY <1>1, <2>3 DEF Work
    <3>2. Goto(h, "unbranch")
      BY <2>3, <3>1 DEF Refuse
    <3> QED BY <1>2, <2>3, <3>2 DEF Steps
  <2> QED BY <2>1, <2>2, <2>3
<1> QED BY <1>2, <1>3, <1>4, <1>5, IdleType

\* A step of a request in charge of nobody that leaves the tables alone.
LEMMA QuietTidies ==
  ASSUME LeftInv, NEW h \in Hands, work[h].at \notin {"profile", "clear", "bind", "unlogin"},
         UNCHANGED <<alive, access, businesses, opened, refused, stranded>>,
         work'[h].fresh = TRUE => work'[h].op \in {"provision", "create"},
         work[h].op = "provision" => work'[h].op = "provision" /\ work'[h].biz = work[h].biz
  PROVE  Tidies(h)
<1>1. \A u : RowsOf(u)' = RowsOf(u)
  BY DEF RowsOf
<1> QED BY <1>1 DEF Tidies, InCharge, stranded

LEMMA TidyQuiet ==
  ASSUME LeftInv, NEW h \in Hands,
         \/ InsertBranch(h) \/ ListUsers(h) \/ CheckTenant(h) \/ ResetUser(h) \/ CheckMember(h)
         \/ CheckDeletable(h) \/ CountOwners(h) \/ UndoBranch(h)
  PROVE  Tidies(h)
<1>0. TypeOK /\ Shaped(work[h]) /\ work \in [Hands -> Work]
      /\ (work[h].fresh = TRUE => work[h].op \in {"provision", "create"})
  BY DEF LeftInv, WorkInv, TypeOK
<1>1. work[h].at \notin {"profile", "clear", "bind", "unlogin"}
  BY DEF InsertBranch, ListUsers, CheckTenant, ResetUser, CheckMember, CheckDeletable, CountOwners, UndoBranch, At
<1>2. UNCHANGED tables /\ UNCHANGED <<opened, refused, stranded>>
  <2>1. CASE UndoBranch(h)
    BY <2>1 DEF UndoBranch, NoHistory, history
  <2>2. CASE CheckTenant(h)
    BY <2>2 DEF CheckTenant
  <2>3. CASE InsertBranch(h) \/ ListUsers(h) \/ ResetUser(h) \/ CheckMember(h) \/ CheckDeletable(h) \/ CountOwners(h)
    BY <2>3 DEF InsertBranch, ListUsers, ResetUser, CheckMember, CheckDeletable, CountOwners, NoHistory, history
  <2> QED BY <2>1, <2>2, <2>3
\* It goes on, is refused, or ends when it is not a provision.
<1>3. \/ \E step \in Steps : Goto(h, step)
      \/ Refuse(h)
      \/ Finish(h) /\ work[h].op # "provision"
      \/ \E u : work' = [work EXCEPT ![h].at = "check", ![h].user = u]
  <2>1. CASE InsertBranch(h)
    BY <2>1 DEF InsertBranch, Steps
  <2>2. CASE ListUsers(h)
    BY <2>2 DEF ListUsers, Steps
  <2>3. CASE CheckTenant(h)
    BY <2>3 DEF CheckTenant, Steps
  <2>4. CASE ResetUser(h)
    BY <2>4 DEF ResetUser, Steps
  <2>5. CASE CheckMember(h) \/ CheckDeletable(h)
    BY <2>5 DEF CheckMember, CheckDeletable, Steps
  <2>6. CASE CountOwners(h)
    <3>1. Goto(h, "remove") \/ Finish(h)
      BY <2>6, Zenon DEF CountOwners
    <3> QED BY <1>0, <2>6, <3>1 DEF CountOwners, Steps, Shaped, At
  <2>7. CASE UndoBranch(h)
    BY <2>7 DEF UndoBranch, Steps
  <2> QED BY <2>1, <2>2, <2>3, <2>4, <2>5, <2>6, <2>7
<1>4. CASE (\E step \in Steps : Goto(h, step)) \/ Refuse(h) \/ (Finish(h) /\ work[h].op # "provision")
  <2>1. /\ work'[h].fresh = TRUE => work'[h].op \in {"provision", "create"}
        /\ work[h].op = "provision" => work'[h].op = "provision" /\ work'[h].biz = work[h].biz
    BY <1>0, <1>4, WhereItGoes DEF GoesTo
  <2> QED BY <1>1, <1>2, <2>1, QuietTidies DEF tables
<1>5. CASE \E u : work' = [work EXCEPT ![h].at = "check", ![h].user = u]
  <2>1. work'[h].fresh = work[h].fresh /\ work'[h].op = work[h].op /\ work'[h].biz = work[h].biz
    BY <1>0, <1>5 DEF Work
  <2> QED BY <1>0, <1>1, <1>2, <2>1, QuietTidies DEF tables
<1> QED BY <1>3, <1>4, <1>5

LEMMA TidyCreate ==
  ASSUME LeftInv, NEW h \in Hands, CreateUser(h)
  PROVE  Tidies(h)
<1>0. TypeOK /\ Shaped(work[h]) /\ work \in [Hands -> Work] /\ work[h].at = "login"
      /\ (work[h].fresh = TRUE => work[h].op \in {"provision", "create"})
  BY DEF LeftInv, WorkInv, TypeOK, CreateUser, At
<1>1. UNCHANGED <<access, businesses, opened, refused, strandedTenants>> /\ \A u : RowsOf(u)' = RowsOf(u)
  BY DEF CreateUser, RowsOf
<1>2. CASE Refuse(h)
  <2>1. /\ work'[h].fresh = TRUE => work'[h].op \in {"provision", "create"}
        /\ work[h].op = "provision" => work'[h].op = "provision" /\ work'[h].biz = work[h].biz
    BY <1>0, <1>2, WhereItGoes DEF GoesTo
  <2>2. CASE UNCHANGED <<alive, strandedLogins>>
    BY <1>0, <1>1, <2>1, <2>2, QuietTidies DEF stranded
  <2>3. CASE alive' = alive \cup {Len(emails) + 1} /\ strandedLogins' = strandedLogins \cup {Len(emails) + 1}
    BY <1>0, <1>1, <2>1, <2>3 DEF Tidies, InCharge
  <2>4. CASE Goto(h, "profile") \/ work'[h].at = "profile"
    <3>1. work'[h] # Idle /\ ~GoesTo(h, "unlogin") /\ ~GoesTo(h, "unbranch")
      BY <1>0, <2>4, WhereItGoes DEF GoesTo, Steps
    <3> QED BY <1>0, <1>2, <3>1, WhereItGoes
  <2>5. work' = [work EXCEPT ![h].at = "profile", ![h].user = Len(emails) + 1, ![h].fresh = TRUE]
          => work'[h].at = "profile"
    BY <1>0 DEF Work
  <2> QED BY <2>2, <2>3, <2>4, <2>5 DEF CreateUser, MakeLogin
<1>3. CASE /\ alive' = alive \cup {Len(emails) + 1} /\ strandedLogins' = strandedLogins
           /\ work' = [work EXCEPT ![h].at = "profile", ![h].user = Len(emails) + 1, ![h].fresh = TRUE]
  <2>1. /\ work'[h].fresh = TRUE /\ work'[h].at = "profile" /\ work'[h].user = Len(emails) + 1
        /\ work'[h].op = work[h].op /\ work'[h].biz = work[h].biz
    BY <1>0, <1>3 DEF Work
  <2>2. work[h].op \in {"provision", "create"}
    BY <1>0 DEF Shaped
  <2> QED BY <1>0, <1>1, <1>3, <2>1, <2>2 DEF Tidies, InCharge
<1> QED BY <1>2, <1>3 DEF CreateUser, MakeLogin

LEMMA TidyProfile ==
  ASSUME LeftInv, NEW h \in Hands, WriteProfile(h)
  PROVE  Tidies(h)
<1>0. TypeOK /\ work[h].at = "profile" /\ (work[h].fresh = TRUE => work[h].op \in {"provision", "create"})
  BY DEF LeftInv, WorkInv, WriteProfile, At
<1>1. UNCHANGED <<alive, access, businesses, opened, refused, stranded>>
  BY DEF WriteProfile, NoHistory, history
<1>2. \A u : RowsOf(u)' = RowsOf(u)
  BY <1>1 DEF RowsOf
<1>3. \/ Goto(h, "clear")
      \/ work[h].op = "create" /\ work[h].fresh = TRUE /\ Goto(h, "unlogin")
      \/ (work[h].op # "create" \/ work[h].fresh # TRUE) /\ Refuse(h)
  <2> DEFINE failed == IF work[h].op = "create" /\ work[h].fresh THEN Goto(h, "unlogin") ELSE Refuse(h)
  <2>1. Goto(h, "clear") \/ failed
    BY Zenon DEF WriteProfile
  <2>2. work[h].fresh \in BOOLEAN
    BY <1>0 DEF TypeOK, Work
  <2> QED BY <2>1, <2>2
<1>4. CASE Goto(h, "clear")
  <2>1. GoesTo(h, "clear")
    BY <1>0, <1>4, WhereItGoes DEF Steps
  <2> QED BY <1>0, <1>1, <1>2, <2>1 DEF stranded, Tidies, InCharge, GoesTo
<1>5. CASE work[h].op = "create" /\ work[h].fresh = TRUE /\ Goto(h, "unlogin")
  <2>1. GoesTo(h, "unlogin")
    BY <1>0, <1>5, WhereItGoes DEF Steps
  <2> QED BY <1>0, <1>1, <1>2, <1>5, <2>1 DEF stranded, Tidies, InCharge, GoesTo
<1>6. CASE (work[h].op # "create" \/ work[h].fresh # TRUE) /\ Refuse(h)
  <2>1. /\ \/ work[h].op # "provision" /\ work'[h] = Idle
           \/ work[h].op = "provision" /\ work[h].fresh = TRUE /\ GoesTo(h, "unlogin")
           \/ work[h].op = "provision" /\ work[h].fresh # TRUE /\ GoesTo(h, "unbranch")
        /\ Idle.fresh # TRUE
    BY <1>0, <1>6, WhereItGoes
  <2> QED BY <1>0, <1>1, <1>2, <1>6, <2>1 DEF stranded, Tidies, InCharge, GoesTo
<1> QED BY <1>3, <1>4, <1>5, <1>6

LEMMA TidyClear ==
  ASSUME LeftInv, NEW h \in Hands, ClearAccess(h)
  PROVE  Tidies(h)
<1>0. TypeOK /\ work[h].at = "clear" /\ h \in Busy /\ (work[h].fresh = TRUE => work[h].op \in {"provision", "create"})
  BY DEF LeftInv, WorkInv, ClearAccess, At, Busy
<1>1. UNCHANGED <<alive, businesses, opened, refused, stranded>>
  BY DEF ClearAccess, NoHistory, history
<1>2. /\ \A r \in access : r \in access' \/ (r.user = work[h].user /\ r.biz = work[h].biz /\ Goto(h, "bind"))
      /\ access' \subseteq access
  BY DEF ClearAccess
<1>3. \A u \in alive : RowsOf(u) # {} =>
        RowsOf(u)' # {} \/ (u = work[h].user /\ work[h].op # "provision" /\ Goto(h, "bind"))
  <2>1. work[h].op = "provision" => \A r \in access : r.biz # work[h].biz
    BY <1>0 DEF LeftInv, PlaceInv
  <2> QED BY <1>2, <2>1 DEF RowsOf
<1>4. CASE Goto(h, "bind")
  <2>1. GoesTo(h, "bind")
    BY <1>0, <1>4, WhereItGoes DEF Steps
  <2> QED BY <1>0, <1>1, <1>3, <2>1 DEF stranded, Tidies, InCharge, GoesTo
<1>5. CASE work[h].op = "update" /\ Refuse(h) /\ access' = access
  <2>1. work'[h] = Idle /\ Idle.fresh # TRUE
    BY <1>0, <1>5, WhereItGoes
  <2>2. \A u : RowsOf(u)' = RowsOf(u)
    BY <1>5 DEF RowsOf
  <2> QED BY <1>0, <1>1, <1>5, <2>1, <2>2 DEF stranded, Tidies, InCharge
<1> QED BY <1>4, <1>5 DEF ClearAccess

LEMMA TidyBind ==
  ASSUME LeftInv, NEW h \in Hands, InsertAccess(h)
  PROVE  Tidies(h)
<1>0. TypeOK /\ work[h].at = "bind" /\ (work[h].fresh = TRUE => work[h].op \in {"provision", "create"})
  BY DEF LeftInv, WorkInv, InsertAccess, At
<1>1. UNCHANGED <<alive, businesses, stranded>>
  BY DEF InsertAccess
<1> DEFINE r == [user |-> work[h].user, biz |-> work[h].biz, wide |-> work[h].role = "owner"]
<1>2. \/ /\ Finish(h) /\ access' = access \cup {r} /\ refused' = refused
         /\ opened' = IF work[h].op = "provision" THEN opened \cup {work[h].biz} ELSE opened
      \/ /\ Refuse(h) /\ UNCHANGED <<access, opened>>
         /\ refused' = IF work[h].op = "provision" THEN refused ELSE refused \cup {work[h].user}
  BY Zenon DEF InsertAccess
<1>3. r.user = work[h].user
  OBVIOUS
<1> HIDE DEF r
<1>4. CASE /\ Finish(h) /\ access' = access \cup {r} /\ refused' = refused
           /\ opened' = IF work[h].op = "provision" THEN opened \cup {work[h].biz} ELSE opened
  <2>1. (\A u : RowsOf(u) \subseteq RowsOf(u)') /\ \A u : u = work[h].user => RowsOf(u)' # {}
    BY <1>3, <1>4 DEF RowsOf
  <2>2. work'[h] = Idle /\ Idle.fresh # TRUE
    BY <1>0, <1>4, WhereItGoes
  <2> QED BY <1>0, <1>1, <1>4, <2>1, <2>2 DEF stranded, Tidies, InCharge
<1>5. CASE /\ Refuse(h) /\ UNCHANGED <<access, opened>>
           /\ refused' = IF work[h].op = "provision" THEN refused ELSE refused \cup {work[h].user}
  <2>1. /\ \/ work[h].op # "provision" /\ work'[h] = Idle
           \/ work[h].op = "provision" /\ work[h].fresh = TRUE /\ GoesTo(h, "unlogin")
           \/ work[h].op = "provision" /\ work[h].fresh # TRUE /\ GoesTo(h, "unbranch")
        /\ Idle.fresh # TRUE
    BY <1>0, <1>5, WhereItGoes
  <2>2. \A u : RowsOf(u)' = RowsOf(u)
    BY <1>5 DEF RowsOf
  <2>3. refused \subseteq refused' /\ (work[h].op # "provision" => work[h].user \in refused')
    BY <1>5
  <2>4. CASE work[h].op # "provision"
    BY <1>0, <1>1, <1>5, <2>1, <2>2, <2>3, <2>4 DEF stranded, Tidies, InCharge
  <2>5. CASE work[h].op = "provision"
    BY <1>0, <1>1, <1>5, <2>1, <2>2, <2>3, <2>5 DEF stranded, Tidies, InCharge, GoesTo
  <2> QED BY <2>4, <2>5
<1> QED BY <1>2, <1>4, <1>5

LEMMA TidyRemove ==
  ASSUME LeftInv, NEW h \in Hands, RemoveUser(h)
  PROVE  Tidies(h)
<1>0. TypeOK /\ Shaped(work[h]) /\ work[h].at = "remove" /\ work[h].op = "delete"
  BY DEF LeftInv, WorkInv, RemoveUser, At, Shaped
<1>1. UNCHANGED <<businesses, opened, refused, stranded>> /\ work'[h] = Idle /\ Idle.fresh # TRUE
  BY <1>0, WhereItGoes DEF RemoveUser, NoHistory, history
<1>2. (\A u \in alive : u \notin alive' \/ RowsOf(u)' = RowsOf(u)) /\ alive' \subseteq alive
  BY DEF RemoveUser, DeleteLogin, RowsOf
<1> QED BY <1>0, <1>1, <1>2 DEF stranded, Tidies, InCharge

LEMMA TidyUndo ==
  ASSUME LeftInv, NEW h \in Hands, UndoLogin(h) \/ UndoBusiness(h)
  PROVE  Tidies(h)
<1>0. TypeOK /\ Shaped(work[h]) /\ (work[h].fresh = TRUE => work[h].op \in {"provision", "create"})
  BY DEF LeftInv, WorkInv
<1>1. CASE UndoLogin(h)
  <2>1. UNCHANGED <<businesses, opened, refused, strandedTenants>> /\ work[h].at = "unlogin"
    BY <1>1 DEF UndoLogin, At
  <2>2. /\ \A u \in alive : u \notin alive' \/ RowsOf(u)' = RowsOf(u)
        /\ alive' \subseteq alive /\ strandedLogins \subseteq strandedLogins'
        /\ work[h].user \notin alive' \/ work[h].user \in strandedLogins'
    BY <1>1 DEF UndoLogin, DeleteLogin, RowsOf
  <2>3. /\ work'[h].fresh = TRUE => work'[h].op \in {"provision", "create"}
        /\ work[h].op = "provision" => work'[h].op = "provision" /\ work'[h].biz = work[h].biz
    BY <1>0, <1>1, WhereItGoes DEF UndoLogin, AfterLogin, GoesTo, Steps
  <2> QED BY <2>1, <2>2, <2>3 DEF Tidies, InCharge
<1>2. CASE UndoBusiness(h)
  <2>1. work[h].at = "unbusiness" /\ work[h].op = "provision" /\ UNCHANGED <<alive, opened, refused, strandedLogins>>
        /\ work'[h] = Idle /\ Idle.fresh # TRUE
    BY <1>0, <1>2, WhereItGoes DEF UndoBusiness, At, Shaped
  <2>2. \A r \in access : r.biz # work[h].biz
    BY <2>1 DEF LeftInv, PlaceInv, Busy
  <2>3. access' = access
    BY <1>2, <2>2 DEF UndoBusiness
  <2>4. \A u : RowsOf(u)' = RowsOf(u)
    BY <2>3 DEF RowsOf
  <2>5. /\ strandedTenants \subseteq strandedTenants' /\ businesses' \subseteq businesses
        /\ work[h].biz \notin businesses' \/ work[h].biz \in strandedTenants'
    BY <1>2 DEF UndoBusiness
  <2> QED BY <2>1, <2>4, <2>5 DEF Tidies, InCharge
<1> QED BY <1>1, <1>2

LEMMA TidyDie ==
  ASSUME LeftInv, NEW h \in Hands, Die(h)
  PROVE  Tidies(h)
<1>1. TypeOK /\ work'[h] = Idle /\ Idle.fresh # TRUE
  BY WhereItGoes DEF LeftInv, WorkInv, Die
<1>2. /\ UNCHANGED <<alive, access, businesses, opened, refused>>
      /\ strandedLogins' = strandedLogins \cup {u \in {work[h].user} \cap alive : RowsOf(u) = {}}
      /\ strandedTenants' = strandedTenants \cup ({work[h].biz} \ opened)
  BY DEF Die, tables
<1>3. \A u : RowsOf(u)' = RowsOf(u)
  BY <1>2 DEF RowsOf
<1>4. \A u \in alive : InCharge(work[h], u) => RowsOf(u)' # {} \/ u \in strandedLogins'
  BY <1>2, <1>3 DEF InCharge
<1> QED BY <1>1, <1>2, <1>3, <1>4 DEF Tidies

LEMMA LeftNext ==
  ASSUME LeftInv, [Next]_vars
  PROVE  LeftInv'
<1>0. WorkInv /\ PlaceInv /\ TypeOK /\ WorkInv' /\ PlaceInv' /\ TypeOK'
  BY WorkStep, PlaceStep DEF LeftInv, WorkInv
<1>1. CASE UNCHANGED vars
  BY <1>0, <1>1 DEF vars, tables, history, stranded, LeftInv, RowsOf
<1>2. ASSUME NEW h \in Hands, NEW w \in Work, ComesIn(h, w)
      PROVE  LeftInv'
  <2>1. /\ UNCHANGED <<alive, access, opened>> /\ work[h].at = "idle" /\ work'[h] = w
        /\ businesses' = businesses \cup {b \in {w.biz} : w.op = "provision"}
        /\ \A g \in Hands : g # h => work'[g] = work[g]
    BY <1>0, <1>2, ComingIn
  <2>2. w.fresh = FALSE /\ UNCHANGED <<refused, strandedLogins, strandedTenants>>
    BY <1>2 DEF ComesIn, Incoming, Accept, stranded
  <2>3. work[h].op # "provision" /\ \A u : ~InCharge(work[h], u)
    BY <1>0, <2>1 DEF WorkInv, Shaped, InCharge
  <2>4. \A u : RowsOf(u)' = RowsOf(u)
    BY <2>1 DEF RowsOf
  <2>5. \A u : (\E g \in Hands : InCharge(work[g], u)) => \E g \in Hands : InCharge(work'[g], u)
    BY <2>1, <2>3
  <2>6. \A b \in businesses' :
          \/ b \in businesses /\ ((\E g \in Hands : work[g].op = "provision" /\ work[g].biz = b)
                                  => \E g \in Hands : work'[g].op = "provision" /\ work'[g].biz = b)
          \/ \E g \in Hands : work'[g].op = "provision" /\ work'[g].biz = b
    BY <2>1, <2>3
  <2>7. \A g \in Hands : work'[g].fresh = TRUE => work'[g].op \in {"provision", "create"}
    BY <2>1, <2>2 DEF LeftInv
  <2>8. \A u \in alive' : \/ RowsOf(u)' # {} \/ u \in refused' \cup strandedLogins'
                         \/ \E g \in Hands : InCharge(work'[g], u)
    BY <2>1, <2>2, <2>4, <2>5 DEF LeftInv
  <2>9. \A b \in businesses' : \/ b \in opened' \cup strandedTenants'
                              \/ \E g \in Hands : work'[g].op = "provision" /\ work'[g].biz = b
    BY <2>1, <2>2, <2>6 DEF LeftInv
  <2> QED BY <1>0, <2>7, <2>8, <2>9 DEF LeftInv
<1>3. ASSUME NEW h \in Hands, Tidies(h), NEW w, Effects(h, w)
      PROVE  LeftInv'
  <2>1. \A g \in Hands : g # h => work'[g] = work[g]
    BY <1>0, <1>3, GoingOn DEF Effects
  <2>2. \A g \in Hands : work'[g].fresh = TRUE => work'[g].op \in {"provision", "create"}
    BY <1>3, <2>1 DEF LeftInv, Tidies
  <2>3. /\ refused \subseteq refused' /\ strandedLogins \subseteq strandedLogins'
        /\ strandedTenants \subseteq strandedTenants'
    BY <1>3 DEF Tidies
  <2>4. ASSUME NEW u \in alive'
        PROVE  RowsOf(u)' # {} \/ u \in refused' \cup strandedLogins' \/ \E g \in Hands : InCharge(work'[g], u)
    <3>1. CASE u \notin alive
      BY <1>3, <2>4, <3>1 DEF Tidies
    <3>2. CASE u \in alive
      <4>1. RowsOf(u) # {} \/ u \in refused \cup strandedLogins \/ \E g \in Hands : InCharge(work[g], u)
        BY <3>2 DEF LeftInv
      <4>2. RowsOf(u) # {} \/ u \in refused \cup strandedLogins \/ InCharge(work[h], u)
              => RowsOf(u)' # {} \/ u \in refused' \cup strandedLogins' \/ InCharge(work'[h], u)
        BY <1>3, <2>3, <2>4, <3>2 DEF Tidies
      <4>3. \A g \in Hands : g # h /\ InCharge(work[g], u) => InCharge(work'[g], u)
        BY <2>1
      <4> QED BY <4>1, <4>2, <4>3
    <3> QED BY <3>1, <3>2
  <2>5. ASSUME NEW b \in businesses'
        PROVE  b \in opened' \cup strandedTenants' \/ \E g \in Hands : work'[g].op = "provision" /\ work'[g].biz = b
    <3>1. b \in businesses /\ opened \subseteq opened'
      BY <1>3 DEF Tidies
    <3>2. b \in opened \cup strandedTenants \/ \E g \in Hands : work[g].op = "provision" /\ work[g].biz = b
      BY <3>1 DEF LeftInv
    <3>3. work[h].op = "provision" /\ work[h].biz = b =>
            b \in opened' \cup strandedTenants' \/ (work'[h].op = "provision" /\ work'[h].biz = b)
      BY <1>3, <2>5 DEF Tidies
    <3> QED BY <2>1, <2>3, <3>1, <3>2, <3>3
  <2> QED BY <1>0, <2>2, <2>4, <2>5 DEF LeftInv
<1>4. ASSUME NEW h \in Hands, Handle(h), ~\E w \in Work : ComesIn(h, w)
      PROVE  Tidies(h) /\ \E w : Effects(h, w)
  <2>1. ~(AskForPerson(h) \/ AskForChange(h) \/ AskForTenant(h))
    BY <1>0, <1>4, Asks
  <2>2. Tidies(h)
    BY <1>4, <2>1, TidyQuiet, TidyCreate, TidyProfile, TidyClear, TidyBind, TidyRemove, TidyUndo, TidyDie
    DEF Handle
  <2> QED BY <1>0, <1>4, <2>2, EveryEffect
<1> QED BY <1>1, <1>2, <1>3, <1>4 DEF Next

\* A login that enters nothing is one a request is still working on, one whose
\* access row was refused last, or one of the stranded; a business that was never
\* opened is one a request is still provisioning, or one of the stranded.
THEOREM NothingLeftOver == Spec => []NoLeftovers
<1>1. Init => LeftInv
  <2> SUFFICES ASSUME Init
               PROVE  LeftInv
    OBVIOUS
  <2>1. OwnerInv
    BY OwnerStart
  <2>2. \A h \in Hands : work[h].fresh # TRUE
    BY DEF Init, Idle
  <2> DEFINE r == [user |-> 1, biz |-> Home, wide |-> TRUE]
  <2>3. access = {r} /\ r.user = 1
    BY DEF Init
  <2> HIDE DEF r
  <2>4. alive = {1} /\ businesses = opened /\ RowsOf(1) # {}
    BY <2>3 DEF Init, RowsOf
  <2> QED BY <2>1, <2>2, <2>4 DEF LeftInv, OwnerInv
<1>2. LeftInv /\ [Next]_vars => LeftInv'
  BY LeftNext
<1>3. LeftInv => NoLeftovers
  <2> SUFFICES ASSUME LeftInv
               PROVE  NoLeftovers
    OBVIOUS
  <2>1. \A h \in Hands : \A u : InCharge(work[h], u) => h \in Busy /\ work[h].user = u
    BY DEF InCharge, Busy
  <2>2. \A h \in Hands : work[h].op = "provision" => h \in Busy
    BY DEF LeftInv, WorkInv, Shaped, Busy
  <2>3. \A u \in alive : RowsOf(u) # {} \/ u \in refused \cup strandedLogins \/ \E h \in Busy : work[h].user = u
    BY <2>1 DEF LeftInv
  <2>4. \A b \in businesses : b \in opened \cup strandedTenants \/ \E h \in Busy : work[h].biz = b
    BY <2>2 DEF LeftInv
  <2> QED BY <2>3, <2>4 DEF NoLeftovers
<1> QED BY <1>1, <1>2, <1>3, PTL DEF Spec
=============================================================================
