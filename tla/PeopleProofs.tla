----------------------------- MODULE PeopleProofs -----------------------------
(***************************************************************************)
(* The staff, the reviews, the customers and the codes they sign in with:  *)
(* what a dismissal and an invitation promise, what a merge and a revision *)
(* keep, what a code opens.  For any number of users, sessions, visits,    *)
(* customers, records, codes, phones and requests.                         *)
(***************************************************************************)
EXTENDS TeamAccess, Reviews, CustomerRecords, AccessCodes, TLAPS

-----------------------------------------------------------------------------
(* The staff *)

(* Owners change the team one at a time. *)
OneOwnerAtWork == \A d, e \in Office : d = e

(* A session that has outlived its user is closed, or the user is still
   dismissed. *)
OutlivedIsShut ==
    \A s \in outlived :
        /\ seats[s].user # NoUser
        /\ seats[s].closed \/ ~team[seats[s].user].active

(* Whoever is active, has a session or is asked for exists. *)
UsersExist ==
    /\ \A u \in User : team[u].active => team[u].exists
    /\ \A s \in Seat : seats[s].user # NoUser => team[seats[s].user].exists
    /\ \A d \in Desk :
          desks[d].op # "none" => desks[d].user # NoUser /\ team[desks[d].user].exists

(* What a change of the team has read is still so when it is written. *)
SeenIsTrue ==
    \A d \in Office :
        desks[d].op = "update" =>
            /\ desks[d].seen.active = team[desks[d].user].active
            /\ desks[d].seen.role = team[desks[d].user].role

TeamInv == TeamTypeOK /\ OutlivedIsShut /\ UsersExist /\ SeenIsTrue

(* The rows begin, and are changed, with their types. *)
LEMMA TeamRows ==
    /\ NoUserRow \in UserRow /\ ~NoUserRow.active /\ ~NoUserRow.exists
    /\ NoSeat \in SeatRow /\ NoSeat.user = NoUser /\ ~NoSeat.closed
    /\ NoDesk \in DeskRow /\ NoDesk.op = "none"
    /\ \A role \in Duty : /\ NewUser(role) \in UserRow
                          /\ NewUser(role).active /\ NewUser(role).exists
<1> USE TeamAssumption
<1>1. NoUserRow \in UserRow /\ ~NoUserRow.active /\ ~NoUserRow.exists
  BY DEF NoUserRow, UserRow, Duty
<1>2. NoSeat \in SeatRow /\ NoSeat.user = NoUser /\ ~NoSeat.closed
  BY DEF NoSeat, SeatRow
<1>3. NoDesk \in DeskRow /\ NoDesk.op = "none"
  BY <1>1 DEF NoDesk, DeskRow
<1>4. ASSUME NEW role \in Duty, NEW row \in UserRow
      PROVE  LET new == [row EXCEPT !.exists = TRUE, !.role = role, !.active = TRUE]
             IN  new \in UserRow /\ new.active /\ new.exists
  BY DEF UserRow
<1> QED
  BY <1>1, <1>2, <1>3, <1>4 DEF NewUser

(* A change of the team that leaves alone who exists and who works there
   as what. *)
SameStaff ==
    \A u \in User : /\ team'[u].exists = team[u].exists
                    /\ team'[u].active = team[u].active
                    /\ team'[u].role = team[u].role

(* Sessions are only closed. *)
OnlyCloses ==
    \A s \in Seat : /\ seats'[s].user = seats[s].user
                    /\ seats[s].closed => seats'[s].closed

(* A request ends. *)
LeavesDesk(d) == desks' = [desks EXCEPT ![d] = NoDesk]

LEMMA SameStaffKeeps ==
    ASSUME TeamInv, SameStaff, OnlyCloses, UNCHANGED outlived,
           UNCHANGED desks \/ \E d \in Desk : LeavesDesk(d)
    PROVE  OutlivedIsShut' /\ UsersExist' /\ SeenIsTrue'
<1> USE TeamAssumption
<1>1. \A s \in Seat : seats[s].user # NoUser => seats[s].user \in User
  BY DEF TeamInv, TeamTypeOK, SeatRow
<1>2. \A d \in Desk : desks'[d].op # "none" => desks'[d] = desks[d]
  BY TeamRows DEF TeamInv, TeamTypeOK, LeavesDesk
<1>3. \A d \in Desk : desks[d].user # NoUser => desks[d].user \in User
  BY DEF TeamInv, TeamTypeOK, DeskRow
<1>4. OutlivedIsShut'
  BY <1>1 DEF TeamInv, TeamTypeOK, OutlivedIsShut, SameStaff, OnlyCloses
<1>5. UsersExist'
  BY <1>1, <1>2, <1>3 DEF TeamInv, UsersExist, SameStaff, OnlyCloses
<1>6. SeenIsTrue'
  BY <1>2, <1>3 DEF TeamInv, UsersExist, SeenIsTrue, SameStaff
<1> QED
  BY <1>4, <1>5, <1>6

(* The fields a login or a new password writes. *)
LEMMA CountsKeepStaff ==
    ASSUME TeamTypeOK, NEW u \in User, NEW failed \in 0..MaxFailed, NEW locked \in BOOLEAN,
           \/ team' = [team EXCEPT ![u].failed = failed, ![u].locked = locked]
           \/ team' = [team EXCEPT ![u].locked = locked]
           \/ team' = team
    PROVE  team' \in [User -> UserRow] /\ SameStaff
BY DEF TeamTypeOK, UserRow, SameStaff

LEMMA RevokesAllCloses ==
    ASSUME TeamTypeOK, NEW u \in User, seats' = RevokesAll(u)
    PROVE  /\ seats' \in [Seat -> SeatRow]
           /\ OnlyCloses
           /\ \A s \in Seat : seats[s].user = u => seats'[s].closed
BY DEF TeamTypeOK, SeatRow, RevokesAll, OnlyCloses

(* The requests that count, close and go away. *)
LEMMA SameStaffStep ==
    ASSUME TeamInv,
           \/ \E d \in Desk : FailLogin(d) \/ DropDesk(d)
           \/ \E d \in Office : resetPassword(d) \/ revokeSessions(d)
           \/ \E s \in Seat : CloseSeat(s)
           \/ \E u \in User : LockRunsOut(u)
    PROVE  TeamInv'
<1> USE TeamAssumption
<1>1. TeamTypeOK /\ UsersExist
  BY DEF TeamInv
<1>2. 0 \in 0..MaxFailed /\ FALSE \in BOOLEAN
  OBVIOUS
<1>3. ASSUME team' \in [User -> UserRow], SameStaff,
             seats' \in [Seat -> SeatRow], OnlyCloses, UNCHANGED outlived,
             UNCHANGED desks \/ \E d \in Desk : LeavesDesk(d)
      PROVE  TeamInv'
  <2>1. desks' \in [Desk -> DeskRow]
    BY <1>1, <1>3, TeamRows DEF LeavesDesk, TeamTypeOK
  <2> QED
    BY <1>1, <1>3, <2>1, SameStaffKeeps DEF TeamInv, TeamTypeOK
<1>4. UNCHANGED seats => seats' \in [Seat -> SeatRow] /\ OnlyCloses
  BY <1>1 DEF TeamTypeOK, OnlyCloses
<1>5. UNCHANGED team => team' \in [User -> UserRow] /\ SameStaff
  BY <1>1 DEF TeamTypeOK, SameStaff
<1>6. \A d \in Desk : desks[d].op # "none" => desks[d].user \in User
  BY <1>1 DEF UsersExist, TeamTypeOK, DeskRow
<1>7. ASSUME NEW d \in Desk, FailLogin(d) PROVE TeamInv'
  <2> DEFINE u == desks[d].user
  <2> DEFINE failed == IF desks[d].seen.failed < MaxFailed
                       THEN desks[d].seen.failed + 1 ELSE MaxFailed
  <2>1. u \in User
    BY <1>6, <1>7 DEF FailLogin
  <2>2. failed \in 0..MaxFailed /\ (failed >= MaxFailed) \in BOOLEAN
    BY <1>1 DEF TeamTypeOK, DeskRow, UserRow
  <2>3. team' = [team EXCEPT ![u].failed = failed, ![u].locked = failed >= MaxFailed]
    BY <1>7 DEF FailLogin
  <2> HIDE DEF u, failed
  <2>4. team' \in [User -> UserRow] /\ SameStaff
    BY <1>1, <2>1, <2>2, <2>3, CountsKeepStaff
  <2> QED
    BY <1>3, <1>4, <1>7, <2>4 DEF FailLogin, LeavesDesk
<1>8. ASSUME NEW d \in Desk, DropDesk(d) PROVE TeamInv'
  BY <1>3, <1>4, <1>5, <1>8 DEF DropDesk, LeavesDesk
<1>9. ASSUME NEW d \in Office, resetPassword(d) PROVE TeamInv'
  <2>1. d \in Desk /\ desks[d].user \in User
    BY <1>6, <1>9 DEF resetPassword
  <2>2. team' \in [User -> UserRow] /\ SameStaff
    BY <1>2, <1>1, <1>9, <2>1, CountsKeepStaff DEF resetPassword
  <2>3. seats' \in [Seat -> SeatRow] /\ OnlyCloses
    BY <1>1, <1>9, <2>1, RevokesAllCloses DEF resetPassword
  <2> QED
    BY <1>3, <1>9, <2>1, <2>2, <2>3 DEF resetPassword, LeavesDesk
<1>10. ASSUME NEW d \in Office, revokeSessions(d) PROVE TeamInv'
  <2>1. d \in Desk /\ desks[d].user \in User
    BY <1>6, <1>10 DEF revokeSessions
  <2>2. seats' \in [Seat -> SeatRow] /\ OnlyCloses
    BY <1>1, <1>10, <2>1, RevokesAllCloses DEF revokeSessions
  <2> QED
    BY <1>3, <1>5, <1>10, <2>1, <2>2 DEF revokeSessions, LeavesDesk
<1>11. ASSUME NEW s \in Seat, CloseSeat(s) PROVE TeamInv'
  <2>1. seats' \in [Seat -> SeatRow] /\ OnlyCloses
    BY <1>1, <1>11 DEF CloseSeat, TeamTypeOK, SeatRow, OnlyCloses
  <2> QED
    BY <1>3, <1>5, <1>11, <2>1 DEF CloseSeat
<1>12. ASSUME NEW u \in User, LockRunsOut(u) PROVE TeamInv'
  <2>1. team' \in [User -> UserRow] /\ SameStaff
    BY <1>2, <1>1, <1>12, CountsKeepStaff DEF LockRunsOut
  <2> QED
    BY <1>3, <1>4, <1>12, <2>1 DEF LockRunsOut
<1> QED
  BY <1>7, <1>8, <1>9, <1>10, <1>11, <1>12

(* A request that begins: its user exists, and a change has read the row. *)
LEMMA StartsStep ==
    ASSUME TeamInv,
           \/ \E d \in Desk, u \in User, fits \in BOOLEAN : StartLogin(d, u, fits)
           \/ \E d \in Office, s \in Seat, u \in User,
                 op \in {"update", "resetPassword", "revokeSessions"} : StartOffice(d, s, op, u)
    PROVE  TeamInv'
<1> USE TeamAssumption
<1>1. ASSUME NEW d \in Desk, NEW row \in DeskRow, desks' = [desks EXCEPT ![d] = row],
             UNCHANGED <<team, seats, outlived>>,
             row.user \in User, team[row.user].exists,
             row.op = "update" => row.seen = team[row.user]
      PROVE  TeamInv'
  <2>1. TeamTypeOK'
    BY <1>1 DEF TeamInv, TeamTypeOK
  <2>2. UsersExist' /\ OutlivedIsShut'
    BY <1>1 DEF TeamInv, TeamTypeOK, UsersExist, OutlivedIsShut
  <2>3. SeenIsTrue'
    BY <1>1 DEF TeamInv, TeamTypeOK, SeenIsTrue
  <2> QED
    BY <2>1, <2>2, <2>3 DEF TeamInv
<1>2. \A u \in User : team[u] \in UserRow /\ (team[u].active => team[u].exists)
  BY DEF TeamInv, TeamTypeOK, UsersExist
<1>3. ASSUME NEW row \in DeskRow, NEW op \in {"login", "update", "resetPassword", "revokeSessions"},
             NEW u \in User, NEW own \in BOOLEAN, NEW fits \in BOOLEAN, NEW seen \in UserRow,
             NEW failed \in 0..MaxFailed
      PROVE  /\ [row EXCEPT !.op = op, !.user = u, !.own = own, !.seen = seen] \in DeskRow
             /\ [row EXCEPT !.op = op, !.user = u, !.fits = fits, !.seen.failed = failed] \in DeskRow
  BY DEF DeskRow, UserRow
<1>4. NoDesk \in DeskRow /\ NoUserRow \in UserRow /\ 0 \in 0..MaxFailed /\ FALSE \in BOOLEAN
  BY TeamRows
<1>5. ASSUME NEW d \in Desk, NEW u \in User, NEW fits \in BOOLEAN, StartLogin(d, u, fits)
      PROVE  TeamInv'
  <2> DEFINE failed == IF fits THEN 0 ELSE team[u].failed
  <2> DEFINE row == [NoDesk EXCEPT !.op = "login", !.user = u, !.fits = fits,
                                   !.seen.failed = failed]
  <2>1. failed \in 0..MaxFailed
    BY <1>2 DEF UserRow
  <2> HIDE DEF failed
  <2>2. row \in DeskRow
    BY <1>3, <1>4, <2>1
  <2>3. row.op = "login" /\ row.user = u
    BY DEF NoDesk
  <2>4. desks' = [desks EXCEPT ![d] = row] /\ UNCHANGED <<team, seats, outlived>>
    BY <1>5 DEF StartLogin, failed
  <2>5. team[u].exists
    BY <1>2, <1>5 DEF StartLogin
  <2> HIDE DEF row
  <2> QED
    BY <1>1, <2>2, <2>3, <2>4, <2>5
<1>6. ASSUME NEW d \in Office, NEW s \in Seat, NEW u \in User,
             NEW op \in {"update", "resetPassword", "revokeSessions"}, StartOffice(d, s, op, u)
      PROVE  TeamInv'
  <2> DEFINE seen == IF op = "update" THEN team[u] ELSE NoUserRow
  <2> DEFINE own == (u = seats[s].user)
  <2> DEFINE row == [NoDesk EXCEPT !.op = op, !.user = u, !.own = own, !.seen = seen]
  <2>1. seen \in UserRow /\ own \in BOOLEAN
    BY <1>2, TeamRows
  <2> HIDE DEF seen, own
  <2>2. row \in DeskRow
    BY <1>3, <1>4, <2>1
  <2>3. row.op = op /\ row.user = u /\ row.seen = seen
    BY DEF NoDesk
  <2>4. /\ desks' = [desks EXCEPT ![d] = row] /\ UNCHANGED <<team, seats, outlived>>
        /\ team[u].exists
    BY <1>6 DEF StartOffice, seen, own
  <2> HIDE DEF row
  <2> QED
    BY <1>1, <2>2, <2>3, <2>4 DEF seen
<1> QED
  BY <1>5, <1>6

LEMMA OpenSeatStep ==
    ASSUME TeamInv, NEW d \in Desk, NEW s \in Seat, OpenSeat(d, s) PROVE TeamInv'
<1> USE TeamAssumption
<1> DEFINE u == desks[d].user
<1>1. /\ TeamTypeOK
      /\ u \in User /\ team[u].exists
      /\ seats[s] = NoSeat
  BY DEF OpenSeat, TeamInv, UsersExist, TeamTypeOK, DeskRow
<1>2. /\ seats' = [seats EXCEPT ![s].user = u]
      /\ team' = [team EXCEPT ![u].failed = 0, ![u].locked = FALSE]
      /\ LeavesDesk(d)
      /\ outlived' = outlived \cup
            {x \in Seat : seats'[x].user # NoUser /\ ~team'[seats'[x].user].active}
  BY DEF OpenSeat, Remembers, LeavesDesk
<1> HIDE DEF u
<1>3. team' \in [User -> UserRow] /\ SameStaff
  BY <1>1, <1>2, 0 \in 0..MaxFailed, FALSE \in BOOLEAN, CountsKeepStaff
<1>4. /\ seats' \in [Seat -> SeatRow]
      /\ \A x \in Seat : IF x = s THEN seats'[x].user = u ELSE seats'[x] = seats[x]
  BY <1>1, <1>2 DEF TeamTypeOK, SeatRow
<1>5. /\ desks' \in [Desk -> DeskRow]
      /\ \A e \in Desk : desks'[e].op # "none" => desks'[e] = desks[e]
  BY <1>1, <1>2, TeamRows DEF TeamTypeOK, LeavesDesk
<1>6. s \notin outlived
  BY <1>1, TeamRows DEF TeamInv, OutlivedIsShut
<1>7. /\ \A x \in Seat : seats[x].user # NoUser => seats[x].user \in User
      /\ \A e \in Desk : desks[e].op # "none" => desks[e].user \in User
  BY <1>1 DEF TeamTypeOK, SeatRow, TeamInv, UsersExist, DeskRow
<1>8. TeamTypeOK'
  BY <1>1, <1>2, <1>3, <1>4, <1>5 DEF TeamTypeOK
<1>9. OutlivedIsShut'
  BY <1>1, <1>2, <1>3, <1>4, <1>6, <1>7 DEF TeamTypeOK, TeamInv, OutlivedIsShut, SameStaff
<1>10. UsersExist'
  BY <1>1, <1>3, <1>4, <1>5, <1>7 DEF TeamInv, UsersExist, SameStaff
<1>11. SeenIsTrue'
  BY <1>3, <1>5, <1>7 DEF TeamInv, SeenIsTrue, SameStaff
<1> QED
  BY <1>8, <1>9, <1>10, <1>11 DEF TeamInv

LEMMA CreateUserStep ==
    ASSUME TeamInv, NEW s \in Seat, NEW u \in User, NEW role \in Duty, createUser(s, u, role)
    PROVE  TeamInv'
<1> USE TeamAssumption
<1>1. TeamTypeOK /\ ~team[u].exists
  BY DEF createUser, TeamInv
<1>2. /\ team' \in [User -> UserRow]
      /\ \A x \in User : IF x = u THEN team'[x].active /\ team'[x].exists
                                  ELSE team'[x] = team[x]
      /\ UNCHANGED <<seats, desks, outlived>>
  BY <1>1, TeamRows DEF createUser, TeamTypeOK
<1>3. /\ \A x \in Seat : seats[x].user # NoUser => seats[x].user \in User \ {u}
      /\ \A d \in Desk : desks[d].op # "none" => desks[d].user \in User \ {u}
  BY <1>1 DEF TeamTypeOK, SeatRow, TeamInv, UsersExist, DeskRow
<1>4. TeamTypeOK'
  BY <1>1, <1>2 DEF TeamTypeOK
<1>5. OutlivedIsShut'
  BY <1>1, <1>2, <1>3 DEF TeamTypeOK, TeamInv, OutlivedIsShut
<1>6. UsersExist'
  BY <1>2, <1>3 DEF TeamInv, UsersExist
<1>7. SeenIsTrue'
  BY <1>2, <1>3 DEF TeamInv, SeenIsTrue
<1> QED
  BY <1>4, <1>5, <1>6, <1>7 DEF TeamInv

(* Who is dismissed or taken back has every session closed: what was read
   of the user was true, as nobody else changes the team meanwhile. *)
LEMMA UpdateStep ==
    ASSUME OneOwnerAtWork, TeamInv, NEW d \in Office, NEW role \in Duty,
           NEW active \in BOOLEAN, update(d, role, active)
    PROVE  TeamInv'
<1> USE TeamAssumption
<1> DEFINE u == desks[d].user
<1> DEFINE updated == [team[u] EXCEPT !.role = role, !.active = active]
<1>1. /\ TeamTypeOK
      /\ d \in Desk /\ u \in User /\ team[u].exists
      /\ desks[d].seen.active = team[u].active
  BY DEF update, TeamInv, UsersExist, SeenIsTrue, TeamTypeOK, DeskRow
<1>2. /\ team' = [team EXCEPT ![u] = updated]
      /\ seats' = IF ClosesSessions(desks[d].seen, updated) THEN RevokesAll(u) ELSE seats
      /\ LeavesDesk(d)
      /\ outlived' = outlived \cup
            {x \in Seat : seats'[x].user # NoUser /\ ~team'[seats'[x].user].active}
  BY DEF update, Remembers, LeavesDesk
<1>3. /\ updated \in UserRow
      /\ updated.exists = team[u].exists /\ updated.active = active
  BY <1>1 DEF TeamTypeOK, UserRow
<1>4. /\ team' \in [User -> UserRow]
      /\ \A x \in User : team'[x].exists = team[x].exists
      /\ \A x \in User \ {u} : team'[x] = team[x]
      /\ team'[u] = updated
  BY <1>1, <1>2, <1>3 DEF TeamTypeOK
<1>5. /\ seats' \in [Seat -> SeatRow]
      /\ OnlyCloses
      /\ team[u].active # active => \A x \in Seat : seats[x].user = u => seats'[x].closed
  <2>1. CASE ClosesSessions(desks[d].seen, updated)
    BY <1>1, <1>2, <2>1, RevokesAllCloses
  <2>2. CASE ~ClosesSessions(desks[d].seen, updated)
    BY <1>1, <1>2, <1>3, <2>2 DEF ClosesSessions, TeamTypeOK, OnlyCloses
  <2> QED
    BY <2>1, <2>2
<1> HIDE DEF u, updated
<1>6. /\ desks' \in [Desk -> DeskRow]
      /\ desks'[d].op = "none"
      /\ \A e \in Desk : desks'[e].op # "none" => desks'[e] = desks[e]
  BY <1>1, <1>2, TeamRows DEF TeamTypeOK, LeavesDesk
<1>7. /\ \A x \in Seat : seats[x].user # NoUser => seats[x].user \in User
      /\ \A e \in Desk : desks[e].op # "none" => desks[e].user \in User
  BY <1>1 DEF TeamTypeOK, SeatRow, TeamInv, UsersExist, DeskRow
<1>8. TeamTypeOK'
  BY <1>1, <1>2, <1>4, <1>5, <1>6 DEF TeamTypeOK
<1>9. OutlivedIsShut'
  <2> SUFFICES ASSUME NEW s \in outlived'
               PROVE  (seats[s].user # NoUser /\ (seats[s].closed \/ ~team[seats[s].user].active))'
    BY DEF OutlivedIsShut
  <2>1. CASE s \in outlived
    <3>1. /\ s \in Seat /\ seats[s].user # NoUser
          /\ seats[s].closed \/ ~team[seats[s].user].active
      BY <1>1, <2>1 DEF TeamInv, OutlivedIsShut, TeamTypeOK
    <3>2. CASE seats[s].user = u
      BY <1>3, <1>4, <1>5, <3>1, <3>2 DEF OnlyCloses
    <3>3. CASE seats[s].user # u
      BY <1>4, <1>5, <1>7, <3>1, <3>3 DEF OnlyCloses
    <3> QED
      BY <3>2, <3>3
  <2>2. CASE s \notin outlived
    BY <1>2, <2>2
  <2> QED
    BY <2>1, <2>2
<1>10. UsersExist'
  BY <1>1, <1>3, <1>4, <1>5, <1>6, <1>7 DEF TeamInv, UsersExist, OnlyCloses
<1>11. SeenIsTrue'
  <2>1. \A e \in Office : e = d
    BY DEF OneOwnerAtWork
  <2> QED
    BY <1>6, <2>1 DEF SeenIsTrue
<1> QED
  BY <1>8, <1>9, <1>10, <1>11 DEF TeamInv

LEMMA InitTeam == TeamInit => TeamInv
<1> USE TeamAssumption
<1> SUFFICES ASSUME TeamInit PROVE TeamInv
  OBVIOUS
<1>1. "OWNER" \in Duty
  BY DEF Duty
<1>2. TeamTypeOK
  BY <1>1, TeamRows DEF TeamInit, TeamTypeOK
<1>3. OutlivedIsShut /\ UsersExist /\ SeenIsTrue
  BY <1>1, TeamRows DEF TeamInit, OutlivedIsShut, UsersExist, SeenIsTrue
<1> QED
  BY <1>2, <1>3 DEF TeamInv

LEMMA TeamStep == ASSUME OneOwnerAtWork, TeamInv, [TeamNext]_teamVars PROVE TeamInv'
<1>1. CASE UNCHANGED teamVars
  BY <1>1 DEF teamVars, TeamInv, TeamTypeOK, OutlivedIsShut, UsersExist, SeenIsTrue
<1>2. CASE TeamNext
  BY <1>2, StartsStep, SameStaffStep, OpenSeatStep, UpdateStep, CreateUserStep DEF TeamNext
<1> QED
  BY <1>1, <1>2

(* AdminSessionService and TeamAccessService, with one owner at work at a
   time: a session that existed while its user was dismissed never acts
   again, whatever logins, updates and revocations are in flight, and also
   when the user is taken back. *)
THEOREM DismissedStayOut ==
    ASSUME OneOwnerAtWork
    PROVE  TeamSpec => []DismissedStaysOut
<1>1. TeamInv /\ [TeamNext]_teamVars => TeamInv'
  BY TeamStep
<1>2. TeamInv => DismissedStaysOut
  BY DEF TeamInv, OutlivedIsShut, DismissedStaysOut, MayAct
<1> QED
  BY <1>1, <1>2, InitTeam, PTL DEF TeamSpec

-----------------------------------------------------------------------------
(* The reviews *)

(* A request in flight is about a visit. *)
HandsKnow == \A h \in Hand : hands[h].op # "none" => hands[h].visit \in Visit

ReviewInv == ReviewTypeOK /\ HandsKnow /\ InvitationOpens

LEMMA ReviewRows ==
    /\ NoReview \in ReviewRow /\ ~NoReview.exists
    /\ NoInvite \in InviteRow /\ NoInvite.state = "none"
    /\ NoHand \in HandRow /\ NoHand.op = "none"
    /\ \A v \in Visit, t \in Token :
          ReviewTypeOK => /\ CreatedReview(v, t) \in ReviewRow
                          /\ CreatedReview(v, t).exists /\ CreatedReview(v, t).token = t
<1> USE ReviewAssumption
<1>1. NoReview \in ReviewRow /\ ~NoReview.exists
  BY DEF NoReview, ReviewRow
<1>2. NoInvite \in InviteRow /\ NoInvite.state = "none"
  BY DEF NoInvite, InviteRow
<1>3. NoHand \in HandRow /\ NoHand.op = "none"
  BY DEF NoHand, HandRow
<1>4. ReviewTypeOK => \A v \in Visit : visits[v].missed \in 0..MaxMissed
  BY DEF ReviewTypeOK, VisitRow
<1>5. ASSUME ReviewTypeOK, NEW v \in Visit, NEW t \in Token
      PROVE  /\ CreatedReview(v, t) \in ReviewRow
             /\ CreatedReview(v, t).exists /\ CreatedReview(v, t).token = t
  <2> DEFINE id == visits[v].missed
  <2>1. id \in 0..MaxMissed
    BY <1>4, <1>5
  <2>2. CreatedReview(v, t) = [NoReview EXCEPT !.exists = TRUE, !.id = id, !.token = t]
    BY DEF CreatedReview
  <2> HIDE DEF id
  <2> QED
    BY <1>1, <2>1, <2>2 DEF ReviewRow
<1> QED
  BY <1>1, <1>2, <1>3, <1>5

LEMMA InitReviews == ReviewInit => ReviewInv
<1> USE ReviewAssumption
<1> SUFFICES ASSUME ReviewInit PROVE ReviewInv
  OBVIOUS
<1>1. ReviewTypeOK
  BY ReviewRows DEF ReviewInit, ReviewTypeOK, VisitRow
<1>2. HandsKnow /\ InvitationOpens
  BY ReviewRows DEF ReviewInit, HandsKnow, InvitationOpens
<1> QED
  BY <1>1, <1>2 DEF ReviewInv

(* The steps that leave the visits, the surveys and the invitations alone. *)
LEMMA HandsStep ==
    ASSUME ReviewInv, NEW h \in Hand, NEW hand \in HandRow,
           hand.op # "none" => hand.visit \in Visit,
           hands' = [hands EXCEPT ![h] = hand],
           UNCHANGED <<visits, reviews, invites>>, drawn' \subseteq Token
    PROVE  ReviewInv'
<1>1. ReviewTypeOK'
  BY DEF ReviewInv, ReviewTypeOK
<1>2. HandsKnow' /\ InvitationOpens'
  BY DEF ReviewInv, ReviewTypeOK, HandsKnow, InvitationOpens
<1> QED
  BY <1>1, <1>2 DEF ReviewInv

(* The steps that write the rows of one visit. *)
VisitStays(v) ==
    /\ visits'[v] = visits[v]
    /\ reviews'[v] = reviews[v]
    /\ invites'[v] = invites[v]

LEMMA RowsStep ==
    ASSUME ReviewInv, NEW v \in Visit,
           visits' \in [Visit -> VisitRow], reviews' \in [Visit -> ReviewRow],
           invites' \in [Visit -> InviteRow], drawn' \subseteq Token,
           UNCHANGED hands \/ \E h \in Hand : Frees(h),
           \A w \in Visit \ {v} : VisitStays(w),
           reviews'[v].exists \/ reviews'[v] = NoReview,
           visits'[v].missed = 0 /\ invites'[v].state \in {"waiting", "sent"} =>
               reviews'[v].exists /\ reviews'[v].token = invites'[v].token
    PROVE  ReviewInv'
<1>1. hands' \in [Hand -> HandRow] /\ HandsKnow'
  BY ReviewRows DEF ReviewInv, ReviewTypeOK, HandsKnow, Frees
<1>2. ReviewTypeOK'
  BY <1>1 DEF ReviewInv, ReviewTypeOK, VisitStays
<1>3. InvitationOpens'
  BY DEF ReviewInv, InvitationOpens, VisitStays
<1> QED
  BY <1>1, <1>2, <1>3 DEF ReviewInv

(* The requests that begin and go away. *)
LEMMA HandsMove ==
    ASSUME ReviewInv, NEW h \in Hand,
           \/ \E v \in Visit :
                 \/ \E t \in Token : StartSchedule(h, v, t)
                 \/ \E rating \in Rating, byLink \in BOOLEAN : StartSubmit(h, v, rating, byLink)
                 \/ StartNoShow(h, v)
           \/ DropHand(h)
    PROVE  ReviewInv'
<1> USE ReviewAssumption
<1>1. ASSUME NEW hand \in HandRow, NEW op \in {"schedule", "submit", "noShow"},
             NEW v \in Visit, NEW t \in Token, NEW row \in BOOLEAN, NEW id \in 0..MaxMissed,
             NEW invited \in BOOLEAN, NEW rating \in Rating
      PROVE  /\ [hand EXCEPT !.op = op, !.visit = v, !.token = t] \in HandRow
             /\ [hand EXCEPT !.op = op, !.visit = v, !.row = row, !.id = id,
                             !.rating = rating] \in HandRow
             /\ [hand EXCEPT !.op = op, !.visit = v, !.row = row, !.id = id,
                             !.invited = invited] \in HandRow
  BY DEF HandRow
<1>2. NoHand \in HandRow /\ NoHand.op = "none"
  BY ReviewRows
<1>3. ASSUME NEW v \in Visit
      PROVE  reviews[v].id \in 0..MaxMissed /\ reviews[v].exists \in BOOLEAN
  BY DEF ReviewInv, ReviewTypeOK, ReviewRow
<1>4. drawn \subseteq Token
  BY DEF ReviewInv, ReviewTypeOK
<1>5. ASSUME NEW v \in Visit, NEW t \in Token, StartSchedule(h, v, t) PROVE ReviewInv'
  <2> DEFINE hand == [NoHand EXCEPT !.op = "schedule", !.visit = v, !.token = t]
  <2>1. hand \in HandRow
    BY <1>2 DEF HandRow
  <2>2. hand.visit = v
    BY DEF NoHand
  <2>3. /\ hands' = [hands EXCEPT ![h] = hand] /\ UNCHANGED <<visits, reviews, invites>>
        /\ drawn' \subseteq Token
    BY <1>4, <1>5 DEF StartSchedule, Takes, Draws
  <2> HIDE DEF hand
  <2> QED
    BY <2>1, <2>2, <2>3, HandsStep
<1>6. ASSUME NEW v \in Visit, NEW rating \in Rating, NEW byLink \in BOOLEAN,
             StartSubmit(h, v, rating, byLink)
      PROVE  ReviewInv'
  <2> DEFINE hand == [NoHand EXCEPT !.op = "submit", !.visit = v, !.row = TRUE,
                                    !.id = reviews[v].id, !.rating = rating]
  <2>1. hand \in HandRow
    BY <1>2, <1>3 DEF HandRow
  <2>2. hand.visit = v
    BY DEF NoHand
  <2>3. /\ hands' = [hands EXCEPT ![h] = hand] /\ UNCHANGED <<visits, reviews, invites>>
        /\ drawn' \subseteq Token
    BY <1>4, <1>6 DEF StartSubmit, Takes
  <2> HIDE DEF hand
  <2> QED
    BY <2>1, <2>2, <2>3, HandsStep
<1>7. ASSUME NEW v \in Visit, StartNoShow(h, v) PROVE ReviewInv'
  <2> DEFINE invited == (invites[v].state = "waiting")
  <2> DEFINE hand == [NoHand EXCEPT !.op = "noShow", !.visit = v, !.row = reviews[v].exists,
                                    !.id = reviews[v].id, !.invited = invited]
  <2>1. invited \in BOOLEAN
    OBVIOUS
  <2> HIDE DEF invited
  <2>2. hand \in HandRow
    BY <1>2, <1>3, <2>1 DEF HandRow
  <2>3. hand.visit = v
    BY DEF NoHand
  <2>4. /\ hands' = [hands EXCEPT ![h] = hand] /\ UNCHANGED <<visits, reviews, invites>>
        /\ drawn' \subseteq Token
    BY <1>4, <1>7 DEF StartNoShow, Takes, invited
  <2> HIDE DEF hand
  <2> QED
    BY <2>2, <2>3, <2>4, HandsStep
<1>8. CASE DropHand(h)
  BY <1>2, <1>4, <1>8, HandsStep DEF DropHand, Frees
<1> QED
  BY <1>5, <1>6, <1>7, <1>8

LEMMA ReviewStep == ReviewInv /\ [ReviewNext]_reviewVars => ReviewInv'
<1> USE ReviewAssumption
<1> SUFFICES ASSUME ReviewInv, [ReviewNext]_reviewVars PROVE ReviewInv'
  OBVIOUS
<1>1. /\ ReviewTypeOK /\ HandsKnow
      /\ drawn \subseteq Token
      /\ \A v \in Visit : /\ visits[v] \in VisitRow
                          /\ reviews[v] \in ReviewRow /\ invites[v] \in InviteRow
                          /\ reviews[v].exists \/ reviews[v] = NoReview
  BY DEF ReviewInv, ReviewTypeOK
<1>2. ASSUME NEW v \in Visit
      PROVE  visits[v].missed = 0 /\ invites[v].state \in {"waiting", "sent"} =>
                 reviews[v].exists /\ reviews[v].token = invites[v].token
  BY DEF ReviewInv, InvitationOpens
<1>3. ASSUME NEW h \in Hand, Schedule(h) PROVE ReviewInv'
  <2> DEFINE v == hands[h].visit
  <2> DEFINE t == hands[h].token
  <2>1. v \in Visit /\ t \in Token \cup {Nothing}
    BY <1>1, <1>3 DEF Schedule, HandsKnow, ReviewTypeOK, HandRow
  <2>2. UNCHANGED <<visits, drawn>> /\ Frees(h) /\ WriteInvite(v, t)
    BY <1>3 DEF Schedule
  <2> HIDE DEF v, t
  <2>3. CASE invites[v] = NoInvite
    <3> DEFINE row == Upserted(v, t)
    <3> DEFINE invite == [state |-> "waiting", token |-> t]
    <3>1. row \in ReviewRow
      <4>1. visits[v].missed \in 0..MaxMissed
        BY <1>1, <2>1 DEF VisitRow
      <4>2. CASE reviews[v].exists
        BY <1>1, <2>1, <4>2 DEF Upserted, ReviewRow
      <4>3. CASE ~reviews[v].exists
        BY <2>1, <4>1, <4>3, ReviewRows DEF Upserted, CreatedReview, ReviewRow
      <4> QED
        BY <4>2, <4>3
    <3>2. row.exists /\ row.token = t
      <4>1. CASE reviews[v].exists
        BY <1>1, <2>1, <4>1 DEF Upserted, ReviewRow
      <4>2. CASE ~reviews[v].exists
        BY <2>1, <4>2, ReviewRows DEF Upserted, CreatedReview, ReviewRow
      <4> QED
        BY <4>1, <4>2
    <3>3. invite \in InviteRow
      BY <2>1 DEF InviteRow
    <3>4. /\ reviews' = [reviews EXCEPT ![v] = row]
          /\ invites' = [invites EXCEPT ![v] = invite]
      BY <2>2, <2>3 DEF WriteInvite
    <3>5. invite.token = t
      OBVIOUS
    <3> HIDE DEF row, invite
    <3> QED
      BY <1>1, <2>1, <2>2, <3>1, <3>2, <3>3, <3>4, <3>5, RowsStep
         DEF ReviewTypeOK, VisitStays
  <2>4. CASE invites[v] # NoInvite
    BY <1>1, <1>2, <2>1, <2>2, <2>4, RowsStep DEF WriteInvite, ReviewTypeOK, VisitStays
  <2> QED
    BY <2>3, <2>4
<1>4. ASSUME NEW h \in Hand, submit(h) PROVE ReviewInv'
  <2> DEFINE v == hands[h].visit
  <2>1. v \in Visit /\ hands[h].rating \in {0} \cup Rating
    BY <1>1, <1>4 DEF submit, HandsKnow, ReviewTypeOK, HandRow
  <2>2. /\ reviews' = [reviews EXCEPT ![v].rating = hands[h].rating]
        /\ Frees(h) /\ UNCHANGED <<visits, invites, drawn>>
        /\ reviews[v].exists
    BY <1>4 DEF submit, Unanswered
  <2> HIDE DEF v
  <2>3. /\ reviews' \in [Visit -> ReviewRow]
        /\ reviews'[v].exists = reviews[v].exists /\ reviews'[v].token = reviews[v].token
        /\ \A w \in Visit \ {v} : reviews'[w] = reviews[w]
    BY <1>1, <2>1, <2>2 DEF ReviewTypeOK, ReviewRow
  <2> QED
    BY <1>1, <1>2, <2>1, <2>2, <2>3, RowsStep DEF ReviewTypeOK, VisitStays
<1>5. ASSUME NEW h \in Hand, NEW cancels \in BOOLEAN, markNoShow(h, cancels) PROVE ReviewInv'
  <2> DEFINE v == hands[h].visit
  <2>1. v \in Visit
    BY <1>1, <1>5 DEF markNoShow, HandsKnow
  <2>2. /\ visits' = [visits EXCEPT ![v] = [kept |-> FALSE, missed |-> @.missed + 1]]
        /\ visits[v].missed < MaxMissed
        /\ reviews' = IF hands[h].row THEN [reviews EXCEPT ![v] = NoReview] ELSE reviews
        /\ invites' = IF cancels /\ invites[v].state = "waiting"
                      THEN [invites EXCEPT ![v].state = "closed"] ELSE invites
        /\ Frees(h) /\ UNCHANGED drawn
    BY <1>5 DEF markNoShow
  <2> HIDE DEF v
  <2>3. /\ visits' \in [Visit -> VisitRow]
        /\ visits'[v].missed # 0
        /\ \A w \in Visit \ {v} : visits'[w] = visits[w]
    BY <1>1, <2>1, <2>2 DEF ReviewTypeOK, VisitRow
  <2>4. /\ reviews' \in [Visit -> ReviewRow]
        /\ reviews'[v].exists \/ reviews'[v] = NoReview
        /\ \A w \in Visit \ {v} : reviews'[w] = reviews[w]
    BY <1>1, <2>1, <2>2, ReviewRows DEF ReviewTypeOK
  <2>5. /\ invites' \in [Visit -> InviteRow]
        /\ \A w \in Visit \ {v} : invites'[w] = invites[w]
    BY <1>1, <2>1, <2>2 DEF ReviewTypeOK, InviteRow
  <2> QED
    BY <1>1, <2>1, <2>2, <2>3, <2>4, <2>5, RowsStep DEF VisitStays
<1>6. ASSUME NEW v \in Visit, NEW t \in Token, ensureCustomerReview(v, t) PROVE ReviewInv'
  <2>1. /\ reviews' = [reviews EXCEPT ![v] = CreatedReview(v, t)]
        /\ ~reviews[v].exists /\ drawn' \subseteq Token
        /\ UNCHANGED <<visits, invites, hands>>
    BY <1>1, <1>6 DEF ensureCustomerReview, Draws
  <2> QED
    BY <1>1, <1>2, <2>1, ReviewRows, RowsStep DEF ReviewTypeOK, VisitStays
<1>7. ASSUME NEW v \in Visit, SendInvite(v) PROVE ReviewInv'
  <2> DEFINE sent == IF visits[v].kept /\ reviews[v].exists /\ ~Submitted(v) /\ ~reviews[v].expired
                     THEN "sent" ELSE "closed"
  <2>1. /\ invites' = [invites EXCEPT ![v].state = sent] /\ sent \in {"sent", "closed"}
        /\ invites[v].state = "waiting" /\ UNCHANGED <<visits, reviews, hands, drawn>>
    BY <1>7 DEF SendInvite
  <2> HIDE DEF sent
  <2>2. /\ invites' \in [Visit -> InviteRow]
        /\ invites'[v].token = invites[v].token
        /\ \A w \in Visit \ {v} : invites'[w] = invites[w]
    BY <1>1, <2>1 DEF ReviewTypeOK, InviteRow
  <2> QED
    BY <1>1, <1>2, <2>1, <2>2, RowsStep DEF ReviewTypeOK, VisitStays
<1>8. ASSUME NEW v \in Visit, MarkSent(v) \/ LinkExpires(v) PROVE ReviewInv'
  <2>1. UNCHANGED <<visits, invites, hands, drawn>> /\ reviews[v].exists
    BY <1>8 DEF MarkSent, LinkExpires
  <2>2. /\ reviews' \in [Visit -> ReviewRow]
        /\ reviews'[v].exists = reviews[v].exists /\ reviews'[v].token = reviews[v].token
        /\ \A w \in Visit \ {v} : reviews'[w] = reviews[w]
    <3>1. CASE MarkSent(v)
      BY <1>1, <3>1 DEF MarkSent, ReviewTypeOK, ReviewRow
    <3>2. CASE LinkExpires(v)
      BY <1>1, <3>2 DEF LinkExpires, ReviewTypeOK, ReviewRow
    <3> QED
      BY <1>8, <3>1, <3>2
  <2> QED
    BY <1>1, <1>2, <2>1, <2>2, RowsStep DEF ReviewTypeOK, VisitStays
<1>9. ASSUME NEW v \in Visit, revertNoShow(v) PROVE ReviewInv'
  <2>1. UNCHANGED <<reviews, invites, hands, drawn>>
    BY <1>9 DEF revertNoShow
  <2>2. /\ visits' \in [Visit -> VisitRow]
        /\ visits'[v].missed = visits[v].missed
        /\ \A w \in Visit \ {v} : visits'[w] = visits[w]
    BY <1>1, <1>9 DEF revertNoShow, ReviewTypeOK, VisitRow
  <2> QED
    BY <1>1, <1>2, <2>1, <2>2, RowsStep DEF ReviewTypeOK, VisitStays
<1>10. CASE UNCHANGED reviewVars
  BY <1>10 DEF reviewVars, ReviewInv, ReviewTypeOK, HandsKnow, InvitationOpens
<1> QED
  BY <1>3, <1>4, <1>5, <1>6, <1>7, <1>8, <1>9, <1>10, HandsMove DEF ReviewNext

(* ReviewRequestScheduler and ReviewsService: the rows have their types. *)
THEOREM ReviewTypeCorrect == ReviewSpec => []ReviewTypeOK
<1>1. ReviewInv => ReviewTypeOK
  BY DEF ReviewInv
<1> QED
  BY <1>1, InitReviews, ReviewStep, PTL DEF ReviewSpec

(* For any number of visits, schedulers and requests: the link in an
   invitation that was sent, or is about to be, opens the survey of its
   visit, unless the visit was once marked as a no-show. *)
THEOREM InvitationsOpen == ReviewSpec => []InvitationOpens
<1>1. ReviewInv => InvitationOpens
  BY DEF ReviewInv
<1> QED
  BY <1>1, InitReviews, ReviewStep, PTL DEF ReviewSpec

-----------------------------------------------------------------------------
(* The customers *)

CustomerOps == {"merge", "createRecord", "updateProfile", "setTags", "updateAccess"}

(* What a request is about exists, and a revision is made of a row and of a
   latest revision that were read one after the other. *)
ClerkOK ==
    \A q \in Clerk :
        /\ clerks[q].op \in CustomerOps => clerks[q].customer \in Customer
        /\ clerks[q].op = "merge" =>
              clerks[q].source \in Customer /\ clerks[q].source # clerks[q].customer
        /\ clerks[q].op \in {"createRecord", "reviseRecord"} => clerks[q].record \in Record
        /\ clerks[q].op = "reviseRecord" =>
              /\ clerks[q].current <= records[clerks[q].record].current
              /\ clerks[q].current < MaxRevised
              /\ clerks[q].previous # 0 =>
                    clerks[q].previous \in clerks[q].current..records[clerks[q].record].current

RecordInv == CustomerTypeOK /\ ClerkOK /\ RevisionsChain

LEMMA NoClerkIs == ASSUME MaxRevised \in Nat PROVE NoClerk \in ClerkRow /\ NoClerk.op = "none" /\ NoClerk.previous = 0
BY DEF NoClerk, ClerkRow

(* A request that begins or ends leaves the others alone, and the records. *)
LEMMA ClerkMoves ==
    ASSUME MaxRevised \in Nat, RecordInv, NEW q \in Clerk, NEW row \in ClerkRow,
           clerks' = [clerks EXCEPT ![q] = row],
           UNCHANGED <<customers, known, signedIn, records, overtaken>>,
           row.op \in CustomerOps => row.customer \in Customer,
           row.op = "merge" => row.source \in Customer /\ row.source # row.customer,
           row.op \in {"createRecord", "reviseRecord"} => row.record \in Record,
           row.op = "reviseRecord" =>
              /\ row.current <= records[row.record].current
              /\ row.current < MaxRevised
              /\ row.previous # 0 => row.previous \in row.current..records[row.record].current
    PROVE  RecordInv'
<1>1. CustomerTypeOK /\ ClerkOK /\ RevisionsChain
  BY DEF RecordInv
<1>2. CustomerTypeOK' /\ clerks'[q] = row /\ \A p \in Clerk \ {q} : clerks'[p] = clerks[p]
  BY <1>1 DEF CustomerTypeOK
<1>3. ClerkOK'
  BY <1>1, <1>2 DEF ClerkOK
<1>4. QED
  BY <1>1, <1>2, <1>3 DEF RecordInv, RevisionsChain

LEMMA ClerkEnds ==
    ASSUME MaxRevised \in Nat, RecordInv, NEW q \in Clerk, LaysDown(q)
    PROVE  /\ clerks' \in [Clerk -> ClerkRow] /\ clerks'[q].op = "none"
           /\ \A p \in Clerk \ {q} : clerks'[p] = clerks[p]
BY NoClerkIs DEF RecordInv, CustomerTypeOK, LaysDown

(* Whatever happens to the customers, the records may only go on. *)
LEMMA RecordsGoOn ==
    ASSUME MaxRevised \in Nat, RecordInv, CustomerTypeOK', RevisionsChain',
           NEW q, clerks'[q].op = "none", \A p \in Clerk \ {q} : clerks'[p] = clerks[p],
           \A r \in Record : records'[r].current >= records[r].current
    PROVE  RecordInv'
<1>1. CustomerTypeOK /\ ClerkOK /\ RevisionsChain
  BY DEF RecordInv
<1>2. ASSUME NEW p \in Clerk, p # q, clerks[p].op = "reviseRecord"
      PROVE  /\ clerks[p].current <= records'[clerks[p].record].current
             /\ clerks[p].previous # 0 =>
                   clerks[p].previous \in clerks[p].current..records'[clerks[p].record].current
  <2>1. clerks[p].record \in Record
    BY <1>1, <1>2 DEF ClerkOK
  <2>2. /\ records[clerks[p].record].current \in Nat /\ records'[clerks[p].record].current \in Nat
        /\ records'[clerks[p].record].current >= records[clerks[p].record].current
    BY <1>1, <2>1 DEF CustomerTypeOK, RecordRow
  <2>3. clerks[p].current \in Nat /\ clerks[p].previous \in Nat
    BY <1>1 DEF CustomerTypeOK, ClerkRow
  <2>4. QED
    BY <1>1, <1>2, <2>2, <2>3 DEF ClerkOK
<1>3. ClerkOK'
  BY <1>1, <1>2 DEF ClerkOK, CustomerOps
<1>4. QED
  BY <1>3 DEF RecordInv

(* The last number there is, is the current one. *)
LEMMA LastIsCurrent ==
    ASSUME MaxRevised \in Nat, RecordInv, NEW r \in Record
    PROVE  LastNumber(r) = records[r].current
<1> DEFINE cur == records[r].current
           IsLast(n) == /\ \A v \in records[r].revisions : v.number <= n
                        /\ n = 0 \/ \E v \in records[r].revisions : v.number = n
<1>1. cur \in 0..MaxRevised /\ records[r].revisions = {[number |-> n, of |-> n - 1] : n \in 1..cur}
  BY DEF RecordInv, CustomerTypeOK, RecordRow, RevisionsChain
<1>2. IsLast(cur)
  <2>1. \A v \in records[r].revisions : v.number <= cur
    BY <1>1
  <2>2. ASSUME cur # 0
        PROVE  \E v \in records[r].revisions : v.number = cur
    <3>1. [number |-> cur, of |-> cur - 1] \in records[r].revisions
      BY <1>1, <2>2
    <3>2. QED
      BY <3>1
  <2>3. QED
    BY <2>1, <2>2
<1>3. ASSUME NEW n \in 0..MaxRevised, IsLast(n)
      PROVE  n = cur
  <2>1. n <= cur
    BY <1>1, <1>3
  <2>2. CASE cur = 0
    BY <2>1, <2>2
  <2>3. CASE cur # 0
    <3>1. PICK v \in records[r].revisions : v.number = cur
      BY <1>2, <2>3
    <3>2. cur <= n
      BY <1>3, <3>1
    <3>3. QED
      BY <1>1, <2>1, <3>2
  <2>4. QED
    BY <2>2, <2>3
<1>4. LastNumber(r) = CHOOSE n \in 0..MaxRevised : IsLast(n)
  BY DEF LastNumber
<1> HIDE DEF IsLast, cur
<1>5. QED
  BY <1>1, <1>2, <1>3, <1>4 DEF cur

(* The number that is free is the next one, and the revision that was read
   last is the one before it. *)
LEMMA RevisionIsNext ==
    ASSUME MaxRevised \in Nat, RecordInv, NEW q \in Clerk, reviseServiceRecord(q)
    PROVE  /\ clerks[q].record \in Record
           /\ clerks[q].current = records[clerks[q].record].current
           /\ clerks[q].previous = records[clerks[q].record].current
           /\ clerks[q].current + 1 \in 1..MaxRevised
<1> DEFINE r == clerks[q].record
           cur == records[r].current
<1>1. /\ r \in Record /\ clerks[q].current <= cur /\ clerks[q].current < MaxRevised
      /\ clerks[q].previous \in clerks[q].current..cur
      /\ \A v \in records[r].revisions : v.number # clerks[q].current + 1
  BY DEF RecordInv, ClerkOK, reviseServiceRecord, NumberIsFree
<1>2. cur \in Nat /\ clerks[q].current \in Nat
  BY <1>1 DEF RecordInv, CustomerTypeOK, RecordRow, ClerkRow
<1>3. records[r].revisions = {[number |-> n, of |-> n - 1] : n \in 1..cur}
  BY <1>1 DEF RecordInv, RevisionsChain
<1>4. clerks[q].current + 1 \notin 1..cur
  <2>1. SUFFICES ASSUME clerks[q].current + 1 \in 1..cur PROVE FALSE
    OBVIOUS
  <2>2. PICK n \in 1..cur : n = clerks[q].current + 1
    BY <2>1
  <2>3. [number |-> n, of |-> n - 1] \in records[r].revisions
    BY <1>3
  <2>4. QED
    BY <1>1, <2>2, <2>3
<1>5. QED
  BY <1>1, <1>2, <1>4

LEMMA RevisesInv ==
    ASSUME MaxRevised \in Nat, RecordInv, NEW q \in Clerk, reviseServiceRecord(q)
    PROVE  RecordInv'
<1> DEFINE r == clerks[q].record
           cur == records[r].current
           new == [number |-> cur + 1, of |-> cur]
<1>1. /\ LaysDown(q) /\ UNCHANGED <<customers, known, signedIn>>
      /\ records' = [records EXCEPT ![r].current = clerks[q].current + 1,
                                    ![r].revisions = @ \cup {[number |-> clerks[q].current + 1,
                                                              of |-> clerks[q].previous]}]
  BY DEF reviseServiceRecord
<1>2. /\ r \in Record /\ clerks[q].current = cur /\ clerks[q].previous = cur
      /\ cur + 1 \in 1..MaxRevised
  BY RevisionIsNext
<1>3. records \in [Record -> RecordRow] /\ cur \in 0..MaxRevised
  BY <1>2 DEF RecordInv, CustomerTypeOK, RecordRow
<1>4. /\ records'[r] = [records[r] EXCEPT !.current = cur + 1, !.revisions = @ \cup {new}]
      /\ \A s \in Record \ {r} : records'[s] = records[s]
      /\ records' = [s \in Record |-> records'[s]]
  BY <1>1, <1>2, <1>3
<1>5. /\ records'[r].current = cur + 1 /\ records'[r].customer = records[r].customer
      /\ records'[r].revisions = records[r].revisions \cup {new} /\ records'[r] \in RecordRow
  <2>1. new \in Revision /\ records[r] \in RecordRow /\ cur + 1 \in 0..MaxRevised
    BY <1>2, <1>3 DEF Revision
  <2> DEFINE revs == records[r].revisions \cup {new}
             next == cur + 1
  <2>2. revs \in SUBSET Revision /\ next \in 0..MaxRevised
    BY <2>1 DEF RecordRow
  <2>3. records'[r] = [records[r] EXCEPT !.current = next, !.revisions = revs]
    BY <1>4
  <2> HIDE DEF new, cur, revs, next
  <2>4. /\ records'[r] \in RecordRow /\ records'[r].current = next
        /\ records'[r].customer = records[r].customer /\ records'[r].revisions = revs
    BY <2>1, <2>2, <2>3 DEF RecordRow
  <2>5. QED
    BY <2>4 DEF revs, next
<1>6. RevisionsChain'
  <2>1. \A s \in Record :
           records[s].revisions = {[number |-> n, of |-> n - 1] : n \in 1..records[s].current}
    BY DEF RecordInv, RevisionsChain
  <2>2. {[number |-> n, of |-> n - 1] : n \in 1..cur} \cup {new}
           = {[number |-> n, of |-> n - 1] : n \in 1..(cur + 1)}
    BY <1>3
  <2>3. records'[r].revisions = {[number |-> n, of |-> n - 1] : n \in 1..records'[r].current}
    BY <1>2, <1>5, <2>1, <2>2
  <2>4. QED
    BY <1>4, <2>1, <2>3 DEF RevisionsChain
<1>7. CustomerTypeOK'
  <2>1. records' \in [Record -> RecordRow]
    <3>1. \A s \in Record : records'[s] \in RecordRow
      BY <1>3, <1>4, <1>5
    <3> HIDE DEF new, cur, r
    <3>2. QED
      BY <1>4, <3>1
  <2>2. clerks' \in [Clerk -> ClerkRow]
    BY <1>1, ClerkEnds
  <2>3. /\ customers' = customers /\ known' = known /\ signedIn' = signedIn
        /\ overtaken' = overtaken /\ CustomerTypeOK
    BY <1>1 DEF RecordInv, reviseServiceRecord
  <2>4. QED
    BY <2>1, <2>2, <2>3 DEF CustomerTypeOK
<1>8. \A s \in Record : records'[s].current >= records[s].current
  <2>1. \A s \in Record : records[s].current \in Nat
    BY <1>3 DEF RecordRow
  <2>2. records'[r].current >= cur
    BY <1>3, <1>5
  <2>3. \A s \in Record \ {r} : records'[s].current = records[s].current
    BY <1>4
  <2> HIDE DEF r
  <2>4. QED
    BY <2>1, <2>2, <2>3
<1>9. QED
  BY <1>1, <1>6, <1>7, <1>8, ClerkEnds, RecordsGoOn

LEMMA CreatesInv ==
    ASSUME MaxRevised \in Nat \ {0}, RecordInv, NEW q \in Clerk, createServiceRecord(q)
    PROVE  RecordInv'
<1> DEFINE r == clerks[q].record
           new == [customer |-> clerks[q].customer, current |-> 1,
                   revisions |-> {[number |-> 1, of |-> 0]}]
<1>1. /\ LaysDown(q) /\ UNCHANGED <<customers, known, signedIn>> /\ records[r] = NoRecord
      /\ records' = [records EXCEPT ![r] = new]
  BY DEF createServiceRecord
<1>2. r \in Record /\ clerks[q].customer \in Customer /\ records \in [Record -> RecordRow]
  BY DEF RecordInv, CustomerTypeOK, ClerkOK, CustomerOps, createServiceRecord
<1>3. new \in RecordRow
  BY <1>2 DEF RecordRow, Revision
<1>4. records'[r] = new /\ \A s \in Record \ {r} : records'[s] = records[s]
  BY <1>1, <1>2
<1>5. RevisionsChain'
  <2>1. {[number |-> n, of |-> n - 1] : n \in 1..1} = {[number |-> 1, of |-> 0]}
    OBVIOUS
  <2>2. QED
    BY <1>4, <2>1 DEF RecordInv, RevisionsChain
<1>6. CustomerTypeOK'
  <2>1. overtaken' = overtaken
    BY DEF createServiceRecord
  <2>2. QED
    BY <1>1, <1>2, <1>3, <2>1, ClerkEnds DEF RecordInv, CustomerTypeOK
<1>7. \A s \in Record : records'[s].current >= records[s].current
  <2>1. \A s \in Record : records[s].current \in Nat
    BY <1>2 DEF RecordRow
  <2>2. records[r].current = 0 /\ records'[r].current = 1
    BY <1>1, <1>4 DEF NoRecord
  <2>3. QED
    BY <1>4, <2>1, <2>2
<1>8. QED
  BY <1>1, <1>5, <1>6, <1>7, ClerkEnds, RecordsGoOn

(* A merge gives the records another customer, and nothing else. *)
LEMMA MergesInv ==
    ASSUME MaxRevised \in Nat, RecordInv, NEW q \in Clerk, merge(q)
    PROVE  RecordInv'
<1> DEFINE target == clerks[q].customer
           source == clerks[q].source
           moved(r) == IF records[r].customer = source
                       THEN [records[r] EXCEPT !.customer = target] ELSE records[r]
<1>1. /\ LaysDown(q) /\ records' = [r \in Record |-> moved(r)]
      /\ customers' = [customers EXCEPT
            ![target].profile = @ \/ customers[source].profile,
            ![target].tagged = @ \/ customers[source].tagged,
            ![source] = [@ EXCEPT !.mergedInto = target, !.profile = FALSE, !.tagged = FALSE]]
      /\ known' = (known \ {source}) \cup {target : c \in known \cap {source}}
      /\ signedIn' = signedIn \ {source}
  BY DEF merge
<1>2. target \in Customer /\ source \in Customer /\ source # target
  BY DEF merge, RecordInv, ClerkOK, CustomerOps
<1>3. /\ customers \in [Customer -> CustomerRow] /\ records \in [Record -> RecordRow]
      /\ known \subseteq Customer /\ signedIn \subseteq Customer
  BY DEF RecordInv, CustomerTypeOK
<1>4. \A r \in Record : /\ records'[r] \in RecordRow /\ records'[r].current = records[r].current
                        /\ records'[r].revisions = records[r].revisions
  BY <1>1, <1>2, <1>3 DEF RecordRow
<1>5. customers' \in [Customer -> CustomerRow]
  <2> DEFINE kept == [customers[target] EXCEPT !.profile = @ \/ customers[source].profile,
                                                 !.tagged = @ \/ customers[source].tagged]
             archived == [customers[source] EXCEPT !.mergedInto = target, !.profile = FALSE,
                                                   !.tagged = FALSE]
  <2>1. kept \in CustomerRow
    BY <1>2, <1>3, Zenon DEF CustomerRow
  <2>2. archived \in CustomerRow
    BY <1>2, <1>3 DEF CustomerRow
  <2>3. customers' = [customers EXCEPT ![target] = kept, ![source] = archived]
    BY <1>1, <1>2, <1>3
  <2> HIDE DEF kept, archived, target, source
  <2>4. QED
    BY <1>3, <2>1, <2>2, <2>3
<1>6. known' \subseteq Customer /\ signedIn' \subseteq Customer
  BY <1>1, <1>2, <1>3
<1>7. records' \in [Record -> RecordRow]
  <2> HIDE DEF moved
  <2>1. QED
    BY <1>1, <1>4
<1>8. clerks' \in [Clerk -> ClerkRow]
  BY <1>1, ClerkEnds
<1>9. CustomerTypeOK'
  <2>1. overtaken' \in BOOLEAN
    BY DEF merge, RecordInv, CustomerTypeOK
  <2>2. QED
    BY <1>5, <1>6, <1>7, <1>8, <2>1 DEF CustomerTypeOK
<1>10. RevisionsChain'
  BY <1>4 DEF RecordInv, RevisionsChain
<1>11. \A r \in Record : records'[r].current >= records[r].current
  BY <1>3, <1>4 DEF RecordRow
<1>12. QED
  BY <1>1, <1>9, <1>10, <1>11, ClerkEnds, RecordsGoOn

(* The small updates touch one row of the customers. *)
LEMMA UpdatesInv ==
    ASSUME MaxRevised \in Nat, RecordInv, NEW q \in Clerk, NEW value \in BOOLEAN,
           updateProfile(q) \/ setTags(q, value) \/ updateOnlineBookingAccess(q, value)
    PROVE  RecordInv'
<1>1. LaysDown(q) /\ UNCHANGED <<known, signedIn, records, overtaken>>
  BY DEF updateProfile, setTags, updateOnlineBookingAccess
<1>2. /\ clerks[q].customer \in Customer /\ customers \in [Customer -> CustomerRow]
      /\ records \in [Record -> RecordRow]
  BY DEF updateProfile, setTags, updateOnlineBookingAccess, RecordInv, CustomerTypeOK, ClerkOK,
         CustomerOps
<1>3. customers' \in [Customer -> CustomerRow]
  <2> DEFINE c == clerks[q].customer
             changed == {[customers[c] EXCEPT !.profile = TRUE],
                         [customers[c] EXCEPT !.tagged = value],
                         [customers[c] EXCEPT !.blocked = value]}
  <2>1. changed \subseteq CustomerRow
    BY <1>2 DEF CustomerRow
  <2>2. \E row \in changed : customers' = [customers EXCEPT ![c] = row]
    BY DEF updateProfile, setTags, updateOnlineBookingAccess
  <2> HIDE DEF changed, c
  <2>3. QED
    BY <1>2, <2>1, <2>2
<1>4. clerks' \in [Clerk -> ClerkRow]
  BY <1>1, ClerkEnds
<1>5. CustomerTypeOK' /\ RevisionsChain'
  BY <1>1, <1>3, <1>4 DEF RecordInv, CustomerTypeOK, RevisionsChain
<1>6. \A r \in Record : records'[r].current >= records[r].current
  BY <1>1, <1>2 DEF RecordRow
<1>7. QED
  BY <1>1, <1>5, <1>6, ClerkEnds, RecordsGoOn

(* A request begins. *)
LEMMA BeginsInv ==
    ASSUME MaxRevised \in Nat, RecordInv, NEW q \in Clerk,
           \/ \E c, source \in Customer : StartMerge(q, c, source)
           \/ \E c \in Customer, op \in {"updateProfile", "setTags", "updateAccess"} :
                 StartUpdate(q, op, c)
           \/ \E c \in Customer, r \in Record : StartRecord(q, c, r)
           \/ \E r \in Record : ReadRecord(q, r)
    PROVE  RecordInv'
<1>1. \A r \in Record : records[r].current \in 0..MaxRevised
  BY DEF RecordInv, CustomerTypeOK, RecordRow
<1>2. ASSUME NEW c \in Customer, NEW source \in Customer, StartMerge(q, c, source)
      PROVE  RecordInv'
  <2> DEFINE row == [NoClerk EXCEPT !.op = "merge", !.customer = c, !.source = source]
  <2>1. row \in ClerkRow
    BY <1>1, NoClerkIs DEF ClerkRow
  <2>2. row.op = "merge" /\ row.customer = c /\ row.source = source
    BY <1>1, NoClerkIs DEF ClerkRow
  <2>3. /\ clerks' = [clerks EXCEPT ![q] = row] /\ c # source
        /\ UNCHANGED <<customers, known, signedIn, records, overtaken>>
    BY <1>2 DEF StartMerge, TakesUp
  <2> HIDE DEF row
  <2>4. QED
    BY <2>1, <2>2, <2>3, ClerkMoves DEF CustomerOps
<1>3. ASSUME NEW c \in Customer, NEW op \in {"updateProfile", "setTags", "updateAccess"},
             StartUpdate(q, op, c)
      PROVE  RecordInv'
  <2> DEFINE row == [NoClerk EXCEPT !.op = op, !.customer = c]
  <2>1. row \in ClerkRow
    BY <1>1, NoClerkIs DEF ClerkRow
  <2>2. row.op = op /\ row.customer = c
    BY <1>1, NoClerkIs DEF ClerkRow
  <2>3. clerks' = [clerks EXCEPT ![q] = row] /\ UNCHANGED <<customers, known, signedIn, records, overtaken>>
    BY <1>3 DEF StartUpdate, TakesUp
  <2> HIDE DEF row
  <2>4. QED
    BY <2>1, <2>2, <2>3, ClerkMoves DEF CustomerOps
<1>4. ASSUME NEW c \in Customer, NEW r \in Record, StartRecord(q, c, r)
      PROVE  RecordInv'
  <2> DEFINE row == [NoClerk EXCEPT !.op = "createRecord", !.customer = c, !.record = r]
  <2>1. row \in ClerkRow
    BY <1>1, NoClerkIs DEF ClerkRow
  <2>2. row.op = "createRecord" /\ row.customer = c /\ row.record = r
    BY <1>1, NoClerkIs DEF ClerkRow
  <2>3. clerks' = [clerks EXCEPT ![q] = row] /\ UNCHANGED <<customers, known, signedIn, records, overtaken>>
    BY <1>4 DEF StartRecord, TakesUp
  <2> HIDE DEF row
  <2>4. QED
    BY <2>1, <2>2, <2>3, ClerkMoves DEF CustomerOps
<1>5. ASSUME NEW r \in Record, ReadRecord(q, r)
      PROVE  RecordInv'
  <2> DEFINE row == [NoClerk EXCEPT !.op = "reviseRecord", !.record = r,
                                    !.current = records[r].current]
  <2>1. row \in ClerkRow
    BY <1>1, NoClerkIs DEF ClerkRow
  <2>2. /\ row.op = "reviseRecord" /\ row.record = r
        /\ row.current = records[r].current /\ row.previous = 0
    BY <1>1, NoClerkIs DEF ClerkRow
  <2>3. /\ clerks' = [clerks EXCEPT ![q] = row] /\ UNCHANGED <<customers, known, signedIn, records, overtaken>>
        /\ records[r].current < MaxRevised
    BY <1>5 DEF ReadRecord, TakesUp
  <2>4. row.op \notin CustomerOps /\ row.op # "merge" /\ row.record \in Record
    BY <2>2 DEF CustomerOps
  <2>5. row.current <= records[row.record].current /\ row.current < MaxRevised
    <3>1. records[r].current \in Nat
      BY <1>1
    <3>2. QED
      BY <2>2, <2>3, <3>1
  <2> HIDE DEF row
  <2>6. QED
    BY <2>1, <2>2, <2>3, <2>4, <2>5, ClerkMoves
<1>6. QED
  BY <1>2, <1>3, <1>4, <1>5

LEMMA ReadsPreviousInv ==
    ASSUME MaxRevised \in Nat, RecordInv, NEW q \in Clerk, ReadPrevious(q)
    PROVE  RecordInv'
<1> DEFINE r == clerks[q].record
           row == [clerks[q] EXCEPT !.previous = records[r].current]
<1>1. /\ r \in Record /\ clerks[q] \in ClerkRow /\ clerks[q].op = "reviseRecord"
      /\ clerks[q].current <= records[r].current /\ clerks[q].current < MaxRevised
  BY DEF RecordInv, CustomerTypeOK, ClerkOK, ReadPrevious
<1>2. records[r].current \in 0..MaxRevised /\ clerks[q].current \in Nat
  BY <1>1 DEF RecordInv, CustomerTypeOK, RecordRow, ClerkRow
<1>3. /\ row \in ClerkRow /\ row.op = "reviseRecord" /\ row.record = r
      /\ row.current = clerks[q].current /\ row.previous = records[r].current
  BY <1>1, <1>2 DEF ClerkRow
<1>4. clerks' = [clerks EXCEPT ![q] = row] /\ UNCHANGED <<customers, known, signedIn, records, overtaken>>
  <2>1. LastNumber(r) = records[r].current
    BY <1>1, LastIsCurrent
  <2>2. QED
    BY <2>1 DEF ReadPrevious
<1>5. r = row.record /\ records[row.record].current = records[r].current
  BY <1>3
<1> HIDE DEF row, r
<1>6. row.op \notin CustomerOps /\ row.op # "merge" /\ row.record \in Record
  BY <1>1, <1>3 DEF CustomerOps
<1>7. /\ row.current <= records[row.record].current /\ row.current < MaxRevised
      /\ row.previous \in row.current..records[row.record].current
  BY <1>1, <1>2, <1>3
<1>8. QED
  BY <1>3, <1>4, <1>6, <1>7, ClerkMoves

LEMMA RecordStepKeepsInv ==
    ASSUME RecordInv, [CustomerNext]_customerVars
    PROVE  RecordInv'
<1> USE CustomerAssumption
<1>1. CASE UNCHANGED customerVars
  BY <1>1 DEF customerVars, RecordInv, CustomerTypeOK, ClerkOK, RevisionsChain
<1>2. ASSUME NEW c \in Customer, Books(c) \/ SignsIn(c)
      PROVE  RecordInv'
  BY <1>2 DEF Books, SignsIn, RecordInv, CustomerTypeOK, ClerkOK, RevisionsChain
<1>3. ASSUME NEW q \in Clerk, DropClerk(q)
      PROVE  RecordInv'
  <2>1. LaysDown(q) /\ UNCHANGED <<customers, known, signedIn, records, overtaken>>
    BY <1>3 DEF DropClerk
  <2>2. clerks' = [clerks EXCEPT ![q] = NoClerk]
    BY <2>1 DEF LaysDown
  <2>3. QED
    BY <2>1, <2>2, NoClerkIs, ClerkMoves DEF CustomerOps
<1>4. Owner \subseteq Clerk
  BY CustomerAssumption
<1>5. ASSUME NEW q \in Owner, \/ \E target, source \in Customer : StartMerge(q, target, source)
                              \/ merge(q)
      PROVE  RecordInv'
  BY <1>4, <1>5, MergesInv, BeginsInv
<1>6. ASSUME NEW q \in Clerk, NEW c \in Customer,
             \/ \E op \in {"updateProfile", "setTags", "updateAccess"} : StartUpdate(q, op, c)
             \/ \E r \in Record : StartRecord(q, c, r)
      PROVE  RecordInv'
  BY <1>6, BeginsInv
<1>7. ASSUME NEW q \in Clerk,
             \/ updateProfile(q)
             \/ \E value \in BOOLEAN : setTags(q, value) \/ updateOnlineBookingAccess(q, value)
      PROVE  RecordInv'
  BY <1>7, UpdatesInv
<1>8. ASSUME NEW q \in Clerk,
             \/ createServiceRecord(q)
             \/ \E r \in Record : ReadRecord(q, r)
             \/ ReadPrevious(q) \/ reviseServiceRecord(q)
      PROVE  RecordInv'
  BY <1>8, BeginsInv, CreatesInv, ReadsPreviousInv, RevisesInv
<1>9. CASE CustomerNext
  BY <1>2, <1>3, <1>5, <1>6, <1>7, <1>8, <1>9 DEF CustomerNext
<1>10. QED
  BY <1>1, <1>9

LEMMA RecordInvAlways == CustomerSpec => []RecordInv
<1>1. MaxRevised \in Nat \ {0}
  BY CustomerAssumption
<1>2. CustomerInit => RecordInv
  <2>1. SUFFICES ASSUME CustomerInit PROVE RecordInv
    OBVIOUS
  <2>2. \A q \in Clerk : clerks[q] = NoClerk /\ clerks[q] \in ClerkRow /\ clerks[q].op = "none"
    BY <1>1, <2>1, NoClerkIs DEF CustomerInit
  <2>3. NoRecord \in RecordRow
    BY <1>1 DEF NoRecord, RecordRow
  <2>4. NewCustomer \in CustomerRow
    BY DEF NewCustomer, CustomerRow
  <2>5. CustomerTypeOK
    BY <1>1, <2>1, <2>3, <2>4, NoClerkIs DEF CustomerInit, CustomerTypeOK
  <2>6. ClerkOK
    BY <2>2 DEF ClerkOK, CustomerOps
  <2>7. \A r \in Record : records[r].revisions = {} /\ records[r].current = 0
    BY <2>1 DEF CustomerInit, NoRecord
  <2>8. QED
    BY <2>5, <2>6, <2>7 DEF RecordInv, RevisionsChain
<1>3. RecordInv /\ [CustomerNext]_customerVars => RecordInv'
  BY <1>1, RecordStepKeepsInv
<1>4. QED
  BY <1>2, <1>3, PTL DEF CustomerSpec

(* The note of a service record loses nothing: its revisions are numbered
   without a gap, each is made of the one before, and the record shows the
   last, whoever else revises it between the two reads and the write. *)
THEOREM RevisionsAreChained == CustomerSpec => []RevisionsChain
<1>1. RecordInv => RevisionsChain
  BY DEF RecordInv
<1>2. QED
  BY <1>1, RecordInvAlways, PTL

-----------------------------------------------------------------------------
(* The merges, as long as none is overtaken: the target a merge has looked up
   is still a customer when its transaction runs. *)

MergeOK ==
    \A q \in Owner : clerks[q].op = "merge" =>
        /\ customers[clerks[q].customer].mergedInto = Nobody
        /\ clerks[q].source # clerks[q].customer

Merges == RecordInv /\ MergeOK /\ Acyclic

(* A step that leaves every customer where it is. *)
LEMMA NobodyMoves ==
    ASSUME Merges, RecordInv', \A c \in Customer : customers'[c].mergedInto = customers[c].mergedInto,
           \A q \in Owner : /\ q \in Clerk
                            /\ clerks'[q].op = "merge" =>
                                  \/ clerks'[q] = clerks[q]
                                  \/ /\ customers[clerks'[q].customer].mergedInto = Nobody
                                     /\ clerks'[q].source # clerks'[q].customer
    PROVE  Merges'
<1>1. Acyclic'
  BY DEF Merges, Acyclic
<1>2. ASSUME NEW q \in Owner, clerks'[q].op = "merge"
      PROVE  /\ customers'[clerks'[q].customer].mergedInto = Nobody
             /\ clerks'[q].source # clerks'[q].customer
  <2>1. clerks'[q].customer \in Customer
    BY <1>2 DEF RecordInv, ClerkOK, CustomerOps
  <2>2. QED
    BY <1>2, <2>1 DEF Merges, MergeOK
<1>3. MergeOK'
  BY <1>2 DEF MergeOK
<1>4. QED
  BY <1>1, <1>3 DEF Merges

(* The merge itself: a group with the archived row leaves by the target or,
   when it holds the target too, by what the target has always named. *)
LEMMA MergeMakesNoCycle ==
    ASSUME Merges, RecordInv', NEW q \in Owner, merge(q), ~overtaken'
    PROVE  Merges'
<1> DEFINE target == clerks[q].customer
           source == clerks[q].source
<1>1. q \in Clerk /\ clerks[q].op = "merge" /\ Nobody \notin Customer
  BY CustomerAssumption DEF merge
<1>2. /\ target \in Customer /\ source \in Customer /\ source # target
      /\ customers[target].mergedInto = Nobody
  BY <1>1 DEF Merges, MergeOK, RecordInv, ClerkOK, CustomerOps
<1>3. customers \in [Customer -> CustomerRow]
  BY DEF Merges, RecordInv, CustomerTypeOK
<1>4. /\ \A c \in Customer \ {source} : customers'[c].mergedInto = customers[c].mergedInto
      /\ customers'[source].mergedInto = target
  <2> DEFINE kept == [customers[target] EXCEPT !.profile = @ \/ customers[source].profile,
                                                 !.tagged = @ \/ customers[source].tagged]
             archived == [customers[source] EXCEPT !.mergedInto = target, !.profile = FALSE,
                                                   !.tagged = FALSE]
  <2>1. kept.mergedInto = customers[target].mergedInto /\ archived.mergedInto = target
    BY <1>2, <1>3 DEF CustomerRow
  <2>2. customers' = [customers EXCEPT ![target] = kept, ![source] = archived]
    BY <1>2, <1>3 DEF merge
  <2> HIDE DEF kept, archived, target, source
  <2>3. QED
    BY <1>2, <1>3, <2>1, <2>2
<1> HIDE DEF target, source
<1>5. ASSUME NEW group \in SUBSET Customer, group # {}
      PROVE  \E c \in group : customers'[c].mergedInto \notin group
  <2>1. CASE source \notin group
    <3>1. PICK c \in group : customers[c].mergedInto \notin group
      BY <1>5 DEF Merges, Acyclic
    <3>2. customers'[c].mergedInto = customers[c].mergedInto
      BY <1>4, <2>1
    <3>3. QED
      BY <3>1, <3>2
  <2>2. CASE source \in group /\ target \notin group
    BY <1>4, <2>2
  <2>3. CASE source \in group /\ target \in group
    BY <1>1, <1>2, <1>4, <2>3
  <2>4. QED
    BY <2>1, <2>2, <2>3
<1>6. Acyclic'
  BY <1>5 DEF Acyclic
<1>7. LaysDown(q)
  BY DEF merge
<1>8. clerks'[q].op = "none"
  BY <1>1, <1>7, ClerkEnds, CustomerAssumption DEF Merges
<1>9. ASSUME NEW p \in Owner, clerks'[p].op = "merge"
      PROVE  /\ customers'[clerks'[p].customer].mergedInto = Nobody
             /\ clerks'[p].source # clerks'[p].customer
  <2>1. p # q /\ p \in Clerk /\ clerks'[p] = clerks[p]
    BY <1>1, <1>7, <1>8, <1>9, ClerkEnds, CustomerAssumption DEF Merges
  <2>2. clerks[p].customer # source /\ clerks[p].customer \in Customer
    BY <1>9, <2>1 DEF merge, source, Merges, RecordInv, ClerkOK, CustomerOps
  <2>3. QED
    BY <1>4, <1>9, <2>1, <2>2 DEF Merges, MergeOK
<1>11. MergeOK'
  BY <1>9 DEF MergeOK
<1>12. QED
  BY <1>6, <1>11 DEF Merges

(* Every other step: it leaves the customers where they are, and the only
   request that becomes a merge has just looked its target up. *)
LEMMA OthersMoveNobody ==
    ASSUME Merges, RecordInv',
           NEW q \in Clerk, LaysDown(q),
           \/ UNCHANGED customers
           \/ \E value \in BOOLEAN :
                 updateProfile(q) \/ setTags(q, value) \/ updateOnlineBookingAccess(q, value)
    PROVE  Merges'
<1>1. /\ customers \in [Customer -> CustomerRow] /\ Owner \subseteq Clerk
      /\ clerks \in [Clerk -> ClerkRow] /\ RecordInv /\ MaxRevised \in Nat
  BY CustomerAssumption DEF Merges, RecordInv, CustomerTypeOK
<1>2. /\ clerks'[q].op = "none" /\ \A p \in Clerk \ {q} : clerks'[p] = clerks[p]
  BY <1>1, ClerkEnds
<1>3. \A c \in Customer : customers'[c].mergedInto = customers[c].mergedInto
  <2>1. CASE UNCHANGED customers
    BY <2>1
  <2>2. ASSUME NEW value \in BOOLEAN,
               updateProfile(q) \/ setTags(q, value) \/ updateOnlineBookingAccess(q, value)
        PROVE  \A c \in Customer : customers'[c].mergedInto = customers[c].mergedInto
    <3> DEFINE d == clerks[q].customer
               changed == {[customers[d] EXCEPT !.profile = TRUE],
                           [customers[d] EXCEPT !.tagged = value],
                           [customers[d] EXCEPT !.blocked = value]}
    <3>1. d \in Customer
      BY <1>1, <2>2 DEF updateProfile, setTags, updateOnlineBookingAccess, RecordInv, ClerkOK,
                        CustomerOps
    <3>2. \A row \in changed : row.mergedInto = customers[d].mergedInto
      BY <1>1, <3>1 DEF CustomerRow
    <3>3. \E row \in changed : customers' = [customers EXCEPT ![d] = row]
      BY <2>2 DEF updateProfile, setTags, updateOnlineBookingAccess
    <3> HIDE DEF changed, d
    <3>4. QED
      BY <1>1, <3>1, <3>2, <3>3
  <2>3. QED
    BY <2>1, <2>2
<1>4. QED
  BY <1>1, <1>2, <1>3, NobodyMoves

LEMMA MergesStep ==
    ASSUME Merges, [CustomerNext]_customerVars, ~overtaken'
    PROVE  Merges'
<1>1. /\ RecordInv /\ Owner \subseteq Clerk /\ MaxRevised \in Nat \ {0}
      /\ clerks \in [Clerk -> ClerkRow]
  BY CustomerAssumption DEF Merges, RecordInv, CustomerTypeOK
<1>2. RecordInv'
  BY <1>1, RecordStepKeepsInv
<1>3. CASE UNCHANGED customers /\ UNCHANGED clerks
  <2>1. \A q \in Owner : clerks'[q] = clerks[q] /\ q \in Clerk
    BY <1>1, <1>3
  <2>2. \A c \in Customer : customers'[c].mergedInto = customers[c].mergedInto
    BY <1>3
  <2>3. QED
    BY <1>2, <2>1, <2>2, NobodyMoves
<1>4. ASSUME NEW q \in Owner, NEW target \in Customer, NEW source \in Customer,
             StartMerge(q, target, source)
      PROVE  Merges'
  <2> DEFINE row == [NoClerk EXCEPT !.op = "merge", !.customer = target, !.source = source]
  <2>1. row.customer = target /\ row.source = source
    BY <1>1, NoClerkIs DEF ClerkRow
  <2>2. /\ clerks' = [clerks EXCEPT ![q] = row] /\ target # source /\ UNCHANGED customers
        /\ customers[target].mergedInto = Nobody
    BY <1>4 DEF StartMerge, TakesUp, Found
  <2> HIDE DEF row
  <2>3. clerks'[q] = row /\ \A p \in Clerk \ {q} : clerks'[p] = clerks[p]
    BY <1>1, <2>2
  <2>4. \A p \in Owner : p \in Clerk /\ (p = q \/ clerks'[p] = clerks[p])
    BY <1>1, <2>3
  <2>5. \A c \in Customer : customers'[c].mergedInto = customers[c].mergedInto
    BY <2>2
  <2>6. QED
    BY <1>2, <2>1, <2>2, <2>3, <2>4, <2>5, NobodyMoves
<1>5. ASSUME NEW q \in Clerk, UNCHANGED customers,
             NEW row, clerks' = [clerks EXCEPT ![q] = row], row.op # "merge"
      PROVE  Merges'
  <2>1. clerks'[q] = row /\ \A p \in Clerk \ {q} : clerks'[p] = clerks[p]
    BY <1>1, <1>5
  <2>2. \A p \in Owner : p \in Clerk /\ (clerks'[p] = clerks[p] \/ clerks'[p] = row)
    BY <1>1, <2>1
  <2>3. \A c \in Customer : customers'[c].mergedInto = customers[c].mergedInto
    BY <1>5
  <2>4. QED
    BY <1>2, <1>5, <2>2, <2>3, NobodyMoves
<1>6. ASSUME NEW q \in Clerk, NEW c \in Customer,
             NEW op \in {"updateProfile", "setTags", "updateAccess"}, StartUpdate(q, op, c)
      PROVE  Merges'
  <2> DEFINE row == [NoClerk EXCEPT !.op = op, !.customer = c]
  <2>1. row.op # "merge"
    BY <1>1, NoClerkIs DEF ClerkRow
  <2>2. clerks' = [clerks EXCEPT ![q] = row] /\ UNCHANGED customers
    BY <1>6 DEF StartUpdate, TakesUp
  <2> HIDE DEF row
  <2>3. QED
    BY <1>5, <2>1, <2>2
<1>7. ASSUME NEW q \in Clerk, NEW c \in Customer, NEW r \in Record, StartRecord(q, c, r)
      PROVE  Merges'
  <2> DEFINE row == [NoClerk EXCEPT !.op = "createRecord", !.customer = c, !.record = r]
  <2>1. row.op # "merge"
    BY <1>1, NoClerkIs DEF ClerkRow
  <2>2. clerks' = [clerks EXCEPT ![q] = row] /\ UNCHANGED customers
    BY <1>7 DEF StartRecord, TakesUp
  <2> HIDE DEF row
  <2>3. QED
    BY <1>5, <2>1, <2>2
<1>8. ASSUME NEW q \in Clerk, NEW r \in Record, ReadRecord(q, r)
      PROVE  Merges'
  <2> DEFINE row == [NoClerk EXCEPT !.op = "reviseRecord", !.record = r,
                                    !.current = records[r].current]
  <2>1. row.op # "merge"
    BY <1>1, NoClerkIs DEF ClerkRow
  <2>2. clerks' = [clerks EXCEPT ![q] = row] /\ UNCHANGED customers
    BY <1>8 DEF ReadRecord, TakesUp
  <2> HIDE DEF row
  <2>3. QED
    BY <1>5, <2>1, <2>2
<1>9. ASSUME NEW q \in Clerk, ReadPrevious(q)
      PROVE  Merges'
  <2> DEFINE row == [clerks[q] EXCEPT !.previous = LastNumber(clerks[q].record)]
  <2>1. row.op # "merge"
    BY <1>1, <1>9 DEF ReadPrevious, ClerkRow
  <2>2. clerks' = [clerks EXCEPT ![q] = row] /\ UNCHANGED customers
    BY <1>9 DEF ReadPrevious
  <2> HIDE DEF row
  <2>3. QED
    BY <1>5, <2>1, <2>2
<1>10. ASSUME NEW q \in Clerk, NEW value \in BOOLEAN,
              updateProfile(q) \/ setTags(q, value) \/ updateOnlineBookingAccess(q, value)
       PROVE  Merges'
  <2>1. LaysDown(q)
    BY <1>10 DEF updateProfile, setTags, updateOnlineBookingAccess
  <2>2. QED
    BY <1>2, <1>10, <2>1, OthersMoveNobody
<1>11. ASSUME NEW q \in Clerk,
              createServiceRecord(q) \/ reviseServiceRecord(q) \/ DropClerk(q)
       PROVE  Merges'
  <2>1. LaysDown(q) /\ UNCHANGED customers
    BY <1>11 DEF createServiceRecord, reviseServiceRecord, DropClerk
  <2>2. QED
    BY <1>2, <2>1, OthersMoveNobody
<1>12. CASE UNCHANGED customerVars
  BY <1>3, <1>12 DEF customerVars
<1>13. ASSUME NEW c \in Customer, Books(c) \/ SignsIn(c)
       PROVE  Merges'
  BY <1>3, <1>13 DEF Books, SignsIn
<1>14. ASSUME NEW q \in Owner, merge(q)
       PROVE  Merges'
  BY <1>2, <1>14, MergeMakesNoCycle
<1>15. ASSUME NEW q \in Clerk, NEW c \in Customer,
              \/ \E op \in {"updateProfile", "setTags", "updateAccess"} : StartUpdate(q, op, c)
              \/ \E r \in Record : StartRecord(q, c, r)
       PROVE  Merges'
  BY <1>6, <1>7, <1>15
<1>16. ASSUME NEW q \in Clerk,
              \/ updateProfile(q)
              \/ \E value \in BOOLEAN : setTags(q, value) \/ updateOnlineBookingAccess(q, value)
              \/ createServiceRecord(q)
              \/ \E r \in Record : ReadRecord(q, r)
              \/ ReadPrevious(q) \/ reviseServiceRecord(q)
              \/ DropClerk(q)
       PROVE  Merges'
  BY <1>8, <1>9, <1>10, <1>11, <1>16
<1>17. CASE CustomerNext
  BY <1>4, <1>13, <1>14, <1>15, <1>16, <1>17 DEF CustomerNext
<1>18. QED
  BY <1>12, <1>17

(* What has been overtaken stays so. *)
LEMMA OvertakenStays == overtaken /\ [CustomerNext]_customerVars => overtaken'
BY DEF CustomerNext, customerVars, Books, SignsIn, StartMerge, merge, StartUpdate, updateProfile,
       setTags, updateOnlineBookingAccess, StartRecord, createServiceRecord, ReadRecord,
       ReadPrevious, reviseServiceRecord, DropClerk

(* Whoever follows the merges of an archived customer comes to one who is not
   archived, for any number of customers, however many merges are in flight
   together, unless one of them archives the target of another: merge looks
   both customers up before its transaction and not again, and the only step
   that archives a customer is another merge.  The exception is needed: two
   merges of one pair, one each way, close a circle. *)
THEOREM MergesFormNoCycle == CustomerSpec => []NoMergeCycle
<1> DEFINE Inv == overtaken \/ Merges
<1>1. CustomerInit /\ RecordInv => Merges
  <2>1. SUFFICES ASSUME CustomerInit, RecordInv PROVE Merges
    OBVIOUS
  <2>2. MergeOK
    <3>1. \A q \in Owner : clerks[q] = NoClerk
      BY <2>1, CustomerAssumption DEF CustomerInit
    <3>2. QED
      BY <3>1, NoClerkIs, CustomerAssumption DEF MergeOK
  <2>3. \A c \in Customer : customers[c].mergedInto = Nobody
    BY <2>1 DEF CustomerInit, NewCustomer
  <2>4. Acyclic
    BY <2>3, CustomerAssumption DEF Acyclic
  <2>5. QED
    BY <2>1, <2>2, <2>4 DEF Merges
<1>2. Inv /\ [CustomerNext]_customerVars => Inv'
  BY MergesStep, OvertakenStays
<1>3. Inv => NoMergeCycle
  BY DEF Merges, NoMergeCycle
<1> HIDE DEF Inv
<1>4. CustomerInit /\ RecordInv => Inv
  BY <1>1 DEF Inv
<1>5. QED
  BY <1>2, <1>3, <1>4, RecordInvAlways, PTL DEF CustomerSpec

-----------------------------------------------------------------------------
(* The codes *)

(* The protocol of the codes implements the one-time code.  What makes it so
   is the one condition of the updateMany that consumes: a code that has
   opened something, or that somebody is about to open a session with, is
   consumed, and a late failure that writes a smaller number cannot take that
   back. *)

(* What a request in flight knows of its code. *)
AskOK ==
    \A v \in Visitor :
        /\ asking[v].step \in {"send", "right", "wrong", "session"} =>
              asking[v].code \in Code /\ Stored(asking[v].code)
        /\ asking[v].step \in {"right", "wrong"} => asking[v].attempts < MaxAttempts
        /\ asking[v].step = "session" =>
              codes[asking[v].code].consumed /\ grants[asking[v].code] = 0

(* Two requests never hold the same consumed code. *)
SessionsDiffer ==
    \A v, w \in Visitor :
        /\ asking[v].step = "session" /\ asking[w].step = "session"
        /\ asking[v].code = asking[w].code
        => v = w

(* What has opened something, and what has failed too often, is consumed. *)
SpentIsConsumed ==
    \A k \in Code :
        /\ grants[k] \in {0, 1}
        /\ grants[k] = 1 => Stored(k) /\ codes[k].consumed
        /\ codes[k].attempts >= MaxAttempts => codes[k].consumed

CodeInv == CodeTypeOK /\ AskOK /\ SessionsDiffer /\ SpentIsConsumed

-----------------------------------------------------------------------------
LEMMA InitCode == CodeInit => CodeInv
<1> USE CodeAssumption
<1> SUFFICES ASSUME CodeInit PROVE CodeInv
  OBVIOUS
<1>1. NoRow \in CodeRow
  BY DEF NoRow, CodeRow
<1>2. NoAsk \in Ask
  BY DEF NoAsk, Ask, Kind
<1>3. CodeTypeOK
  BY <1>1, <1>2 DEF CodeInit, CodeTypeOK
<1>4. AskOK /\ SessionsDiffer
  BY DEF CodeInit, AskOK, SessionsDiffer, NoAsk
<1>5. SpentIsConsumed
  BY DEF CodeInit, SpentIsConsumed, NoRow
<1> QED
  BY <1>3, <1>4, <1>5 DEF CodeInv

(* The requests that ask, read and go away write no row. *)
LEMMA LooksKeepCodes ==
    ASSUME CodeInv, NEW v \in Visitor,
           \/ \E kind \in Kind, phone \in Phone, whom \in BOOLEAN :
                 RequestCode(v, kind, phone, whom)
           \/ \E k \in Code, answer \in {"right", "wrong"} : ReadCode(v, k, answer)
           \/ DropAsk(v)
    PROVE  /\ CodeInv'
           /\ UNCHANGED <<clock, codes, grants>>
           /\ \E row \in Ask :
                 /\ row.step # "session"
                 /\ asking' = [asking EXCEPT ![v] = row]
<1> USE CodeAssumption
<1>1. UNCHANGED <<clock, codes, grants>>
  BY DEF RequestCode, ReadCode, DropAsk
<1>2. \E row \in Ask :
         /\ asking' = [asking EXCEPT ![v] = row]
         /\ row.step \in {"idle", "create", "right", "wrong"}
         /\ row.step \in {"right", "wrong"} =>
               row.code \in Code /\ Stored(row.code) /\ row.attempts < MaxAttempts
  <2>1. CASE \E kind \in Kind, phone \in Phone, whom \in BOOLEAN :
                RequestCode(v, kind, phone, whom)
    <3>1. PICK kind \in Kind, phone \in Phone, whom \in BOOLEAN :
                  RequestCode(v, kind, phone, whom)
      BY <2>1
    <3> DEFINE row == [step |-> "create", kind |-> kind, phone |-> phone,
                       known |-> whom, code |-> NoCode, attempts |-> 0]
    <3>2. row \in Ask /\ row.step = "create"
      <4>1. 0 \in 0..MaxAttempts
        OBVIOUS
      <4> QED
        BY <4>1, Zenon DEF Ask
    <3> QED
      BY <3>1, <3>2 DEF RequestCode
  <2>2. CASE \E k \in Code, answer \in {"right", "wrong"} : ReadCode(v, k, answer)
    <3>1. PICK k \in Code, answer \in {"right", "wrong"} : ReadCode(v, k, answer)
      BY <2>2
    <3> DEFINE row == [NoAsk EXCEPT !.step = answer, !.kind = codes[k].kind,
                                    !.code = k, !.attempts = codes[k].attempts]
    <3>2. codes[k] \in CodeRow
      BY DEF CodeInv, CodeTypeOK
    <3>3. Stored(k) /\ codes[k].attempts < MaxAttempts
      BY <3>1 DEF ReadCode, Usable
    <3>4. row \in Ask
      BY <3>2, <3>3 DEF NoAsk, Ask, CodeRow, Stored
    <3>5. row.step = answer /\ row.code = k /\ row.attempts = codes[k].attempts
      BY DEF NoAsk
    <3> QED
      BY <3>1, <3>3, <3>4, <3>5 DEF ReadCode
  <2>3. CASE DropAsk(v)
    <3>1. NoAsk \in Ask /\ NoAsk.step = "idle"
      BY DEF NoAsk, Ask, Kind
    <3> QED
      BY <2>3, <3>1 DEF DropAsk
  <2> QED
    BY <2>1, <2>2, <2>3
<1>3. PICK row \in Ask :
         /\ asking' = [asking EXCEPT ![v] = row]
         /\ row.step \in {"idle", "create", "right", "wrong"}
         /\ row.step \in {"right", "wrong"} =>
               row.code \in Code /\ Stored(row.code) /\ row.attempts < MaxAttempts
  BY <1>2
<1>4. asking \in [Visitor -> Ask]
  BY DEF CodeInv, CodeTypeOK
<1>5. \A w \in Visitor : asking'[w] = IF w = v THEN row ELSE asking[w]
  BY <1>3, <1>4
<1>6. CodeTypeOK'
  BY <1>1, <1>3, <1>4 DEF CodeInv, CodeTypeOK
<1>7. AskOK'
  BY <1>1, <1>3, <1>5 DEF CodeInv, AskOK, Stored
<1>8. SessionsDiffer'
  BY <1>3, <1>5 DEF CodeInv, SessionsDiffer
<1>9. SpentIsConsumed'
  BY <1>1 DEF CodeInv, SpentIsConsumed, Stored
<1> QED
  BY <1>1, <1>3, <1>6, <1>7, <1>8, <1>9 DEF CodeInv

(* A request v writes the row of a code k it may go on with, ends or goes
   on itself, and counts what the code has opened. *)
Writes(v, k, row, ask, g) ==
    /\ UNCHANGED clock
    /\ codes' = [codes EXCEPT ![k] = row]
    /\ asking' = [asking EXCEPT ![v] = ask]
    /\ grants' = [grants EXCEPT ![k] = g]
    /\ asking[v].step = "session" => asking[v].code = k
    /\ ask.step = "session" => ask.code = k

(* What makes such a write consistent. *)
Consistent(v, k, row, ask, g) ==
    /\ row.kind # "NONE"
    /\ Stored(k) /\ codes[k].consumed => row.consumed
    /\ row.attempts >= MaxAttempts => row.consumed
    /\ g \in {0, 1}
    /\ g = 1 => row.consumed
    /\ ask.step \in {"idle", "send", "session"}
    /\ ask.step # "idle" => ask.code = k
    /\ ask.step = "session" => row.consumed /\ g = 0
    /\ g # grants[k] \/ ask.step = "session" =>
          \A w \in Visitor \ {v} : asking[w].step = "session" => asking[w].code # k

LEMMA WriteKeepsCodes ==
    ASSUME CodeInv, NEW v \in Visitor, NEW k \in Code, NEW row \in CodeRow, NEW ask \in Ask,
           NEW g \in Nat, Writes(v, k, row, ask, g), Consistent(v, k, row, ask, g)
    PROVE  CodeInv'
<1> USE CodeAssumption DEF Writes, Consistent
<1>1. /\ codes \in [Code -> CodeRow]
      /\ asking \in [Visitor -> Ask]
      /\ grants \in [Code -> Nat]
      /\ clock \in Nat
  BY DEF CodeInv, CodeTypeOK
<1>2. \A w \in Visitor : asking'[w] = IF w = v THEN ask ELSE asking[w]
  BY <1>1
<1>3. \A l \in Code : /\ codes'[l] = IF l = k THEN row ELSE codes[l]
                      /\ grants'[l] = IF l = k THEN g ELSE grants[l]
  BY <1>1
<1>4. CodeTypeOK'
  BY <1>1 DEF CodeTypeOK
<1>5. AskOK'
  <2> SUFFICES ASSUME NEW w \in Visitor
               PROVE  /\ asking'[w].step \in {"send", "right", "wrong", "session"} =>
                            asking'[w].code \in Code /\ Stored(asking[w].code)'
                      /\ asking'[w].step \in {"right", "wrong"} =>
                            asking'[w].attempts < MaxAttempts
                      /\ asking'[w].step = "session" =>
                            codes'[asking'[w].code].consumed /\ grants'[asking'[w].code] = 0
    BY DEF AskOK
  <2>1. CASE w = v
    BY <1>2, <1>3, <2>1 DEF Stored
  <2>2. CASE w # v
    BY <1>2, <1>3, <2>2 DEF Stored, CodeInv, AskOK
  <2> QED
    BY <2>1, <2>2
<1>6. SessionsDiffer'
  BY <1>2 DEF CodeInv, SessionsDiffer
<1>7. SpentIsConsumed'
  BY <1>3 DEF CodeInv, SpentIsConsumed, Stored
<1> QED
  BY <1>4, <1>5, <1>6, <1>7 DEF CodeInv

-----------------------------------------------------------------------------
(* Where a code stands, one at a time. *)
Stands(k) ==
    IF ~Stored(k) THEN "none"
    ELSE IF grants[k] = 1 THEN "used"
    ELSE IF grants[k] > 1 THEN "twice"
    ELSE IF Usable(k) \/ Claimed(k) THEN "open"
    ELSE "void"

(* A step that changes where no code stands, but for open ones that become
   void, is one the one-time code allows. *)
LEMMA VoidOrNothing ==
    ASSUME NEW K \in SUBSET Code,
           \A k \in K : Stands(k) = "open",
           \A k \in Code : Stands(k)' = IF k \in K THEN "void" ELSE Stands(k)
    PROVE  Promise!Next
<1>1. \A k \in Code : CodeStanding[k] = Stands(k)
  BY DEF CodeStanding, Stands
<1>2. CodeStanding' = [k \in Code |-> Stands(k)']
  BY DEF CodeStanding, Stands
<1>3. Promise!Void(K)
  BY <1>1, <1>2 DEF Promise!Void
<1> QED
  BY <1>3 DEF Promise!Next

(* A step that issues or uses one code and leaves the others. *)
LEMMA IssueOrUse ==
    ASSUME NEW k \in Code,
           \/ Stands(k) = "none" /\ Stands(k)' = "open"
           \/ Stands(k) = "open" /\ Stands(k)' = "used",
           \A l \in Code \ {k} : Stands(l)' = Stands(l)
    PROVE  Promise!Next
<1>1. CodeStanding = [l \in Code |-> Stands(l)]
  BY DEF CodeStanding, Stands
<1>2. CodeStanding' = [l \in Code |-> Stands(l)']
  BY DEF CodeStanding, Stands
<1>3. Promise!Issue(k) \/ Promise!Use(k)
  BY <1>1, <1>2 DEF Promise!Issue, Promise!Use
<1> QED
  BY <1>3 DEF Promise!Next

(* A write of k, by a request whose session is for no other code, leaves
   every other code where it stands. *)
LEMMA OthersStand ==
    ASSUME CodeTypeOK, NEW v \in Visitor, NEW k \in Code, NEW row, NEW ask, NEW g,
           Writes(v, k, row, ask, g)
    PROVE  \A l \in Code \ {k} : Stands(l)' = Stands(l)
<1> USE DEF Writes
<1> TAKE l \in Code \ {k}
<1>1. codes'[l] = codes[l] /\ grants'[l] = grants[l]
  BY DEF CodeTypeOK
<1>2. \A w \in Visitor : asking'[w] = IF w = v THEN ask ELSE asking[w]
  BY DEF CodeTypeOK
<1>3. Claimed(l)' = Claimed(l)
  BY <1>2 DEF Claimed
<1>4. Stored(l)' = Stored(l) /\ Usable(l)' = Usable(l)
  BY <1>1 DEF Stored, Usable
<1> QED
  BY <1>1, <1>3, <1>4 DEF Stands

(* What stands behind a claim and a code that can be consumed. *)
LEMMA OpenMeans ==
    ASSUME CodeInv, NEW k \in Code
    PROVE  /\ Usable(k) => Stands(k) = "open" /\ ~Claimed(k) /\ grants[k] = 0
           /\ Claimed(k) => Stands(k) = "open" /\ codes[k].consumed /\ grants[k] = 0
           /\ Stands(k) \in {"none", "open", "used", "void"}
<1>1. Claimed(k) => Stored(k) /\ codes[k].consumed /\ grants[k] = 0
  BY DEF Claimed, CodeInv, AskOK
<1>2. grants[k] \in {0, 1} /\ (grants[k] = 1 => codes[k].consumed)
  BY DEF CodeInv, SpentIsConsumed
<1> QED
  BY <1>1, <1>2 DEF Stands, Usable

LEMMA CreateStep ==
    ASSUME CodeInv, NEW v \in Visitor, NEW k \in Code, createChallenge(v, k)
    PROVE  CodeInv' /\ Promise!Next
<1> USE CodeAssumption
<1> DEFINE row == [kind |-> asking[v].kind, phone |-> asking[v].phone,
                   known |-> asking[v].known, made |-> clock, until |-> clock + Lifetime,
                   attempts |-> 0, consumed |-> FALSE]
<1> DEFINE ask == IF asking[v].known THEN [asking[v] EXCEPT !.step = "send", !.code = k]
                  ELSE NoAsk
<1>1. /\ codes \in [Code -> CodeRow]
      /\ asking[v] \in Ask
      /\ asking \in [Visitor -> Ask]
      /\ grants \in [Code -> Nat]
      /\ clock \in Nat
  BY DEF CodeInv, CodeTypeOK
<1>2. row \in CodeRow /\ row.kind # "NONE"
  <2>1. /\ asking[v].kind \in Kind
        /\ asking[v].phone \in Phone \cup {NoCode}
        /\ asking[v].known \in BOOLEAN
    BY <1>1 DEF Ask
  <2>2. clock + Lifetime \in Nat /\ 0 \in 0..MaxAttempts
    BY <1>1
  <2>3. row \in CodeRow
    BY <1>1, <2>1, <2>2, Zenon DEF CodeRow
  <2>4. row.kind # "NONE"
    BY <2>1 DEF Kind
  <2> QED
    BY <2>3, <2>4
<1>3. NoAsk \in Ask /\ NoAsk.step = "idle"
  BY DEF NoAsk, Ask, Kind
<1>4. ask \in Ask /\ ask.step \in {"idle", "send"} /\ (ask.step = "send" => ask.code = k)
  BY <1>1, <1>3 DEF Ask
<1>5. /\ asking[v].step = "create" /\ ~Stored(k)
      /\ codes' = [codes EXCEPT ![k] = row]
      /\ asking' = [asking EXCEPT ![v] = ask]
      /\ UNCHANGED <<clock, grants>>
  BY <1>1 DEF createChallenge
<1>6. grants[k] = 0
  BY <1>5 DEF CodeInv, SpentIsConsumed
<1>7. /\ row.attempts = 0 /\ ~row.consumed /\ row.until > clock
  BY <1>1
<1> HIDE DEF row, ask
<1>8. Writes(v, k, row, ask, 0)
  BY <1>1, <1>4, <1>5, <1>6 DEF Writes
<1>9. CodeInv'
  <2>1. Consistent(v, k, row, ask, 0)
    BY <1>1, <1>2, <1>4, <1>5, <1>6, <1>7 DEF Consistent
  <2> QED
    BY <1>2, <1>4, <1>8, <2>1, WriteKeepsCodes
<1>10. \A l \in Code \ {k} : Stands(l)' = Stands(l)
  BY <1>8, OthersStand DEF CodeInv
<1>11. Stands(k) = "none"
  BY <1>5 DEF Stands
<1>12. Stands(k)' = "open"
  <2>1. codes'[k] = row /\ grants'[k] = 0 /\ clock' = clock
    BY <1>1, <1>5, <1>6
  <2> QED
    BY <1>2, <1>7, <2>1 DEF Stands, Stored, Usable
<1> QED
  BY <1>9, <1>10, <1>11, <1>12, IssueOrUse

(* A request that ends with a write of a row it read long ago: whatever it
   writes of attempts, a row that could not be consumed stays so, since what
   ran out of attempts is consumed. *)
LEMMA LateWrite ==
    ASSUME CodeInv, NEW v \in Visitor, NEW k \in Code, NEW row \in CodeRow,
           Writes(v, k, row, NoAsk, grants[k]),
           asking[v].step # "session", Stored(k),
           row.kind # "NONE", row.until = codes[k].until,
           codes[k].consumed => row.consumed,
           row.attempts >= MaxAttempts => row.consumed
    PROVE  CodeInv' /\ Promise!Next
<1> USE CodeAssumption
<1>1. /\ codes \in [Code -> CodeRow]
      /\ asking \in [Visitor -> Ask]
      /\ grants \in [Code -> Nat]
      /\ clock \in Nat
  BY DEF CodeInv, CodeTypeOK
<1>2. NoAsk \in Ask /\ NoAsk.step = "idle"
  BY DEF NoAsk, Ask, Kind
<1>3. grants[k] \in {0, 1} /\ (grants[k] = 1 => codes[k].consumed)
  BY DEF CodeInv, SpentIsConsumed
<1>4. CodeInv'
  <2>1. Consistent(v, k, row, NoAsk, grants[k])
    BY <1>2, <1>3 DEF Consistent
  <2> QED
    BY <1>1, <1>2, <2>1, WriteKeepsCodes
<1>5. \A l \in Code \ {k} : Stands(l)' = Stands(l)
  BY OthersStand DEF CodeInv
<1>6. /\ codes'[k] = row /\ grants' = grants /\ clock' = clock
      /\ \A w \in Visitor : asking'[w] = IF w = v THEN NoAsk ELSE asking[w]
  BY <1>1 DEF Writes
<1>7. Claimed(k)' = Claimed(k)
  BY <1>2, <1>6 DEF Claimed
<1>8. Usable(k)' => Usable(k)
  <2>1. codes[k].attempts >= MaxAttempts => codes[k].consumed
    BY DEF CodeInv, SpentIsConsumed
  <2>2. codes[k].attempts \in 0..MaxAttempts
    BY <1>1 DEF CodeRow
  <2> QED
    BY <1>6, <2>1, <2>2 DEF Usable, Stored
<1>9. Stored(k)'
  BY <1>6 DEF Stored
<1> DEFINE K == IF Stands(k) = "open" /\ ~Usable(k)' /\ ~Claimed(k) THEN {k} ELSE {}
<1>10. Stands(k)' = IF k \in K THEN "void" ELSE Stands(k)
  BY <1>3, <1>6, <1>7, <1>8, <1>9 DEF Stands
<1>11. /\ K \in SUBSET Code
       /\ \A l \in K : Stands(l) = "open"
       /\ \A l \in Code : Stands(l)' = IF l \in K THEN "void" ELSE Stands(l)
  BY <1>5, <1>10
<1> HIDE DEF K
<1> QED
  BY <1>4, <1>11, VoidOrNothing

LEMMA SentStep ==
    ASSUME CodeInv, NEW v \in Visitor, NEW accepted \in BOOLEAN, Sent(v, accepted)
    PROVE  CodeInv' /\ Promise!Next
<1> DEFINE k == asking[v].code
<1> DEFINE row == IF accepted \/ asking[v].kind = "WAITLIST" THEN codes[k]
                  ELSE [codes[k] EXCEPT !.consumed = TRUE]
<1>1. k \in Code /\ Stored(k) /\ asking[v].step = "send"
  BY DEF Sent, CodeInv, AskOK
<1>2. codes[k] \in CodeRow /\ codes \in [Code -> CodeRow] /\ grants \in [Code -> Nat]
  BY <1>1 DEF CodeInv, CodeTypeOK
<1>3. row \in CodeRow /\ row.kind = codes[k].kind /\ row.until = codes[k].until
      /\ row.attempts = codes[k].attempts /\ (codes[k].consumed => row.consumed)
  BY <1>2 DEF CodeRow
<1>4. NoAsk.step = "idle"
  BY DEF NoAsk
<1>5. Writes(v, k, row, NoAsk, grants[k])
  BY <1>1, <1>2, <1>4 DEF Writes, Sent
<1>6. row.attempts >= MaxAttempts => row.consumed
  BY <1>1, <1>3 DEF CodeInv, SpentIsConsumed
<1> HIDE DEF row, k
<1> QED
  BY <1>1, <1>3, <1>5, <1>6, LateWrite DEF Stored

LEMMA WrongStep ==
    ASSUME CodeInv, NEW v \in Visitor, WrongCode(v)
    PROVE  CodeInv' /\ Promise!Next
<1> USE CodeAssumption
<1> DEFINE k == asking[v].code
<1> DEFINE n == asking[v].attempts + 1
<1> DEFINE gone == codes[k].consumed \/ n >= MaxAttempts
<1> DEFINE row == [codes[k] EXCEPT !.attempts = n, !.consumed = gone]
<1>1. k \in Code /\ Stored(k) /\ asking[v].step = "wrong" /\ asking[v].attempts < MaxAttempts
  BY DEF WrongCode, CodeInv, AskOK
<1>2. /\ codes[k] \in CodeRow /\ codes \in [Code -> CodeRow] /\ grants \in [Code -> Nat]
      /\ asking[v] \in Ask
  BY <1>1 DEF CodeInv, CodeTypeOK
<1>3. n \in 0..MaxAttempts
  BY <1>1, <1>2 DEF Ask
<1>4. gone \in BOOLEAN
  OBVIOUS
<1>5. /\ row \in CodeRow /\ row.kind = codes[k].kind /\ row.until = codes[k].until
      /\ row.attempts = n /\ row.consumed = gone
  <2> HIDE DEF n, gone, k
  <2> QED
    BY <1>2, <1>3, <1>4 DEF CodeRow
<1>6. NoAsk.step = "idle"
  BY DEF NoAsk
<1>7. Writes(v, k, row, NoAsk, grants[k])
  BY <1>1, <1>2, <1>6 DEF Writes, WrongCode
<1>8. (codes[k].consumed => row.consumed) /\ (row.attempts >= MaxAttempts => row.consumed)
  BY <1>5
<1> HIDE DEF row, k
<1> QED
  BY <1>1, <1>5, <1>7, <1>8, LateWrite DEF Stored

(* The row that the updateMany writes is one that can be consumed: nothing
   has been opened with it, and nobody is about to. *)
LEMMA ConsumedRow ==
    ASSUME CodeInv, NEW v \in Visitor, asking[v].step = "right", Consumable(asking[v].code)
    PROVE  /\ asking[v].code \in Code
           /\ Usable(asking[v].code) /\ Stored(asking[v].code)
           /\ codes[asking[v].code] \in CodeRow
           /\ [codes[asking[v].code] EXCEPT !.consumed = TRUE] \in CodeRow
           /\ grants[asking[v].code] = 0 /\ grants \in [Code -> Nat]
           /\ \A w \in Visitor : asking[w].step = "session" => asking[w].code # asking[v].code
<1>1. asking[v].code \in Code
  BY DEF CodeInv, AskOK
<1>2. codes[asking[v].code] \in CodeRow /\ grants \in [Code -> Nat]
  BY <1>1 DEF CodeInv, CodeTypeOK
<1>3. Usable(asking[v].code) /\ Stored(asking[v].code)
  BY DEF Consumable, Usable
<1>4. grants[asking[v].code] = 0 /\ ~Claimed(asking[v].code)
  BY <1>1, <1>3, OpenMeans
<1>5. [codes[asking[v].code] EXCEPT !.consumed = TRUE] \in CodeRow
  BY <1>2 DEF CodeRow
<1> QED
  BY <1>1, <1>2, <1>3, <1>4, <1>5 DEF Claimed

LEMMA RightStep ==
    ASSUME CodeInv, NEW v \in Visitor, RightCode(v)
    PROVE  CodeInv' /\ Promise!Next
<1>0. PICK k \in Code : k = asking[v].code
  BY ConsumedRow DEF RightCode
<1> DEFINE row == [codes[k] EXCEPT !.consumed = TRUE]
<1>1. /\ asking[v].step = "right"
      /\ k \in Code /\ Usable(k) /\ Stored(k)
      /\ codes[k] \in CodeRow /\ row \in CodeRow
      /\ grants[k] = 0 /\ grants \in [Code -> Nat]
      /\ \A w \in Visitor : asking[w].step = "session" => asking[w].code # k
  BY <1>0, ConsumedRow DEF RightCode
<1>2. row.kind = codes[k].kind /\ row.consumed /\ row.attempts = codes[k].attempts
  BY <1>1 DEF CodeRow
<1>3. Stands(k) = "open"
  BY <1>1, OpenMeans
<1>4. asking \in [Visitor -> Ask] /\ codes \in [Code -> CodeRow]
  BY DEF CodeInv, CodeTypeOK
<1>5. NoAsk \in Ask /\ NoAsk.step = "idle"
  BY CodeAssumption DEF NoAsk, Ask, Kind
<1>6. CASE asking[v].kind = "ACCOUNT_LOGIN"
  <2> DEFINE ask == [asking[v] EXCEPT !.step = "session"]
  <2>1. ask \in Ask /\ ask.step = "session" /\ ask.code = k
    BY <1>0, <1>4 DEF Ask
  <2>2. /\ codes' = [codes EXCEPT ![k] = row]
        /\ asking' = [asking EXCEPT ![v] = ask]
        /\ UNCHANGED <<clock, grants>>
    BY <1>0, <1>4, <1>6 DEF RightCode
  <2> HIDE DEF ask, row
  <2>3. Writes(v, k, row, ask, 0)
    BY <1>0, <1>1, <2>1, <2>2 DEF Writes
  <2>4. Consistent(v, k, row, ask, 0)
    BY <1>1, <1>2, <2>1 DEF Consistent, Stored
  <2>5. CodeInv'
    BY <1>1, <2>1, <2>3, <2>4, WriteKeepsCodes
  <2>6. \A l \in Code \ {k} : Stands(l)' = Stands(l)
    BY <1>1, <2>3, OthersStand DEF CodeInv
  <2>7. Stands(k)' = "open"
    <3>1. Claimed(k)'
      BY <1>4, <2>1, <2>2 DEF Claimed
    <3>2. Stored(k)' /\ grants'[k] = 0
      BY <1>1, <1>2, <1>4, <2>2 DEF Stored
    <3> QED
      BY <3>1, <3>2 DEF Stands
  <2> DEFINE K == {}
  <2>8. /\ K \in SUBSET Code
        /\ \A l \in K : Stands(l) = "open"
        /\ \A l \in Code : Stands(l)' = IF l \in K THEN "void" ELSE Stands(l)
    BY <1>3, <2>6, <2>7
  <2> HIDE DEF K
  <2> QED
    BY <2>5, <2>8, VoidOrNothing
<1>7. CASE asking[v].kind # "ACCOUNT_LOGIN"
  <2>1. /\ codes' = [codes EXCEPT ![k] = row]
        /\ asking' = [asking EXCEPT ![v] = NoAsk]
        /\ grants' = [grants EXCEPT ![k] = 1]
        /\ UNCHANGED clock
    BY <1>0, <1>1, <1>7 DEF RightCode
  <2> HIDE DEF row
  <2>2. Writes(v, k, row, NoAsk, 1)
    BY <1>0, <1>1, <1>5, <2>1 DEF Writes
  <2>3. Consistent(v, k, row, NoAsk, 1)
    BY <1>1, <1>2, <1>5 DEF Consistent, Stored
  <2>4. CodeInv'
    BY <1>1, <1>5, <2>2, <2>3, WriteKeepsCodes
  <2>5. \A l \in Code \ {k} : Stands(l)' = Stands(l)
    BY <1>1, <2>2, OthersStand DEF CodeInv
  <2>6. Stands(k)' = "used"
    <3>1. Stored(k)' /\ grants'[k] = 1
      BY <1>1, <1>2, <1>4, <2>1 DEF Stored
    <3> QED
      BY <3>1 DEF Stands
  <2> QED
    BY <1>1, <1>3, <2>4, <2>5, <2>6, IssueOrUse
<1> QED
  BY <1>6, <1>7

LEMMA BlockedStep ==
    ASSUME CodeInv, NEW v \in Visitor, RightCodeBlocked(v)
    PROVE  CodeInv' /\ Promise!Next
<1> DEFINE k == asking[v].code
<1> DEFINE row == [codes[k] EXCEPT !.consumed = TRUE]
<1>1. /\ asking[v].step = "right"
      /\ k \in Code /\ Stored(k) /\ codes[k] \in CodeRow /\ row \in CodeRow
      /\ grants \in [Code -> Nat]
  BY ConsumedRow DEF RightCodeBlocked
<1>2. row.kind = codes[k].kind /\ row.consumed /\ row.until = codes[k].until
  BY <1>1 DEF CodeRow
<1>3. Writes(v, k, row, NoAsk, grants[k])
  BY <1>1 DEF Writes, RightCodeBlocked, NoAsk
<1> HIDE DEF row, k
<1> QED
  BY <1>1, <1>2, <1>3, LateWrite DEF Stored

LEMMA SessionStep ==
    ASSUME CodeInv, NEW v \in Visitor, OpenSession(v)
    PROVE  CodeInv' /\ Promise!Next
<1>0. PICK k \in Code : k = asking[v].code
  BY DEF OpenSession, CodeInv, AskOK
<1>1. k = asking[v].code /\ Stored(k) /\ codes[k].consumed /\ grants[k] = 0 /\ asking[v].step = "session"
  BY <1>0 DEF OpenSession, CodeInv, AskOK
<1>2. /\ codes \in [Code -> CodeRow] /\ codes[k] \in CodeRow /\ grants \in [Code -> Nat]
      /\ asking \in [Visitor -> Ask]
  BY <1>1 DEF CodeInv, CodeTypeOK
<1>3. NoAsk \in Ask /\ NoAsk.step = "idle"
  BY CodeAssumption DEF NoAsk, Ask, Kind
<1>4. /\ codes' = [codes EXCEPT ![k] = codes[k]] /\ codes' = codes
      /\ asking' = [asking EXCEPT ![v] = NoAsk]
      /\ grants' = [grants EXCEPT ![k] = 1]
      /\ UNCHANGED clock
  BY <1>1, <1>2 DEF OpenSession
<1>5. \A w \in Visitor \ {v} : asking[w].step = "session" => asking[w].code # k
  BY <1>1 DEF CodeInv, SessionsDiffer
<1>6. Claimed(k)
  BY <1>1 DEF Claimed
<1>7. Writes(v, k, codes[k], NoAsk, 1)
  BY <1>1, <1>3, <1>4 DEF Writes
<1>8. Consistent(v, k, codes[k], NoAsk, 1)
  BY <1>1, <1>3, <1>5 DEF Consistent, Stored
<1>9. CodeInv'
  BY <1>1, <1>2, <1>3, <1>7, <1>8, WriteKeepsCodes
<1>10. \A l \in Code \ {k} : Stands(l)' = Stands(l)
  BY <1>1, <1>7, OthersStand DEF CodeInv
<1>11. Stands(k) = "open"
  BY <1>1, <1>6, OpenMeans
<1>12. Stands(k)' = "used"
  <2>1. Stored(k)' /\ grants'[k] = 1
    BY <1>1, <1>2, <1>4 DEF Stored
  <2> QED
    BY <2>1 DEF Stands
<1> QED
  BY <1>1, <1>9, <1>10, <1>11, <1>12, IssueOrUse

(* A request that goes away before it has opened its session leaves a code
   that is void. *)
LEMMA LookStep ==
    ASSUME CodeInv, NEW v \in Visitor,
           \/ \E kind \in Kind, phone \in Phone, whom \in BOOLEAN :
                 RequestCode(v, kind, phone, whom)
           \/ \E k \in Code, answer \in {"right", "wrong"} : ReadCode(v, k, answer)
           \/ DropAsk(v)
    PROVE  CodeInv' /\ Promise!Next
<1>1. /\ CodeInv'
      /\ UNCHANGED <<clock, codes, grants>>
      /\ \E row \in Ask : row.step # "session" /\ asking' = [asking EXCEPT ![v] = row]
  BY LooksKeepCodes
<1>2. PICK row \in Ask : row.step # "session" /\ asking' = [asking EXCEPT ![v] = row]
  BY <1>1
<1>3. \A w \in Visitor : asking'[w] = IF w = v THEN row ELSE asking[w]
  BY <1>2 DEF CodeInv, CodeTypeOK
<1> DEFINE K == IF asking[v].step = "session" THEN {asking[v].code} ELSE {}
<1>4. K \in SUBSET Code
  BY DEF CodeInv, AskOK
<1>5. \A k \in K : Claimed(k) /\ Stored(k) /\ ~Claimed(k)' /\ ~Usable(k) /\ Stands(k) = "open"
  <2> TAKE k \in K
  <2>1. asking[v].step = "session" /\ k = asking[v].code
    OBVIOUS
  <2>2. k \in Code /\ Stored(k) /\ Claimed(k)
    BY <2>1 DEF CodeInv, AskOK, Claimed
  <2>3. ~Usable(k) /\ Stands(k) = "open"
    BY <2>2, OpenMeans
  <2>4. ~Claimed(k)'
    BY <1>2, <1>3, <2>1 DEF Claimed, CodeInv, SessionsDiffer
  <2> QED
    BY <2>2, <2>3, <2>4
<1>6. \A k \in Code \ K : Claimed(k)' = Claimed(k)
  BY <1>2, <1>3 DEF Claimed
<1>7. \A k \in Code : Stored(k)' = Stored(k) /\ Usable(k)' = Usable(k) /\ grants'[k] = grants[k]
  BY <1>1 DEF Stored, Usable
<1>8. \A k \in Code : Stands(k)' = IF k \in K THEN "void" ELSE Stands(k)
  <2> TAKE k \in Code
  <2>1. CASE k \in K
    <3>1. grants[k] = 0
      BY <1>5, <2>1, OpenMeans
    <3> QED
      BY <1>5, <1>7, <2>1, <3>1 DEF Stands
  <2>2. CASE k \notin K
    BY <1>6, <1>7, <2>2 DEF Stands
  <2> QED
    BY <2>1, <2>2
<1> HIDE DEF K
<1> QED
  BY <1>1, <1>4, <1>5, <1>8, VoidOrNothing

(* Codes run out together. *)
LEMMA TickStep ==
    ASSUME CodeInv, CodeTick
    PROVE  CodeInv' /\ Promise!Next
<1> USE CodeAssumption
<1>1. UNCHANGED <<codes, asking, grants>> /\ clock' = clock + 1 /\ clock \in Nat
  BY DEF CodeTick, CodeInv, CodeTypeOK
<1>2. CodeInv'
  BY <1>1 DEF CodeInv, CodeTypeOK, AskOK, SessionsDiffer, SpentIsConsumed, Stored
<1>3. \A k \in Code : /\ Stored(k)' = Stored(k) /\ Claimed(k)' = Claimed(k)
                      /\ grants'[k] = grants[k]
                      /\ Usable(k)' => Usable(k)
  <2> TAKE k \in Code
  <2>1. Stored(k)' = Stored(k) /\ Claimed(k)' = Claimed(k) /\ grants'[k] = grants[k]
    BY <1>1 DEF Stored, Claimed
  <2>2. Usable(k)' => Usable(k)
    <3>1. codes[k].until \in Nat \/ ~Stored(k)
      BY DEF CodeInv, CodeTypeOK, CodeRow
    <3> QED
      BY <1>1, <3>1 DEF Usable, Stored
  <2> QED
    BY <2>1, <2>2
<1> DEFINE K == {k \in Code : Stands(k) = "open" /\ Stands(k)' = "void"}
<1>4. \A k \in Code : Stands(k)' = IF k \in K THEN "void" ELSE Stands(k)
  BY <1>3 DEF Stands
<1>5. K \in SUBSET Code /\ \A k \in K : Stands(k) = "open"
  OBVIOUS
<1> HIDE DEF K
<1> QED
  BY <1>2, <1>4, <1>5, VoidOrNothing

-----------------------------------------------------------------------------
LEMMA CodeStep ==
    ASSUME CodeInv, CodeNext
    PROVE  CodeInv' /\ Promise!Next
<1>1. CASE CodeTick
  BY <1>1, TickStep
<1>2. CASE \E v \in Visitor :
              \/ \E kind \in Kind, phone \in Phone, whom \in BOOLEAN :
                    RequestCode(v, kind, phone, whom)
              \/ \E k \in Code : createChallenge(v, k)
              \/ \E accepted \in BOOLEAN : Sent(v, accepted)
              \/ \E k \in Code, answer \in {"right", "wrong"} : ReadCode(v, k, answer)
              \/ WrongCode(v)
              \/ RightCode(v) \/ RightCodeBlocked(v) \/ OpenSession(v)
              \/ DropAsk(v)
  BY <1>2, LookStep, CreateStep, SentStep, WrongStep, RightStep, BlockedStep, SessionStep
<1> QED
  BY <1>1, <1>2 DEF CodeNext

(* A step that changes nothing changes no standing. *)
LEMMA CodeStutter == UNCHANGED codeVars => CodeInv' = CodeInv /\ UNCHANGED CodeStanding
<1> SUFFICES ASSUME UNCHANGED codeVars PROVE CodeInv' = CodeInv /\ UNCHANGED CodeStanding
  OBVIOUS
<1>1. CodeInv' = CodeInv
  BY DEF codeVars, CodeInv, CodeTypeOK, AskOK, SessionsDiffer, SpentIsConsumed, Stored
<1>2. UNCHANGED CodeStanding
  BY DEF codeVars, CodeStanding, Stored, Usable, Claimed
<1> QED
  BY <1>1, <1>2

(* Requests in flight and rows agree: in particular the failures of a code
   never exceed the limit, and a code that opened something is consumed. *)
THEOREM CodesAgree == CodeSpec => []CodeInv
<1>1. CodeInit => CodeInv
  BY InitCode
<1>2. CodeInv /\ [CodeNext]_codeVars => CodeInv'
  BY CodeStep, CodeStutter
<1> QED
  BY <1>1, <1>2, PTL DEF CodeSpec

(* The refinement: whatever the interleaving of requests, of late failures,
   lost messages and the clock, a code is opened at most once and never
   again after it is void. *)
THEOREM CodesImplementOneTimeCode == CodeSpec => CodeUsedOnce
<1>1. CodeInit => Promise!Init
  BY DEF CodeInit, Promise!Init, CodeStanding, Stored, NoRow
<1>2. CodeInv /\ [CodeNext]_codeVars => [Promise!Next]_CodeStanding
  BY CodeStep, CodeStutter
<1> QED
  BY <1>1, <1>2, CodesAgree, PTL DEF CodeSpec, CodeUsedOnce, Promise!Spec
=============================================================================
