------------------------------ MODULE TeamAccess ------------------------------
(***************************************************************************)
(* The staff: AdminSessionService, AdminSessionGuard and                   *)
(* TeamAccessService.  A login reads the user, takes the time of a         *)
(* password hash and only then writes; an owner's change of a colleague    *)
(* reads the row, and writes the whole row later.  Nothing is locked.      *)
(***************************************************************************)
EXTENDS Integers, FiniteSets

CONSTANTS
    User,       \* rows of "admin_users"
    Seat,       \* rows of "admin_sessions"
    Desk,       \* requests the API serves at the same time
    Office,     \* those of them in which owners change the team
    Founder,    \* the owner the salon begins with
    NoUser,     \* no user, no session
    MaxFailed   \* MAX_FAILED_LOGINS

ASSUME TeamAssumption ==
    /\ NoUser \notin User \cup Seat
    /\ Founder \in User
    /\ Office \subseteq Desk
    /\ MaxFailed \in Nat \ {0}

VARIABLES
    team,     \* the users
    seats,    \* the sessions
    desks,    \* what every request in flight has read
    outlived  \* history: sessions that existed while their user was dismissed

teamVars == <<team, seats, desks, outlived>>

-----------------------------------------------------------------------------
(* AdminRole; the professional a role is linked to goes with it. *)
Duty == {"OWNER", "RECEPTIONIST", "PROFESSIONAL"}

UserRow == [exists : BOOLEAN, role : Duty, active : BOOLEAN, failed : 0..MaxFailed,
            locked : BOOLEAN]

NoUserRow == [exists |-> FALSE, role |-> "RECEPTIONIST", active |-> FALSE, failed |-> 0,
              locked |-> FALSE]

NewUser(role) == [NoUserRow EXCEPT !.exists = TRUE, !.role = role, !.active = TRUE]

(* closed: revoked, or past its expiresAt *)
SeatRow == [user : User \cup {NoUser}, closed : BOOLEAN]

NoSeat == [user |-> NoUser, closed |-> FALSE]

(* seen: what the request has read of the user; a login keeps the count of
   failures and whether the password fits the hash, an update the rest. *)
DeskRow == [op : {"none", "login", "update", "resetPassword", "revokeSessions"},
            user : User \cup {NoUser}, own : BOOLEAN,
            seen : UserRow, fits : BOOLEAN]

NoDesk == [op |-> "none", user |-> NoUser, own |-> FALSE, seen |-> NoUserRow, fits |-> FALSE]

(* verify, the condition under which a session acts *)
MayAct(s) ==
    /\ seats[s].user # NoUser
    /\ ~seats[s].closed
    /\ team[seats[s].user].active

RevokesAll(u) == [s \in Seat |-> IF seats[s].user = u THEN [seats[s] EXCEPT !.closed = TRUE]
                                                      ELSE seats[s]]

(* The sessions of dismissed users, in the state to come. *)
Remembers(newSeats, newTeam) ==
    outlived' = outlived \cup
        {s \in Seat : newSeats[s].user # NoUser /\ ~newTeam[newSeats[s].user].active}

-----------------------------------------------------------------------------
(* AdminSessionService.create *)

StartLogin(d, u, fits) ==
    /\ desks[d] = NoDesk
    /\ team[u].active
    /\ ~team[u].locked
    /\ desks' = [desks EXCEPT ![d] =
          [NoDesk EXCEPT !.op = "login", !.user = u, !.fits = fits,
                         !.seen.failed = IF fits THEN 0 ELSE team[u].failed]]
    /\ UNCHANGED <<team, seats, outlived>>

(* The lock is written either way: a late failure with a smaller count
   takes it away.  Beyond MaxFailed the count makes no difference. *)
FailLogin(d) ==
    LET login == desks[d]
        failed == IF login.seen.failed < MaxFailed THEN login.seen.failed + 1 ELSE MaxFailed
    IN  /\ login.op = "login"
        /\ ~login.fits
        /\ team' = [team EXCEPT ![login.user].failed = failed,
                                ![login.user].locked = failed >= MaxFailed]
        /\ desks' = [desks EXCEPT ![d] = NoDesk]
        /\ UNCHANGED <<seats, outlived>>

OpenSeat(d, s) ==
    LET login == desks[d]
        opened == [seats EXCEPT ![s].user = login.user]
        cleared == [team EXCEPT ![login.user].failed = 0, ![login.user].locked = FALSE]
    IN  /\ login.op = "login"
        /\ login.fits
        /\ seats[s] = NoSeat
        /\ seats' = opened
        /\ team' = cleared
        /\ Remembers(opened, cleared)
        /\ desks' = [desks EXCEPT ![d] = NoDesk]

(* revoke at a logout, revokeSession of one's own; or time passes *)
CloseSeat(s) ==
    /\ seats[s].user # NoUser
    /\ ~seats[s].closed
    /\ seats' = [seats EXCEPT ![s].closed = TRUE]
    /\ UNCHANGED <<team, desks, outlived>>

-----------------------------------------------------------------------------
(* TeamAccessService *)

(* The guard lets an owner in; the user is read after that. *)
StartOffice(d, s, op, u) ==
    /\ desks[d] = NoDesk
    /\ MayAct(s)
    /\ team[seats[s].user].role = "OWNER"
    /\ team[u].exists
    /\ desks' = [desks EXCEPT ![d] =
          [NoDesk EXCEPT !.op = op, !.user = u, !.own = (u = seats[s].user),
                         !.seen = IF op = "update" THEN team[u] ELSE NoUserRow]]
    /\ UNCHANGED <<team, seats, outlived>>

createUser(s, u, role) ==
    /\ MayAct(s)
    /\ team[seats[s].user].role = "OWNER"
    /\ ~team[u].exists
    /\ team' = [team EXCEPT ![u] = NewUser(role)]
    /\ UNCHANGED <<seats, desks, outlived>>

(* Mutant: only a dismissal closes the sessions. *)
OnlyDismissal(seen, updated) == seen.active /\ ~updated.active

ClosesSessions(seen, updated) ==
    seen.role # updated.role \/ seen.active # updated.active

(* What the request leaves out is written as it was read. *)
update(d, role, active) ==
    LET change == desks[d]
        updated == [team[change.user] EXCEPT !.role = role, !.active = active]
        closed == IF ClosesSessions(change.seen, updated) THEN RevokesAll(change.user)
                                                          ELSE seats
        changed == [team EXCEPT ![change.user] = updated]
    IN  /\ change.op = "update"
        /\ change.own => active \/ ~change.seen.active
        /\ team' = changed
        /\ seats' = closed
        /\ Remembers(closed, changed)
        /\ desks' = [desks EXCEPT ![d] = NoDesk]

resetPassword(d) ==
    LET u == desks[d].user
    IN  /\ desks[d].op = "resetPassword"
        /\ team' = [team EXCEPT ![u].failed = 0, ![u].locked = FALSE]
        /\ seats' = RevokesAll(u)
        /\ desks' = [desks EXCEPT ![d] = NoDesk]
        /\ UNCHANGED outlived

revokeSessions(d) ==
    /\ desks[d].op = "revokeSessions"
    /\ seats' = RevokesAll(desks[d].user)
    /\ desks' = [desks EXCEPT ![d] = NoDesk]
    /\ UNCHANGED <<team, outlived>>

-----------------------------------------------------------------------------
(* Time passes, a request is lost. *)

LockRunsOut(u) ==
    /\ team[u].locked
    /\ team' = [team EXCEPT ![u].locked = FALSE]
    /\ UNCHANGED <<seats, desks, outlived>>

DropDesk(d) ==
    /\ desks[d] # NoDesk
    /\ desks' = [desks EXCEPT ![d] = NoDesk]
    /\ UNCHANGED <<team, seats, outlived>>

(* One owner, nobody signed in. *)
TeamInit ==
    /\ team = [u \in User |-> IF u = Founder THEN NewUser("OWNER") ELSE NoUserRow]
    /\ seats = [s \in Seat |-> NoSeat]
    /\ desks = [d \in Desk |-> NoDesk]
    /\ outlived = {}

TeamNext ==
    \/ \E d \in Desk :
          \/ \E u \in User, fits \in BOOLEAN : StartLogin(d, u, fits)
          \/ FailLogin(d)
          \/ \E s \in Seat : OpenSeat(d, s)
          \/ DropDesk(d)
    \/ \E d \in Office :
          \/ \E s \in Seat, op \in {"update", "resetPassword", "revokeSessions"}, u \in User :
                StartOffice(d, s, op, u)
          \/ \E role \in Duty, active \in BOOLEAN : update(d, role, active)
          \/ resetPassword(d) \/ revokeSessions(d)
    \/ \E s \in Seat :
          \/ \E u \in User, role \in Duty : createUser(s, u, role)
          \/ CloseSeat(s)
    \/ \E u \in User : LockRunsOut(u)

TeamSpec == TeamInit /\ [][TeamNext]_teamVars

-----------------------------------------------------------------------------
(* Properties *)

TeamTypeOK ==
    /\ team \in [User -> UserRow]
    /\ seats \in [Seat -> SeatRow]
    /\ desks \in [Desk -> DeskRow]
    /\ outlived \subseteq Seat

(* A session that existed while its user was dismissed never acts again,
   not even one that a login in flight opened after the dismissal and not
   after the user is taken back: with one owner at work at a time. *)
DismissedStaysOut == \A s \in outlived : ~MayAct(s)
=============================================================================
