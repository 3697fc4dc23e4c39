------------------------------- MODULE Reviews -------------------------------
(***************************************************************************)
(* What follows a visit: ReviewRequestScheduler invites the customer by    *)
(* SMS, the customer answers by the link or in the account                 *)
(* (ReviewsService), and the salon may still say that nobody came          *)
(* (BookingOperationsService).  A transaction reads, and writes later; the *)
(* database runs it READ COMMITTED and nothing here is locked.  Every      *)
(* visit is over and its survey open.                                      *)
(***************************************************************************)
EXTENDS Integers, FiniteSets

CONSTANTS
    Visit,      \* bookings whose appointment is over
    Token,      \* tokens ever drawn
    Hand,       \* requests and instances of the scheduler
    Nothing,    \* no visit, no token
    Rating,     \* the answers
    MaxMissed   \* bound on the times a visit is marked as a no-show

ASSUME ReviewAssumption ==
    /\ Nothing \notin Visit \cup Token
    /\ Rating \subseteq Nat \ {0}
    /\ MaxMissed \in Nat

VARIABLES
    visits,   \* status of the booking, and how often it was marked
    reviews,  \* table "booking_reviews", one row per booking
    invites,  \* the message with the key booking:<id>:review-request:auto:v2
    hands,    \* what every request in flight has read
    drawn     \* the tokens already drawn

reviewVars == <<visits, reviews, invites, hands, drawn>>

-----------------------------------------------------------------------------
VisitRow == [kept : BOOLEAN, missed : 0..MaxMissed]

(* id: a row deleted and created again is another row.  rating: 0 until the
   review is submitted. *)
ReviewRow == [exists : BOOLEAN, id : 0..MaxMissed, token : Token \cup {Nothing},
              sent : BOOLEAN, expired : BOOLEAN, rating : {0} \cup Rating]

NoReview == [exists |-> FALSE, id |-> 0, token |-> Nothing, sent |-> FALSE,
             expired |-> FALSE, rating |-> 0]

(* closed: cancelled, skipped or failed *)
InviteRow == [state : {"none", "waiting", "sent", "closed"}, token : Token \cup {Nothing}]

NoInvite == [state |-> "none", token |-> Nothing]

HandRow == [op : {"none", "schedule", "submit", "noShow"}, visit : Visit \cup {Nothing},
            token : Token \cup {Nothing}, row : BOOLEAN, id : 0..MaxMissed,
            invited : BOOLEAN, rating : {0} \cup Rating]

NoHand == [op |-> "none", visit |-> Nothing, token |-> Nothing, row |-> FALSE, id |-> 0,
           invited |-> FALSE, rating |-> 0]

Submitted(v) == reviews[v].rating # 0

Takes(h, hand) == hands[h] = NoHand /\ hands' = [hands EXCEPT ![h] = hand]

Frees(h) == hands' = [hands EXCEPT ![h] = NoHand]

Draws(t) == t \notin drawn /\ drawn' = drawn \cup {t}

CreatedReview(v, t) == [NoReview EXCEPT !.exists = TRUE, !.id = visits[v].missed, !.token = t]

-----------------------------------------------------------------------------
(* ReviewRequestScheduler.scheduleDue, one candidate *)

StartSchedule(h, v, t) ==
    /\ visits[v].kept
    /\ ~Submitted(v)
    /\ ~reviews[v].sent
    /\ Draws(t)
    /\ Takes(h, [NoHand EXCEPT !.op = "schedule", !.visit = v, !.token = t])
    /\ UNCHANGED <<visits, reviews, invites>>

Upserted(v, t) ==
    IF reviews[v].exists THEN [reviews[v] EXCEPT !.token = t, !.expired = FALSE]
                         ELSE CreatedReview(v, t)

(* Mutant: a message that is already there is skipped and the rest stays. *)
SkipsDuplicate(v, t) ==
    /\ reviews' = [reviews EXCEPT ![v] = Upserted(v, t)]
    /\ invites' = IF invites[v] = NoInvite
                  THEN [invites EXCEPT ![v] = [state |-> "waiting", token |-> t]]
                  ELSE invites

(* The token and the message that carries it are written together: the
   unique key of the message takes the whole transaction back. *)
WriteInvite(v, t) ==
    IF invites[v] = NoInvite
    THEN /\ reviews' = [reviews EXCEPT ![v] = Upserted(v, t)]
         /\ invites' = [invites EXCEPT ![v] = [state |-> "waiting", token |-> t]]
    ELSE UNCHANGED <<reviews, invites>>

Schedule(h) ==
    /\ hands[h].op = "schedule"
    /\ WriteInvite(hands[h].visit, hands[h].token)
    /\ Frees(h)
    /\ UNCHANGED <<visits, drawn>>

(* The worker: a message that no longer fits is skipped, and the row learns
   of the SMS in a statement of its own. *)
SendInvite(v) ==
    /\ invites[v].state = "waiting"
    /\ invites' = [invites EXCEPT ![v].state =
          IF visits[v].kept /\ reviews[v].exists /\ ~Submitted(v) /\ ~reviews[v].expired
          THEN "sent" ELSE "closed"]
    /\ UNCHANGED <<visits, reviews, hands, drawn>>

MarkSent(v) ==
    /\ invites[v].state = "sent"
    /\ reviews[v].exists
    /\ ~reviews[v].sent
    /\ reviews' = [reviews EXCEPT ![v].sent = TRUE]
    /\ UNCHANGED <<visits, invites, hands, drawn>>

LinkExpires(v) ==
    /\ reviews[v].exists
    /\ ~reviews[v].expired
    /\ reviews' = [reviews EXCEPT ![v].expired = TRUE]
    /\ UNCHANGED <<visits, invites, hands, drawn>>

-----------------------------------------------------------------------------
(* ReviewsService *)

(* The account shows a survey nobody was invited to. *)
ensureCustomerReview(v, t) ==
    /\ visits[v].kept
    /\ ~reviews[v].exists
    /\ Draws(t)
    /\ reviews' = [reviews EXCEPT ![v] = CreatedReview(v, t)]
    /\ UNCHANGED <<visits, invites, hands>>

(* By the link while it is good, from the account at any time. *)
StartSubmit(h, v, rating, byLink) ==
    /\ reviews[v].exists
    /\ visits[v].kept
    /\ ~Submitted(v)
    /\ byLink => ~reviews[v].expired /\ invites[v] = [state |-> "sent", token |-> reviews[v].token]
    /\ Takes(h, [NoHand EXCEPT !.op = "submit", !.visit = v, !.row = TRUE,
                               !.id = reviews[v].id, !.rating = rating])
    /\ UNCHANGED <<visits, reviews, invites, drawn>>

(* where: { id, submittedAt: null } *)
Unanswered(v, id) == reviews[v].exists /\ reviews[v].id = id /\ ~Submitted(v)

submit(h) ==
    LET v == hands[h].visit
    IN  /\ hands[h].op = "submit"
        /\ Unanswered(v, hands[h].id)
        /\ reviews' = [reviews EXCEPT ![v].rating = hands[h].rating]
        /\ Frees(h)
        /\ UNCHANGED <<visits, invites, drawn>>

-----------------------------------------------------------------------------
(* BookingOperationsService *)

StartNoShow(h, v) ==
    /\ visits[v].kept
    /\ visits[v].missed < MaxMissed
    /\ ~Submitted(v)
    /\ Takes(h, [NoHand EXCEPT !.op = "noShow", !.visit = v, !.row = reviews[v].exists,
                               !.id = reviews[v].id, !.invited = (invites[v].state = "waiting")])
    /\ UNCHANGED <<visits, reviews, invites, drawn>>

(* The booking and the review are written by the id that was read; a review
   already gone takes the transaction back.  A message created meanwhile may
   come too late for the statement that cancels. *)
markNoShow(h, cancels) ==
    LET v == hands[h].visit
        mark == hands[h]
    IN  /\ mark.op = "noShow"
        /\ visits[v].missed < MaxMissed
        /\ mark.row => reviews[v].exists /\ reviews[v].id = mark.id
        /\ mark.invited => cancels
        /\ visits' = [visits EXCEPT ![v] = [kept |-> FALSE, missed |-> @.missed + 1]]
        /\ reviews' = IF mark.row THEN [reviews EXCEPT ![v] = NoReview] ELSE reviews
        /\ invites' = IF cancels /\ invites[v].state = "waiting"
                      THEN [invites EXCEPT ![v].state = "closed"] ELSE invites
        /\ Frees(h)
        /\ UNCHANGED drawn

revertNoShow(v) ==
    /\ ~visits[v].kept
    /\ visits' = [visits EXCEPT ![v].kept = TRUE]
    /\ UNCHANGED <<reviews, invites, hands, drawn>>

(* A conflict, an exception, a crash. *)
DropHand(h) ==
    /\ hands[h] # NoHand
    /\ Frees(h)
    /\ UNCHANGED <<visits, reviews, invites, drawn>>

ReviewInit ==
    /\ visits = [v \in Visit |-> [kept |-> TRUE, missed |-> 0]]
    /\ reviews = [v \in Visit |-> NoReview]
    /\ invites = [v \in Visit |-> NoInvite]
    /\ hands = [h \in Hand |-> NoHand]
    /\ drawn = {}

ReviewNext ==
    \/ \E h \in Hand :
          \/ \E v \in Visit :
                \/ \E t \in Token : StartSchedule(h, v, t)
                \/ \E rating \in Rating, byLink \in BOOLEAN : StartSubmit(h, v, rating, byLink)
                \/ StartNoShow(h, v)
          \/ Schedule(h) \/ submit(h) \/ DropHand(h)
          \/ \E cancels \in BOOLEAN : markNoShow(h, cancels)
    \/ \E v \in Visit :
          \/ \E t \in Token : ensureCustomerReview(v, t)
          \/ SendInvite(v) \/ MarkSent(v) \/ LinkExpires(v) \/ revertNoShow(v)

ReviewSpec == ReviewInit /\ [][ReviewNext]_reviewVars

-----------------------------------------------------------------------------
(* Properties *)

ReviewTypeOK ==
    /\ visits \in [Visit -> VisitRow]
    /\ reviews \in [Visit -> ReviewRow]
    /\ \A v \in Visit : reviews[v].exists \/ reviews[v] = NoReview
    /\ invites \in [Visit -> InviteRow]
    /\ hands \in [Hand -> HandRow]
    /\ drawn \subseteq Token

(* The link a customer has or is about to get opens the survey, whatever
   two instances of the scheduler do and whoever opened the survey in the
   account before: its token is the one of the row.  Visits that were once
   marked as a no-show are excepted: their survey was deleted. *)
InvitationOpens ==
    \A v \in Visit :
        visits[v].missed = 0 /\ invites[v].state \in {"waiting", "sent"} =>
            reviews[v].exists /\ reviews[v].token = invites[v].token

(* markNoShow says "Bu randevu için değerlendirme gönderildiğinden standart
   gelmedi işlemi kullanılamaz": a visit with a submitted review is never
   marked, and its review never deleted. *)
ReviewedVisitWasKept ==
    [][\A v \in Visit :
          Submitted(v) => reviews'[v].exists /\ (visits[v].kept => visits'[v].kept)]_reviewVars
=============================================================================
