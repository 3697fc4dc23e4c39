------------------------------ MODULE WaitlistJoin ------------------------------
(***************************************************************************)
(* The customer's page of the waiting list, WaitlistJoinPage, with what    *)
(* WaitlistController and the two cookies do for it: joining with a code   *)
(* sent by SMS, opening the link of an offer, accepting it, leaving the    *)
(* list.  What becomes of entries and offers meanwhile is the business of  *)
(* Waitlist; here they change under the page.                              *)
(***************************************************************************)
EXTENDS Integers, Sequences, FiniteSets

CONSTANTS
    Wish,       \* what a customer may ask for: services, dates, hours, note
    Ticket,     \* waitlist entries
    Proposal,   \* offers
    ForTicket,  \* the entry each offer is made to
    MaxCodes,   \* bound on codes
    Blank       \* nothing

TicketStatus == {"NONE", "ACTIVE", "OFFERED", "FULFILLED", "CANCELLED", "EXPIRED"}
ProposalStatus == {"NONE", "PENDING", "ACCEPTED", "CLOSED"}

(* What the page is told about an entry *)
TicketView == [id : Ticket, status : TicketStatus, offers : SUBSET Proposal]

JoinAssumption ==
    /\ ForTicket \in [Proposal -> Ticket]
    /\ MaxCodes \in Nat
    /\ Blank \notin Wish \cup Ticket \cup Proposal \cup TicketView

VARIABLES
    tickets,    \* the entries: status, and the wish they were made with
    proposals,  \* the offers' status
    codes,      \* the wishes of the codes sent, in order
    session,    \* cookie "waitlist": an entry
    pass,       \* cookie "waitlist offer": an offer
    path,       \* location.pathname: to join, the link of an offer, or the offer
    loading,    \* loading
    catalog,    \* catalog is there
    ticket,     \* entry: what the page shows of one
    access,     \* offerAccess, likewise
    stage,      \* stage
    wish,       \* the form
    code,       \* challengeId, by its place in codes
    live,       \* otpSeconds > 0
    pending,    \* busy
    told,       \* message
    posts       \* calls without an answer

joinVars == <<tickets, proposals, codes, session, pass, path, loading, catalog, ticket, access,
              stage, wish, code, live, pending, told, posts>>

-----------------------------------------------------------------------------
Store == <<tickets, proposals, codes, session, pass>>
Frame == <<path, loading, catalog>>
Shown == <<ticket, access>>
Form == <<stage, wish, code, live>>

Post(kind, arg) ==
    [kind |-> kind, arg |-> arg, again |-> FALSE, done |-> FALSE, result |-> Blank]

Serve(p, result) == posts' = (posts \ {p}) \cup {[p EXCEPT !.done = TRUE, !.result = result]}

(* toDto, toOfferDto: an entry comes with its offers. *)
TicketDto(t) == [id |-> t, status |-> tickets[t].status,
                 offers |-> {o \in Proposal : ForTicket[o] = t /\ proposals[o] = "PENDING"}]

OfferDto(o) == [offer |-> o, entry |-> TicketDto(ForTicket[o])]

-----------------------------------------------------------------------------
(* WaitlistController and WaitlistService; a handler that refuses leaves the
   call to PostFails. *)

RequestCode(p) ==
    /\ p.kind = "code" /\ ~p.done
    /\ Len(codes) < MaxCodes
    /\ codes' = Append(codes, p.arg)
    /\ Serve(p, Len(codes) + 1)
    /\ UNCHANGED <<tickets, proposals, session, pass, Frame, Shown, Form, pending, told>>

(* A code is used once, for the wish that it was asked with. *)
VerifyCode(p) ==
    /\ p.kind = "verify" /\ ~p.done
    /\ codes[p.arg] # Blank
    /\ \E t \in Ticket :
          /\ tickets[t].status = "NONE"
          /\ tickets' = [tickets EXCEPT ![t] = [status |-> "ACTIVE", wish |-> codes[p.arg]]]
          /\ session' = t
          /\ Serve(p, [id |-> t, status |-> "ACTIVE", offers |-> {}])
    /\ codes' = [codes EXCEPT ![p.arg] = Blank]
    /\ UNCHANGED <<proposals, pass, Frame, Shown, Form, pending, told>>

(* Without a cookie the answer is null. *)
Current(p) ==
    /\ p.kind = "current" /\ ~p.done
    /\ Serve(p, IF session = Blank THEN Blank ELSE TicketDto(session))
    /\ UNCHANGED <<Store, Frame, Shown, Form, pending, told>>

(* A link opens a pending offer, and leaves its cookie. *)
AccessOffer(p) ==
    /\ p.kind = "access" /\ ~p.done
    /\ proposals[p.arg] = "PENDING"
    /\ pass' = p.arg
    /\ Serve(p, OfferDto(p.arg))
    /\ UNCHANGED <<tickets, proposals, codes, session, Frame, Shown, Form, pending, told>>

CurrentOffer(p) ==
    /\ p.kind = "offer" /\ ~p.done
    /\ pass # Blank
    /\ Serve(p, OfferDto(pass))
    /\ UNCHANGED <<Store, Frame, Shown, Form, pending, told>>

(* By the cookie of the offer, or by the session and an id *)
Accept(p) ==
    LET o == IF p.arg = Blank THEN pass ELSE p.arg
    IN  /\ p.kind = "accept" /\ ~p.done
        /\ o # Blank
        /\ p.arg = Blank \/ session = ForTicket[o]
        /\ proposals[o] = "PENDING" /\ tickets[ForTicket[o]].status = "OFFERED"
        /\ proposals' = [proposals EXCEPT ![o] = "ACCEPTED"]
        /\ tickets' = [tickets EXCEPT ![ForTicket[o]].status = "FULFILLED"]
        /\ Serve(p, o)
        /\ UNCHANGED <<codes, session, pass, Frame, Shown, Form, pending, told>>

CloseOffers(t) ==
    [o \in Proposal |-> IF ForTicket[o] = t /\ proposals[o] = "PENDING" THEN "CLOSED"
                        ELSE proposals[o]]

CancelCurrent(p) ==
    /\ p.kind = "cancel" /\ ~p.done
    /\ session # Blank
    /\ tickets[session].status \in {"ACTIVE", "OFFERED"}
    /\ tickets' = [tickets EXCEPT ![session].status = "CANCELLED"]
    /\ proposals' = CloseOffers(session)
    /\ session' = Blank
    /\ Serve(p, Blank)
    /\ UNCHANGED <<codes, pass, Frame, Shown, Form, pending, told>>

(* Waitlist: the salon makes an offer, an offer or an entry runs out. *)
OfferMade(o) ==
    /\ proposals[o] = "NONE" /\ tickets[ForTicket[o]].status = "ACTIVE"
    /\ proposals' = [proposals EXCEPT ![o] = "PENDING"]
    /\ tickets' = [tickets EXCEPT ![ForTicket[o]].status = "OFFERED"]
    /\ UNCHANGED <<codes, session, pass, Frame, Shown, Form, pending, told, posts>>

OfferEnds(o) ==
    /\ proposals[o] = "PENDING"
    /\ proposals' = [proposals EXCEPT ![o] = "CLOSED"]
    /\ \E status \in {"ACTIVE", "EXPIRED"} :
          tickets' = [tickets EXCEPT ![ForTicket[o]].status = status]
    /\ UNCHANGED <<codes, session, pass, Frame, Shown, Form, pending, told, posts>>

(* Another tab of the browser opens the link of another offer. *)
OtherTabOpens(o) ==
    /\ proposals[o] = "PENDING"
    /\ pass' = o
    /\ UNCHANGED <<tickets, proposals, codes, session, Frame, Shown, Form, pending, told, posts>>

-----------------------------------------------------------------------------
(* The effect of the page: first the catalogue, then what the path asks for *)

Asks(to) ==
    CASE to = "join" -> Post("current", Blank)
      [] to = "offer" -> Post("offer", Blank)
      [] OTHER -> Post("access", to)

loadCatalog(found) ==
    /\ loading /\ posts = {}
    /\ catalog' = found
    /\ posts' = {Asks(path)}
    /\ UNCHANGED <<Store, path, loading, Shown, Form, pending, told>>

retryCatalog(found) ==
    /\ ~loading /\ ~catalog /\ ticket = Blank
    /\ catalog' = found
    /\ UNCHANGED <<Store, path, loading, Shown, Form, pending, told, posts>>

Shows(dto) == ticket' = dto.entry /\ access' = dto

(* The link leads on to the offer's own page, which loads it once more. *)
Initialised(p) ==
    /\ loading /\ p.done
    /\ CASE p.kind = "current" -> ticket' = p.result /\ UNCHANGED access
         [] p.kind \in {"access", "offer"} -> Shows(p.result)
         [] OTHER -> FALSE
    /\ path' = IF p.kind = "access" THEN "offer" ELSE path
    /\ loading' = (p.kind = "access")
    /\ posts' = posts \ {p}
    /\ UNCHANGED <<Store, catalog, Form, pending, told>>

InitialiseFails(p) ==
    /\ loading
    /\ p.kind \in {"current", "access", "offer"}
    /\ path' = IF p.kind = "access" THEN "offer" ELSE path
    /\ loading' = (p.kind = "access")
    /\ posts' = posts \ {p}
    /\ UNCHANGED <<Store, catalog, Shown, Form, pending, told>>

-----------------------------------------------------------------------------
(* JoinForm and OtpForm *)

JoinShows(at) == ~loading /\ ticket = Blank /\ catalog /\ stage = at

editForm(w) ==
    /\ JoinShows("form")
    /\ wish' = w
    /\ UNCHANGED <<Store, Frame, Shown, stage, code, live, pending, told, posts>>

Sends(p) ==
    /\ p \notin posts
    /\ Cardinality(posts) < 2
    /\ posts' = posts \cup {p}
    /\ pending' = TRUE
    /\ told' = Blank

(* From the form, and again from the page of the code *)
submitCodeRequest ==
    /\ JoinShows("form") \/ JoinShows("otp")
    /\ ~pending
    /\ Sends(Post("code", wish))
    /\ UNCHANGED <<Store, Frame, Shown, Form>>

CodeSent(p) ==
    /\ p.kind = "code" /\ p.done
    /\ code' = p.result /\ live' = TRUE /\ stage' = "otp"
    /\ pending' = FALSE
    /\ posts' = posts \ {p}
    /\ UNCHANGED <<Store, Frame, Shown, wish, told>>

(* "Telefonu düzelt" is there while the page waits, too. *)
editPhone ==
    /\ JoinShows("otp")
    /\ stage' = "form" /\ code' = Blank /\ told' = Blank
    /\ UNCHANGED <<Store, Frame, Shown, wish, live, pending, posts>>

CodeRunsOut ==
    /\ live
    /\ live' = FALSE
    /\ UNCHANGED <<Store, Frame, Shown, stage, wish, code, pending, told, posts>>

verify ==
    /\ JoinShows("otp")
    /\ ~pending /\ live
    /\ code # Blank
    /\ Sends(Post("verify", code))
    /\ UNCHANGED <<Store, Frame, Shown, Form>>

Verified(p) ==
    /\ p.kind = "verify" /\ p.done
    /\ ticket' = p.result
    /\ pending' = FALSE
    /\ posts' = posts \ {p}
    /\ UNCHANGED <<Store, Frame, access, Form, told>>

-----------------------------------------------------------------------------
(* EntryExperience *)

activeOffer ==
    IF access # Blank THEN {access.offer} ELSE IF ticket = Blank THEN {} ELSE ticket.offers

EntryShows(statuses) == ~loading /\ ticket # Blank /\ ticket.status \in statuses

acceptOffer(o) ==
    /\ EntryShows({"OFFERED"})
    /\ o \in activeOffer
    /\ ~pending
    /\ Sends(Post("accept", IF access # Blank THEN Blank ELSE o))
    /\ UNCHANGED <<Store, Frame, Shown, Form>>

Accepted(p) ==
    /\ p.kind = "accept" /\ p.done
    /\ ticket' = IF ticket = Blank THEN Blank
                 ELSE [ticket EXCEPT !.status = "FULFILLED", !.offers = {}]
    /\ pending' = FALSE
    /\ posts' = posts \ {p}
    /\ UNCHANGED <<Store, Frame, access, Form, told>>

(* The page looks again, by the cookie it has. *)
AcceptFails(p) ==
    /\ p.kind = "accept"
    /\ told' = "stillActive"
    /\ posts' = (posts \ {p}) \cup
                    {[Post(IF access # Blank THEN "offer" ELSE "current", Blank)
                         EXCEPT !.again = TRUE]}
    /\ UNCHANGED <<Store, Frame, Shown, Form, pending>>

(* Mutant: the offer stays on the page while its entry is exchanged. *)
AccessKept(p) == access

AccessAfter(p) == IF p.kind = "offer" THEN Blank ELSE access

LooksAgain(p) ==
    /\ ~loading
    /\ p.again /\ p.done
    /\ ticket' = IF p.kind = "offer" THEN p.result.entry ELSE p.result
    /\ access' = AccessAfter(p)
    /\ pending' = FALSE
    /\ posts' = posts \ {p}
    /\ UNCHANGED <<Store, Frame, Form, told>>

(* The dialog's button works while the page waits. *)
cancelEntry ==
    /\ EntryShows({"ACTIVE", "OFFERED"})
    /\ Sends(Post("cancel", Blank))
    /\ UNCHANGED <<Store, Frame, Shown, Form>>

Left(p) ==
    /\ p.kind = "cancel" /\ p.done
    /\ ticket' = IF ticket = Blank THEN Blank ELSE [ticket EXCEPT !.status = "CANCELLED"]
    /\ access' = Blank
    /\ pending' = FALSE
    /\ posts' = posts \ {p}
    /\ UNCHANGED <<Store, Frame, Form, told>>

PostFails(p) ==
    /\ ~loading
    /\ p.kind # "accept"
    /\ pending' = FALSE
    /\ posts' = posts \ {p}
    /\ UNCHANGED <<Store, Frame, Shown, Form, told>>

-----------------------------------------------------------------------------
JoinInit ==
    /\ tickets \in [Ticket -> {[status |-> "NONE", wish |-> Blank],
                               [status |-> "ACTIVE", wish |-> CHOOSE w \in Wish : TRUE]}]
    /\ proposals = [o \in Proposal |-> "NONE"]
    /\ codes = <<>>
    /\ session \in {t \in Ticket : tickets[t].status = "ACTIVE"} \cup {Blank}
    /\ pass = Blank
    /\ path \in {"join", "offer"} \cup Proposal
    /\ loading = TRUE /\ catalog = FALSE
    /\ ticket = Blank /\ access = Blank
    /\ stage = "form" /\ wish \in Wish /\ code = Blank /\ live = FALSE
    /\ pending = FALSE /\ told = Blank
    /\ posts = {}

Serves(p) ==
    \/ RequestCode(p) \/ VerifyCode(p) \/ Current(p) \/ AccessOffer(p) \/ CurrentOffer(p)
    \/ Accept(p) \/ CancelCurrent(p)

Arrives(p) ==
    \/ Initialised(p) \/ InitialiseFails(p)
    \/ CodeSent(p) \/ Verified(p) \/ Accepted(p) \/ AcceptFails(p) \/ LooksAgain(p) \/ Left(p)
    \/ PostFails(p)

JoinNext ==
    \/ \E found \in BOOLEAN : loadCatalog(found) \/ retryCatalog(found)
    \/ \E p \in posts : Serves(p) \/ Arrives(p)
    \/ \E w \in Wish : editForm(w)
    \/ submitCodeRequest \/ editPhone \/ CodeRunsOut \/ verify
    \/ \E o \in Proposal : acceptOffer(o) \/ OfferMade(o) \/ OfferEnds(o) \/ OtherTabOpens(o)
    \/ cancelEntry

JoinSpec == JoinInit /\ [][JoinNext]_joinVars

-----------------------------------------------------------------------------
(* Properties *)

JoinTypeOK ==
    /\ \A t \in Ticket : tickets[t].status \in TicketStatus /\ tickets[t].wish \in Wish \cup {Blank}
    /\ proposals \in [Proposal -> ProposalStatus]
    /\ session \in Ticket \cup {Blank} /\ pass \in Proposal \cup {Blank}
    /\ path \in {"join", "offer"} \cup Proposal
    /\ stage \in {"form", "otp"} /\ wish \in Wish
    /\ {loading, catalog, live, pending} \subseteq BOOLEAN

(* The offer that the page shows and the entry beside it belong together,
   through every answer that comes late, other tabs of the browser that
   exchange the offer's cookie, and attempts that fail: what is accepted is
   the customer's own. *)
OfferIsOfEntry == access # Blank => ticket # Blank /\ ForTicket[access.offer] = ticket.id

(* Why: an offer comes to the page together with its entry and only while
   the page loads, and the answers that bring an entry alone are waited for
   only by a page that has no offer. *)
JoinRows ==
    /\ tickets = [t \in Ticket |-> tickets[t]]
    /\ \A t \in Ticket : "status" \in DOMAIN tickets[t] /\ tickets[t].status \in TicketStatus
    /\ session \in Ticket \cup {Blank} /\ pass \in Proposal \cup {Blank}
    /\ path \in {"join", "offer"} \cup Proposal

PageAgrees ==
    /\ ticket \in TicketView \cup {Blank}
    /\ OfferIsOfEntry
    /\ path = "join" => access = Blank

Agrees(dto) == dto.entry \in TicketView /\ ForTicket[dto.offer] = dto.entry.id

PostOK(p) ==
    /\ {"kind", "arg", "again", "done", "result"} \subseteq DOMAIN p
    /\ p.again => p.kind \in {"current", "offer"}
    /\ p.kind = "access" => p.arg \in Proposal
    /\ p.done /\ p.kind \in {"access", "offer"} => Agrees(p.result)
    /\ p.done /\ p.kind = "current" => p.result \in TicketView \cup {Blank}
    /\ p.done /\ p.kind = "verify" => p.result \in TicketView
    /\ p.kind \in {"current", "verify"} => access = Blank
    /\ loading => /\ p.kind \in {"current", "access", "offer"}
                  /\ p.kind = "current" <=> path = "join"

JoinInv == JoinRows /\ PageAgrees /\ \A p \in posts : PostOK(p)

(* Refuted.  What is accepted is the offer on the page: acceptOffer sends no
   id for an offer opened by its link, the server takes the cookie, and the
   link of another offer opened in another tab has changed it. *)
AcceptsShown ==
    [][\A o \in Proposal : proposals[o] # "ACCEPTED" /\ proposals'[o] = "ACCEPTED" =>
          access = Blank \/ access.offer = o]_joinVars

(* Refuted.  The code in hand is the last that was sent: the cancel dialog
   and "Telefonu düzelt" do not wait for a call under way. *)
CodeInHandIsLast == code # Blank =>
    \/ code = Len(codes)
    \/ \E p \in posts : p.kind = "code"
=============================================================================
