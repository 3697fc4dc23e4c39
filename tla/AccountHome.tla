------------------------------ MODULE AccountHome ------------------------------
(***************************************************************************)
(* The customer's account: CustomerAccountApp with its login and the       *)
(* profile, and the services behind it.  A call is sent, carried out by    *)
(* the server at a moment of its own, and answered later; the pages go on  *)
(* meanwhile.  VisitHistory is the page of the visits.                     *)
(***************************************************************************)
EXTENDS Integers, FiniteSets

CONSTANTS
    Mobile,      \* the numbers the customer types
    Card,        \* what a profile may say
    MaxRequests, \* bound on calls without an answer
    Vacant       \* nothing

HomeAssumption ==
    /\ MaxRequests \in Nat \ {0}
    /\ Vacant \notin Mobile \cup Card

VARIABLES
    row,      \* the customer's row
    cookie,   \* the browser's session is valid
    kind,     \* SessionState
    name,     \* session.customer: what the header says
    route,    \* the page inside the account
    login,    \* CustomerLogin: phone, the number the code was sent to, busy
    form,     \* CustomerProfilePage
    requests, \* calls without an answer
    stored    \* what the server has stored for this customer's page

homeVars == <<row, cookie, kind, name, route, login, form, requests, stored>>

-----------------------------------------------------------------------------
EmptyLogin == [phone |-> Vacant, challenge |-> Vacant, busy |-> FALSE]

(* A page that has just been opened *)
FormOf(card) == [draft |-> card, saved |-> card, loading |-> TRUE, failed |-> FALSE,
                 busy |-> FALSE, note |-> FALSE]

Server == <<row, cookie>>
Page == <<kind, name, route, login>>

Ask(cs, call, arg) ==
    cs \cup {[call |-> call, arg |-> arg, mounted |-> TRUE, done |-> FALSE, result |-> Vacant]}

MaySend(n) == Cardinality(requests) + n <= MaxRequests

(* A component that is gone listens to none of its calls, but the answer to
   an update still reaches the session above it. *)
Unmounted(cs) ==
    {[r EXCEPT !.mounted = FALSE] : r \in {r \in cs : r.call \in {"update", "verify", "logout"}}}

-----------------------------------------------------------------------------
(* CustomerAccountService *)

Serve(r, result) == requests' = (requests \ {r}) \cup {[r EXCEPT !.done = TRUE, !.result = result]}

GetProfile(r) ==
    /\ r.call = "profile" /\ ~r.done
    /\ cookie
    /\ Serve(r, row)
    /\ UNCHANGED <<Server, Page, form, stored>>

(* The copy of the name and of the wish for messages in the customer's coming
   bookings is written in the same transaction and counts as the row. *)
UpdateProfile(r) ==
    /\ r.call = "update" /\ ~r.done
    /\ cookie
    /\ row' = r.arg
    /\ stored' = stored \cup {r.arg}
    /\ Serve(r, r.arg)
    /\ UNCHANGED <<cookie, Page, form>>

(* CustomersService.update: the salon writes the row too. *)
SalonUpdates(card) ==
    /\ row' = card
    /\ UNCHANGED <<cookie, Page, form, requests, stored>>

(* CustomerSessionService.verify refuses a session that has ended. *)
SessionEnds ==
    /\ cookie
    /\ cookie' = FALSE
    /\ UNCHANGED <<row, Page, form, requests, stored>>

GetSession(r) ==
    /\ r.call = "session" /\ ~r.done
    /\ Serve(r, IF cookie THEN row ELSE Vacant)
    /\ UNCHANGED <<Server, Page, form, stored>>

VerifyCode(r) ==
    /\ r.call = "verify" /\ ~r.done
    /\ r.arg.phone = r.arg.challenge
    /\ cookie' = TRUE
    /\ Serve(r, row)
    /\ UNCHANGED <<row, Page, form, stored>>

RequestCode(r) ==
    /\ r.call = "code" /\ ~r.done
    /\ Serve(r, r.arg)
    /\ UNCHANGED <<Server, Page, form, stored>>

Revoke(r) ==
    /\ r.call = "logout" /\ ~r.done
    /\ cookie' = FALSE
    /\ Serve(r, Vacant)
    /\ UNCHANGED <<row, Page, form, stored>>

-----------------------------------------------------------------------------
(* CustomerAccountApp *)

(* The profile page loads what it shows when it opens. *)
Opens(path, card, cs) ==
    IF path = "profile"
    THEN form' = FormOf(card) /\ requests' = Ask(Unmounted(cs), "profile", Vacant)
    ELSE UNCHANGED form /\ requests' = Unmounted(cs)

(* setState({ kind: "authenticated", ... }): whoever is inside already stays
   on the page; the address has not changed meanwhile. *)
Enters(card, cs) ==
    /\ kind' = "authenticated"
    /\ name' = card
    /\ IF kind = "authenticated"
       THEN requests' = cs /\ UNCHANGED <<login, form>>
       ELSE login' = EmptyLogin /\ Opens(route, card, cs)
    /\ UNCHANGED route

SessionArrives(r) ==
    /\ r.call = "session" /\ r.done
    /\ IF r.result = Vacant
       THEN /\ kind' = "guest"
            /\ requests' = requests \ {r}
            /\ UNCHANGED <<name, route, login, form>>
       ELSE Enters(r.result, requests \ {r})
    /\ UNCHANGED <<Server, stored>>

(* The header's button is there on every page, and the calls of the page are
   answered still. *)
onLogout ==
    /\ kind = "authenticated"
    /\ MaySend(1)
    /\ requests' = Ask(requests, "logout", Vacant)
    /\ UNCHANGED <<Server, Page, form, stored>>

(* logoutCustomer().catch(() => undefined) *)
LogoutArrives(r) ==
    /\ r.call = "logout"
    /\ kind' = "guest"
    /\ login' = EmptyLogin
    /\ requests' = Unmounted(requests \ {r})
    /\ UNCHANGED <<Server, name, route, form, stored>>

-----------------------------------------------------------------------------
(* CustomerLogin *)

LoginShows(sent) == kind = "guest" /\ (login.challenge # Vacant) = sent

typePhone(m) ==
    /\ LoginShows(FALSE)
    /\ login' = [login EXCEPT !.phone = m]
    /\ UNCHANGED <<Server, kind, name, route, form, requests, stored>>

(* From the form, or again from the page of the code *)
sendCode ==
    /\ kind = "guest"
    /\ ~login.busy
    /\ login.phone # Vacant
    /\ MaySend(1)
    /\ login' = [login EXCEPT !.busy = TRUE]
    /\ requests' = Ask(requests, "code", login.phone)
    /\ UNCHANGED <<Server, kind, name, route, form, stored>>

CodeSent(r) ==
    /\ r.call = "code" /\ r.done
    /\ login' = [login EXCEPT !.challenge = r.result, !.busy = FALSE]
    /\ requests' = requests \ {r}
    /\ UNCHANGED <<Server, kind, name, route, form, stored>>

changeNumber ==
    /\ LoginShows(TRUE)
    /\ login' = [login EXCEPT !.challenge = Vacant]
    /\ UNCHANGED <<Server, kind, name, route, form, requests, stored>>

verify ==
    /\ LoginShows(TRUE)
    /\ ~login.busy
    /\ MaySend(1)
    /\ login' = [login EXCEPT !.busy = TRUE]
    /\ requests' = Ask(requests, "verify", [phone |-> login.phone, challenge |-> login.challenge])
    /\ UNCHANGED <<Server, kind, name, route, form, stored>>

Verified(r) ==
    /\ r.call = "verify" /\ r.done
    /\ Enters(r.result, requests \ {r})
    /\ UNCHANGED <<Server, stored>>

LoginFails(r) ==
    /\ r.call \in {"session", "code", "verify"}
    /\ requests' = requests \ {r}
    /\ kind' = IF r.call = "session" THEN "guest" ELSE kind
    /\ login' = IF r.mounted THEN [login EXCEPT !.busy = FALSE] ELSE login
    /\ UNCHANGED <<Server, name, route, form, stored>>

-----------------------------------------------------------------------------
(* CustomerAccountShell: the pages; leaving one forgets it. *)

GoTo(path) ==
    /\ kind = "authenticated"
    /\ route # path
    /\ Cardinality(Unmounted(requests)) < MaxRequests
    /\ route' = path
    /\ Opens(path, name, requests)
    /\ UNCHANGED <<Server, kind, name, login, stored>>

-----------------------------------------------------------------------------
(* CustomerProfilePage *)

OnProfile == kind = "authenticated" /\ route = "profile"

dirty == form.draft # form.saved

loadProfile ==
    /\ OnProfile
    /\ form.failed /\ ~form.loading
    /\ MaySend(1)
    /\ form' = [form EXCEPT !.loading = TRUE, !.failed = FALSE]
    /\ requests' = Ask(requests, "profile", Vacant)
    /\ UNCHANGED <<Server, Page, stored>>

ProfileArrives(r) ==
    /\ r.call = "profile" /\ r.done
    /\ form' = [form EXCEPT !.draft = r.result, !.saved = r.result, !.note = FALSE,
                            !.loading = FALSE]
    /\ requests' = requests \ {r}
    /\ UNCHANGED <<Server, Page, stored>>

ProfileFails(r) ==
    /\ r.call = "profile"
    /\ form' = [form EXCEPT !.loading = FALSE, !.failed = TRUE]
    /\ requests' = requests \ {r}
    /\ UNCHANGED <<Server, Page, stored>>

(* The inputs wait for the profile, not for a save. *)
editProfile(card) ==
    /\ OnProfile
    /\ ~form.loading
    /\ form' = [form EXCEPT !.draft = card, !.note = FALSE]
    /\ UNCHANGED <<Server, Page, requests, stored>>

save ==
    /\ OnProfile
    /\ dirty /\ ~form.busy /\ ~form.loading
    /\ MaySend(1)
    /\ form' = [form EXCEPT !.busy = TRUE, !.note = FALSE]
    /\ requests' = Ask(requests, "update", form.draft)
    /\ UNCHANGED <<Server, Page, stored>>

(* onUpdated sets the state of the whole application. *)
SaveArrives(r) ==
    /\ r.call = "update" /\ r.done
    /\ IF r.mounted
       THEN /\ form' = [form EXCEPT !.draft = r.result, !.saved = r.result, !.note = TRUE,
                                    !.busy = FALSE]
            /\ name' = r.result
            /\ requests' = requests \ {r}
            /\ UNCHANGED <<kind, route, login>>
       ELSE Enters(r.result, requests \ {r})
    /\ UNCHANGED <<Server, stored>>

SaveFails(r) ==
    /\ r.call = "update"
    /\ form' = IF r.mounted THEN [form EXCEPT !.busy = FALSE] ELSE form
    /\ requests' = requests \ {r}
    /\ UNCHANGED <<Server, Page, stored>>

-----------------------------------------------------------------------------
HomeInit ==
    /\ row \in Card
    /\ cookie \in BOOLEAN
    /\ kind = "checking"
    /\ name = row
    /\ route \in {"bookings", "profile"}
    /\ login = EmptyLogin
    /\ form = FormOf(row)
    /\ requests = Ask({}, "session", Vacant)
    /\ stored = {}

Serves(r) ==
    \/ GetSession(r) \/ RequestCode(r) \/ VerifyCode(r) \/ Revoke(r)
    \/ GetProfile(r) \/ UpdateProfile(r)

Arrives(r) ==
    \/ SessionArrives(r) \/ CodeSent(r) \/ Verified(r) \/ LoginFails(r) \/ LogoutArrives(r)
    \/ ProfileArrives(r) \/ ProfileFails(r) \/ SaveArrives(r) \/ SaveFails(r)

HomeNext ==
    \/ \E card \in Card : SalonUpdates(card) \/ editProfile(card)
    \/ SessionEnds
    \/ \E r \in requests : Serves(r) \/ Arrives(r)
    \/ onLogout
    \/ \E path \in {"bookings", "profile"} : GoTo(path)
    \/ \E m \in Mobile : typePhone(m)
    \/ sendCode \/ changeNumber \/ verify
    \/ loadProfile \/ save

HomeSpec == HomeInit /\ [][HomeNext]_homeVars

-----------------------------------------------------------------------------
(* Properties *)

HomeTypeOK ==
    /\ row \in Card /\ name \in Card
    /\ kind \in {"checking", "guest", "authenticated"}
    /\ route \in {"bookings", "profile"}
    /\ login \in [phone : Mobile \cup {Vacant}, challenge : Mobile \cup {Vacant}, busy : BOOLEAN]
    /\ form \in [draft : Card, saved : Card, loading : BOOLEAN, failed : BOOLEAN,
                 busy : BOOLEAN, note : BOOLEAN]
    /\ stored \subseteq Card

(* "Değişikliklerin kaydedildi." stands only beside what the server has
   stored: an edit, a new load or another save takes the note away. *)
SavedIsStored == OnProfile /\ form.note => ~dirty /\ form.draft \in stored

(* Why: what comes back from an update was written. *)
WasWritten(r) ==
    /\ {"call", "arg", "mounted", "done", "result"} \subseteq DOMAIN r
    /\ r.call = "update" /\ r.done => r.result \in stored

NoteIsTrue(page) ==
    /\ {"draft", "saved", "loading", "failed", "busy", "note"} \subseteq DOMAIN page
    /\ page.note => page.draft = page.saved /\ page.draft \in stored

StoredInv == NoteIsTrue(form) /\ \A r \in requests : WasWritten(r)

(* After "Çıkış" the account stays closed until a code is verified.
   Refuted: the answer to an update that was under way opens it again. *)
LoggedOutStaysOut ==
    [][kind = "guest" /\ kind' = "authenticated" =>
          \E r \in requests : r.call = "verify" /\ r.done /\ r \notin requests']_homeVars

(* "Kod gönderildi", and the number below it is the number it was sent to.
   Refuted: the number can be changed while the code is on its way. *)
ChallengeIsForPhone == LoginShows(TRUE) => login.challenge = login.phone

(* What is typed is not lost to a save.  Refuted: the answer brings back what
   was sent, over what was typed meanwhile. *)
EditsSurviveSave ==
    [][OnProfile /\ OnProfile' /\ ~form.note /\ form'.note => form'.draft = form.draft]_homeVars

(* "Bilgilerin güncel.": what the page shows, unedited, is what the salon
   knows, unless the salon has changed it.  Refuted: a load read before a
   save may arrive after it. *)
ShownIsLastSaved ==
    OnProfile /\ ~dirty /\ ~form.loading /\ ~form.busy /\ stored # {} => form.draft = row
=============================================================================
