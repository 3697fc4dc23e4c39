------------------------------ MODULE ReviewPages ------------------------------
(***************************************************************************)
(* Reviews on the screens: the page behind the link of the SMS             *)
(* (PublicReviewPage), the panel in the customer's account                 *)
(* (CustomerReviewPanel), and the salon's ReviewsPage.  How a review comes *)
(* to be and is handed in among other events is the business of Reviews;   *)
(* here ReviewsService answers in one step.                                *)
(***************************************************************************)
EXTENDS Integers, FiniteSets

CONSTANTS
    Review,     \* reviews the salon may see
    Link,       \* browser tabs with the page of the link, each for one review
    Panel,      \* browser tabs with the panel of the account, likewise
    Of,         \* the review of a tab
    Rating,     \* what a customer may answer
    Note,       \* notes of the salon
    MaxCalls,   \* bound on calls of the salon's page
    No          \* nothing

Tab == Link \cup Panel

PagesAssumption ==
    /\ Of \in [Tab -> Review]
    /\ MaxCalls \in Nat
    /\ No \notin Rating \cup Note
    /\ {"loading", "refused"} \cap Rating = {}

VARIABLES
    reviews,    \* rows of "booking_reviews"
    requested,  \* those with requestSentAt
    tabs,       \* what each tab shows, and its answer under way
    unread,     \* unreadOnly, the filter of the salon's page
    items,      \* items of the salon's page
    summary,    \* its summary
    notes,      \* its notes
    loading,    \* its skeleton is shown
    calls       \* its calls without an answer

pagesVars == <<reviews, requested, tabs, unread, items, summary, notes, loading, calls>>

-----------------------------------------------------------------------------
Row == [rating : Rating \cup {No}, note : Note \cup {No}, read : BOOLEAN]
Fresh == [rating |-> No, note |-> No, read |-> FALSE]

(* shown: "loading", "refused" or the review's rating, No while it is open;
   answer: what the call carries to the service, and then back *)
TabRow == [shown : {"loading", "refused", No} \cup Rating, rating : Rating \cup {No},
           busy : {"no", "sent", "served", "conflict"}, answer : Rating \cup {No}]

Opened == [shown |-> "loading", rating |-> No, busy |-> "no", answer |-> No]

Submitted == {r \in Review : reviews[r].rating # No}

Desk == <<unread, items, summary, notes, loading, calls>>

-----------------------------------------------------------------------------
(* PublicReviewPage, CustomerReviewPanel: getPublicReview, publicStatus;
   getCustomerReview, customerStatus *)

ShowReview(t) ==
    /\ tabs[t].shown = "loading"
    /\ tabs' = [tabs EXCEPT ![t].shown = reviews[Of[t]].rating, ![t].rating = reviews[Of[t]].rating]
    /\ UNCHANGED <<reviews, requested, Desk>>

(* The link has run out, or nobody answers. *)
LoadFails(t) ==
    /\ tabs[t].shown = "loading"
    /\ tabs' = [tabs EXCEPT ![t].shown = "refused"]
    /\ UNCHANGED <<reviews, requested, Desk>>

(* Only the page of the link tries again. *)
Retry(t) ==
    /\ t \in Link /\ tabs[t].shown = "refused"
    /\ tabs' = [tabs EXCEPT ![t].shown = "loading"]
    /\ UNCHANGED <<reviews, requested, Desk>>

setRating(t, rating) ==
    /\ tabs[t].shown = No
    /\ tabs' = [tabs EXCEPT ![t].rating = rating]
    /\ UNCHANGED <<reviews, requested, Desk>>

submit(t) ==
    /\ tabs[t].shown = No
    /\ tabs[t].busy = "no" /\ tabs[t].rating # No
    /\ tabs' = [tabs EXCEPT ![t] = [@ EXCEPT !.busy = "sent", !.answer = tabs[t].rating]]
    /\ UNCHANGED <<reviews, requested, Desk>>

(* Mutant: an answer that is there already is replaced. *)
TakesAnyAnswer(r) == TRUE

TakesAnswer(r) == reviews[r].rating = No

(* submitPublic, submitCustomer: the response carries the row it has written. *)
ServeSubmit(t) ==
    /\ tabs[t].busy = "sent"
    /\ IF TakesAnswer(Of[t])
       THEN /\ reviews' = [reviews EXCEPT ![Of[t]].rating = tabs[t].answer]
            /\ tabs' = [tabs EXCEPT ![t].busy = "served"]
       ELSE /\ tabs' = [tabs EXCEPT ![t].busy = "conflict"]
            /\ UNCHANGED reviews
    /\ UNCHANGED <<requested, Desk>>

(* setReview(response.review) *)
Thank(t) ==
    /\ tabs[t].busy = "served"
    /\ tabs' = [tabs EXCEPT ![t] = [@ EXCEPT !.shown = tabs[t].answer, !.busy = "no",
                                            !.answer = No]]
    /\ UNCHANGED <<reviews, requested, Desk>>

(* Refused, or lost before or after it was served: the form stays. *)
SubmitFails(t) ==
    /\ tabs[t].busy # "no"
    /\ tabs' = [tabs EXCEPT ![t] = [@ EXCEPT !.busy = "no", !.answer = No]]
    /\ UNCHANGED <<reviews, requested, Desk>>

(* ReviewRequestScheduler *)
Requests(r) ==
    /\ r \notin requested \cup Submitted
    /\ requested' = requested \cup {r}
    /\ UNCHANGED <<reviews, tabs, Desk>>

-----------------------------------------------------------------------------
(* ReviewsPage: load asks for the summary and the list side by side. *)

Load(only) == [kind |-> "load", unread |-> only, summary |-> No, list |-> No,
               review |-> No, note |-> No, done |-> FALSE]

(* On opening, by another filter, by hand, for an event of the salon *)
load(only) ==
    /\ Cardinality(calls) < MaxCalls
    /\ Load(only) \notin calls
    /\ unread' = only
    /\ loading' = TRUE
    /\ calls' = calls \cup {Load(only)}
    /\ UNCHANGED <<reviews, requested, tabs, items, summary, notes>>

Answer(c, d) ==
    /\ calls' = (calls \ {c}) \cup {d}
    /\ UNCHANGED <<requested, tabs, unread, items, summary, notes, loading>>

(* getAdminReviewSummary: counts that are put in proportion *)
ServeSummary(c) ==
    /\ c.kind = "load" /\ c.summary = No
    /\ Answer(c, [c EXCEPT !.summary = [submitted |-> Cardinality(Submitted),
                                        requested |-> Cardinality(requested)]])
    /\ UNCHANGED reviews

(* getAdminReviews *)
ListOf(only) == {r \in Submitted : only => ~reviews[r].read}

ServeList(c) ==
    /\ c.kind = "load" /\ c.list = No
    /\ Answer(c, [c EXCEPT !.list = [r \in ListOf(c.unread) |-> reviews[r]]])
    /\ UNCHANGED reviews

(* The notes are those of the list, also where one is being written. *)
Loaded(c) ==
    /\ c.kind = "load" /\ c.summary # No /\ c.list # No
    /\ summary' = c.summary
    /\ items' = c.list
    /\ notes' = [r \in DOMAIN c.list |-> c.list[r].note]
    /\ loading' = FALSE
    /\ calls' = calls \ {c}
    /\ UNCHANGED <<reviews, requested, tabs, unread>>

setNote(r, note) ==
    /\ ~loading /\ r \in DOMAIN items
    /\ notes' = [notes EXCEPT ![r] = note]
    /\ UNCHANGED <<reviews, requested, tabs, unread, items, summary, loading, calls>>

updateAdminReview(r) ==
    /\ ~loading /\ r \in DOMAIN items
    /\ Cardinality(calls) < MaxCalls
    /\ calls' = calls \cup {[Load(unread) EXCEPT !.kind = "save", !.review = r, !.note = notes[r]]}
    /\ UNCHANGED <<reviews, requested, tabs, unread, items, summary, notes, loading>>

updateAdmin(c) ==
    /\ c.kind = "save" /\ ~c.done
    /\ reviews' = [reviews EXCEPT ![c.review].note = c.note, ![c.review].read = TRUE]
    /\ Answer(c, [c EXCEPT !.done = TRUE])

(* The row of the list becomes the one of the answer. *)
Saved(c) ==
    /\ c.kind = "save" /\ c.done
    /\ items' = IF c.review \in DOMAIN items
                THEN [items EXCEPT ![c.review] = [reviews[c.review] EXCEPT !.note = c.note]]
                ELSE items
    /\ calls' = calls \ {c}
    /\ UNCHANGED <<reviews, requested, tabs, unread, summary, notes, loading>>

CallFails(c) ==
    /\ loading' = (loading /\ c.kind # "load")
    /\ calls' = calls \ {c}
    /\ UNCHANGED <<reviews, requested, tabs, unread, items, summary, notes>>

-----------------------------------------------------------------------------
PagesInit ==
    /\ reviews = [r \in Review |-> Fresh]
    /\ requested = {}
    /\ tabs = [t \in Tab |-> Opened]
    /\ unread = FALSE
    /\ items = <<>> /\ summary = No /\ notes = <<>>
    /\ loading = TRUE
    /\ calls = {Load(FALSE)}

PagesNext ==
    \/ \E t \in Tab :
          \/ ShowReview(t) \/ LoadFails(t) \/ Retry(t)
          \/ \E rating \in Rating : setRating(t, rating)
          \/ submit(t) \/ ServeSubmit(t) \/ Thank(t) \/ SubmitFails(t)
    \/ \E r \in Review :
          Requests(r) \/ updateAdminReview(r) \/ \E note \in Note : setNote(r, note)
    \/ \E only \in BOOLEAN : load(only)
    \/ \E c \in calls :
          \/ ServeSummary(c) \/ ServeList(c) \/ Loaded(c)
          \/ updateAdmin(c) \/ Saved(c) \/ CallFails(c)

PagesSpec == PagesInit /\ [][PagesNext]_pagesVars

-----------------------------------------------------------------------------
(* Properties *)

PagesTypeOK ==
    /\ reviews \in [Review -> Row] /\ requested \subseteq Review
    /\ tabs \in [Tab -> TabRow]
    /\ unread \in BOOLEAN /\ loading \in BOOLEAN
    /\ DOMAIN items \subseteq Review /\ DOMAIN notes = DOMAIN items

(* A page that thanks shows the answer the salon has: with the link open in
   one tab and the account in another, answers lost and sent again, and the
   salon reading meanwhile. *)
ThanksForKept ==
    \A t \in Tab : tabs[t].shown \in Rating => tabs[t].shown = reviews[Of[t]].rating

(* Why: an answer that is there stays, and what a response carries is there. *)
CarriesKept(t) ==
    /\ tabs[t].busy \in {"sent", "served"} => tabs[t].answer # No
    /\ tabs[t].busy = "served" => tabs[t].answer = reviews[Of[t]].rating

ThanksInv ==
    /\ reviews = [r \in Review |-> reviews[r]] /\ tabs = [t \in Tab |-> tabs[t]]
    /\ \A r \in Review : {"rating", "note", "read"} \subseteq DOMAIN reviews[r]
    /\ \A t \in Tab : {"shown", "rating", "busy", "answer"} \subseteq DOMAIN tabs[t]
    /\ \A t \in Tab : CarriesKept(t)
    /\ ThanksForKept

(* What the code does not promise; each is refuted by PagesNext. *)
ListIsOfFilter == calls = {} => \A r \in DOMAIN items : unread => ~items[r].read

RateAtMostOne == summary # No => summary.submitted <= summary.requested

UnsavedNoteStays ==
    [][\A r \in DOMAIN items : notes[r] # items[r].note /\ r \in DOMAIN notes' /\ items # items'
            => notes'[r] = notes[r]]_pagesVars

NoteIsOfSeen ==
    [][\A c \in calls : c.kind = "save" /\ ~c.done /\ updateAdmin(c) =>
            \/ c.review \notin DOMAIN items
            \/ reviews[c.review].note \in {items[c.review].note, c.note}]_pagesVars
=============================================================================
