------------------------------- MODULE VisitForms -------------------------------
(***************************************************************************)
(* The forms of one appointment as the two sides see them:                 *)
(* CustomerBookingForms, where the customer fills them in, and             *)
(* BookingFormsPanel in the salon's drawer, where they are read and marked *)
(* as reviewed, over FormsService, which looks at a submission first and   *)
(* writes it by id later.                                                  *)
(***************************************************************************)
EXTENDS Integers, FiniteSets

CONSTANTS
    Form,       \* submissions of the appointment
    Valid,      \* answers that validateAnswers accepts
    Invalid,    \* answers that it refuses
    MaxCalls,   \* bound on calls without an answer
    Nil         \* nothing yet

Answer == Valid \cup Invalid

FormsAssumption ==
    /\ Valid \cap Invalid = {} /\ Nil \notin Answer
    /\ MaxCalls \in Nat

VARIABLES
    forms,      \* rows of "booking_form_submissions"
    consents,   \* rows of "consent_records": the form, the answer granted with it
    shown,      \* forms of the customer's panel: statuses, once loaded
    given,      \* answers of the panel
    busyId,     \* busyId
    desk,       \* items of the salon's panel: statuses and answers, once loaded
    calls       \* calls without an answer, of both sides

formsVars == <<forms, consents, shown, given, busyId, desk, calls>>

-----------------------------------------------------------------------------
Status == {"PENDING", "SUBMITTED", "REVIEWED"}
Row == [status : Status, answer : Answer \cup {Nil}]

Customer == <<shown, given, busyId>>

Call(kind, f, input) ==
    [kind |-> kind, form |-> f, input |-> input, passed |-> FALSE, done |-> FALSE, result |-> Nil]

Sends(call) ==
    /\ Cardinality(calls) < MaxCalls
    /\ call \notin calls
    /\ calls' = calls \cup {call}

Becomes(c, d) == calls' = (calls \ {c}) \cup {d}

Done(c, result) == Becomes(c, [c EXCEPT !.done = TRUE, !.result = result])

-----------------------------------------------------------------------------
(* FormsService *)

(* listForCustomer and listForBooking *)
submissions(c) ==
    /\ c.kind \in {"list", "deskList"} /\ ~c.done
    /\ Done(c, forms)
    /\ UNCHANGED <<forms, consents, Customer, desk>>

(* The submission is read, its answers validated. *)
ReadSubmission(c) ==
    /\ c.kind = "submit" /\ ~c.passed
    /\ forms[c.form].status = "PENDING"
    /\ c.input \in Valid
    /\ Becomes(c, [c EXCEPT !.passed = TRUE])
    /\ UNCHANGED <<forms, consents, Customer, desk>>

(* Mutant: the consents of a form are written once. *)
FirstConsent(f, answer) ==
    IF \E k \in consents : k.form = f THEN {} ELSE {[form |-> f, answer |-> answer]}

ConsentsOf(f, answer) == {[form |-> f, answer |-> answer]}

submitForCustomer(c) ==
    /\ c.kind = "submit" /\ c.passed /\ ~c.done
    /\ forms' = [forms EXCEPT ![c.form] = [status |-> "SUBMITTED", answer |-> c.input]]
    /\ consents' = consents \cup ConsentsOf(c.form, c.input)
    /\ Done(c, Nil)
    /\ UNCHANGED <<Customer, desk>>

ReadReviewed(c) ==
    /\ c.kind = "review" /\ ~c.passed
    /\ forms[c.form].status # "PENDING"
    /\ Becomes(c, [c EXCEPT !.passed = TRUE])
    /\ UNCHANGED <<forms, consents, Customer, desk>>

review(c) ==
    /\ c.kind = "review" /\ c.passed /\ ~c.done
    /\ forms' = [forms EXCEPT ![c.form].status = "REVIEWED"]
    /\ Done(c, Nil)
    /\ UNCHANGED <<consents, Customer, desk>>

-----------------------------------------------------------------------------
(* CustomerBookingForms: the list stays while it is loaded again. *)

Shows(f) == shown # Nil /\ shown[f].status = "PENDING"

setAnswers(f, a) ==
    /\ Shows(f)
    /\ given' = [given EXCEPT ![f] = a]
    /\ UNCHANGED <<forms, consents, shown, busyId, desk, calls>>

(* One busyId for all forms: the button of a form works again as soon as
   another one is sent. *)
onSubmit(f) ==
    /\ Shows(f) /\ given[f] # Nil
    /\ busyId # f
    /\ Sends(Call("submit", f, given[f]))
    /\ busyId' = f
    /\ UNCHANGED <<forms, consents, shown, given, desk>>

Submitted(c) ==
    /\ c.kind = "submit" /\ c.done
    /\ calls' = (calls \ {c}) \cup {Call("list", Nil, Nil)}
    /\ UNCHANGED <<forms, consents, Customer, desk>>

(* finally: after the list, or after the failure *)
Listed(c) ==
    /\ c.kind = "list" /\ c.done
    /\ shown' = c.result
    /\ busyId' = Nil
    /\ calls' = calls \ {c}
    /\ UNCHANGED <<forms, consents, given, desk>>

-----------------------------------------------------------------------------
(* BookingFormsPanel: the button never waits. *)

markReviewed(f) ==
    /\ desk # Nil /\ desk[f].status = "SUBMITTED"
    /\ Sends(Call("review", f, Nil))
    /\ UNCHANGED <<forms, consents, Customer, desk>>

Reviewed(c) ==
    /\ c.kind = "review" /\ c.done
    /\ calls' = (calls \ {c}) \cup {Call("deskList", Nil, Nil)}
    /\ UNCHANGED <<forms, consents, Customer, desk>>

(* The drawer is opened, or the panel has marked a form. *)
OpensDesk ==
    /\ Sends(Call("deskList", Nil, Nil))
    /\ UNCHANGED <<forms, consents, Customer, desk>>

DeskListed(c) ==
    /\ c.kind = "deskList" /\ c.done
    /\ desk' = c.result
    /\ calls' = calls \ {c}
    /\ UNCHANGED <<forms, consents, Customer>>

(* Refused, or lost before, within or after the handler *)
CallFails(c) ==
    /\ busyId' = IF c.kind \in {"submit", "list"} THEN Nil ELSE busyId
    /\ calls' = calls \ {c}
    /\ UNCHANGED <<forms, consents, shown, given, desk>>

-----------------------------------------------------------------------------
FormsInit ==
    /\ forms = [f \in Form |-> [status |-> "PENDING", answer |-> Nil]]
    /\ consents = {}
    /\ shown = Nil /\ given = [f \in Form |-> Nil] /\ busyId = Nil
    /\ desk = Nil
    /\ calls = {Call("list", Nil, Nil)}

Serves(c) ==
    submissions(c) \/ ReadSubmission(c) \/ submitForCustomer(c) \/ ReadReviewed(c) \/ review(c)

FormsNext ==
    \/ \E c \in calls :
          Serves(c) \/ Submitted(c) \/ Listed(c) \/ Reviewed(c) \/ DeskListed(c) \/ CallFails(c)
    \/ \E f \in Form : onSubmit(f) \/ markReviewed(f) \/ \E a \in Answer : setAnswers(f, a)
    \/ OpensDesk

FormsSpec == FormsInit /\ [][FormsNext]_formsVars

-----------------------------------------------------------------------------
(* Properties *)

FormsTypeOK ==
    /\ forms \in [Form -> Row]
    /\ consents \subseteq [form : Form, answer : Answer]
    /\ shown = Nil \/ shown \in [Form -> Row]
    /\ desk = Nil \/ desk \in [Form -> Row]
    /\ given \in [Form -> Answer \cup {Nil}]
    /\ busyId \in Form \cup {Nil}

(* Whatever is kept as the customer's answer, a consent with that very
   answer was recorded: two submissions that both found the form open, or
   one sent again because its answer was lost, do not part the two tables. *)
ConsentBacksAnswers ==
    \A f \in Form : forms[f].answer # Nil => [form |-> f, answer |-> forms[f].answer] \in consents

(* Why: a form's answer and its consent are written together, and a review
   touches neither. *)
ConsentInv ==
    /\ forms = [f \in Form |-> forms[f]]
    /\ \A f \in Form : {"status", "answer"} \subseteq DOMAIN forms[f]
    /\ ConsentBacksAnswers

(* What the code does not promise; each is refuted by FormsNext. *)
SubmittedOnce == [][\A f \in Form : forms[f].answer # Nil => forms'[f].answer = forms[f].answer]_formsVars

ReviewedStays == [][\A f \in Form : forms[f].status = "REVIEWED" => forms'[f].status = "REVIEWED"]_formsVars

ReviewIsOfSeen ==
    [][\A c \in calls : ~c.done /\ review(c) /\ desk # Nil => desk[c.form].answer = forms[c.form].answer]_formsVars
=============================================================================
