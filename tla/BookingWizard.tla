----------------------------- MODULE BookingWizard -----------------------------
(***************************************************************************)
(* The pages on which a customer books: useBookingFlow and the components  *)
(* of components/booking.  Every handler that waits for the server leaves  *)
(* a call behind; the customer goes on meanwhile, and the answer runs the  *)
(* rest of the handler, on whatever the page has become.  Effects run when *)
(* what they depend on has changed, in the step that changed it.           *)
(***************************************************************************)
EXTENDS Integers, FiniteSets

CONSTANTS
    Treatment,   \* the services of the catalogue
    Hairdresser, \* the professionals
    Day,         \* the dates in the booking window
    NoChoice,    \* nothing selected, nothing loaded
    MaxCalls     \* bound on calls without an answer

WizardAssumption ==
    /\ NoChoice \notin Treatment \cup Hairdresser \cup Day
    /\ MaxCalls \in Nat \ {0}

VARIABLES
    mode,      \* dataMode
    step,      \* BookingStep
    choice,    \* selectedServiceIds, professionalId, selectedDate
    shown,     \* availability, by the choice it was computed for
    slot,      \* selectedSlot, likewise
    hold,      \* the hold, by the choice it was made for
    expired,   \* holdSeconds <= 0
    suggested, \* rebookSuggestion has a service
    challenge, \* verificationChallengeId, by the hold it was sent for
    success,   \* successCode, by the hold it confirms
    busy,      \* busy
    calls      \* what the page waits for

wizardVars ==
    <<mode, step, choice, shown, slot, hold, expired, suggested, challenge, success, busy, calls>>

-----------------------------------------------------------------------------
Choice == [service : Treatment \cup {NoChoice}, professional : Hairdresser \cup {NoChoice},
           date : Day]

Made == Choice \cup {NoChoice}

(* nr tells equal calls apart. *)
Call == [kind : {"catalog", "rebook", "slots", "hold", "code", "confirm"}, for : Made,
         nr : 1..MaxCalls]

With(cs, kind, for) ==
    cs \cup {[kind |-> kind, for |-> for,
              nr |-> CHOOSE n \in 1..MaxCalls + 1 :
                        [kind |-> kind, for |-> for, nr |-> n] \notin cs]}

CanSend == Cardinality(calls) < MaxCalls

Answered(call) == calls \ {call}

Of(kind, cs) == {c \in cs : c.kind = kind}

-----------------------------------------------------------------------------
(* The effect on [availabilityNonce, catalog, dataMode, professionalId,
   selectedDate, selectedServiceIds, step]: nobody listens to the call
   before any more (active, availabilitySequence), and step 3 asks again. *)

(* Mutant: the answers of calls before are listened to as well. *)
StillHeard(cs) == cs

Heard(cs) == cs \ Of("slots", cs)

Asks(at, for) == at = 3 /\ for.service # NoChoice

(* at, for: step and choice after the change; cs the calls, keep the slot,
   waiting the flag the handler itself leaves. *)
AvailabilityEffect(at, for, cs, keep, waiting) ==
    /\ step' = at
    /\ choice' = for
    /\ IF Asks(at, for)
       THEN /\ calls' = With(Heard(cs), "slots", for)
            /\ slot' = NoChoice
            /\ busy' = TRUE
       ELSE calls' = Heard(cs) /\ slot' = keep /\ busy' = waiting

(* What a handler does to step and choice, with the effect if they change. *)
Moves(at, for, keep) ==
    IF at = step /\ for = choice
    THEN slot' = keep /\ UNCHANGED <<step, choice, calls, busy>>
    ELSE CanSend /\ AvailabilityEffect(at, for, calls, keep, busy)

clearDownstreamSelection == hold' = NoChoice /\ success' = NoChoice /\ challenge' = NoChoice

Untouched == UNCHANGED <<hold, expired, challenge, success>>

-----------------------------------------------------------------------------
(* BookingExperience shows the steps, the page of a success, or, without a
   catalogue, a way to try again. *)
Shows(n) == mode = "live" /\ success = NoChoice /\ step = n

retryConnection ==
    /\ mode = "unavailable"
    /\ CanSend
    /\ calls' = With(calls, "catalog", NoChoice)
    /\ Untouched
    /\ UNCHANGED <<mode, suggested, step, choice, shown, slot, busy>>

(* A page opened with ?rebook= asks for a suggestion whenever there is a new
   catalogue. *)
CatalogArrives(call, rebook) ==
    /\ call.kind = "catalog"
    /\ mode' = "live"
    /\ LET others == Answered(call) \ Of("rebook", calls)
           rest == IF rebook THEN With(others, "rebook", NoChoice) ELSE others
       IN  AvailabilityEffect(step, [choice EXCEPT !.service = NoChoice,
                                                   !.professional = NoChoice],
                              rest, slot, busy)
    /\ Untouched
    /\ UNCHANGED <<suggested, shown>>

(* ServiceStep, ProfessionalStep, TimeStep *)
selectService(s) ==
    /\ Shows(1)
    /\ choice.service # s
    /\ Moves(1, [choice EXCEPT !.service = s, !.professional = NoChoice], NoChoice)
    /\ clearDownstreamSelection
    /\ UNCHANGED <<mode, suggested, shown, expired>>

clearServiceSelection ==
    /\ Shows(1)
    /\ choice.service # NoChoice
    /\ Moves(1, [choice EXCEPT !.service = NoChoice, !.professional = NoChoice], NoChoice)
    /\ clearDownstreamSelection
    /\ UNCHANGED <<mode, suggested, shown, expired>>

selectProfessional(p) ==
    /\ Shows(2)
    /\ Moves(2, [choice EXCEPT !.professional = p], NoChoice)
    /\ clearDownstreamSelection
    /\ UNCHANGED <<mode, suggested, shown, expired>>

(* Dates are offered while the page waits. *)
selectDate(d) ==
    /\ Shows(3)
    /\ Moves(3, [choice EXCEPT !.date = d], NoChoice)
    /\ clearDownstreamSelection
    /\ UNCHANGED <<mode, suggested, shown, expired>>

selectSlot ==
    /\ Shows(3)
    /\ ~busy
    /\ shown # NoChoice
    /\ slot' = shown
    /\ hold' = NoChoice
    /\ challenge' = NoChoice
    /\ UNCHANGED <<mode, suggested, step, choice, shown, expired, success, busy, calls>>

refreshAvailability ==
    /\ Shows(3)
    /\ ~busy
    /\ shown = NoChoice
    /\ CanSend
    /\ AvailabilityEffect(step, choice, calls, slot, busy)
    /\ Untouched
    /\ UNCHANGED <<mode, suggested, shown>>

(* The steps behind, and the buttons back, work while the page waits. *)
goToStep(n) ==
    /\ \E m \in 1..4 : Shows(m) /\ n < m
    /\ Moves(n, choice, slot)
    /\ Untouched
    /\ UNCHANGED <<mode, suggested, shown>>

continueFromServices ==
    /\ Shows(1)
    /\ ~busy
    /\ choice.service # NoChoice
    /\ Moves(2, choice, slot)
    /\ Untouched
    /\ UNCHANGED <<mode, suggested, shown>>

continueFromProfessional ==
    /\ Shows(2)
    /\ ~busy
    /\ Moves(3, choice, slot)
    /\ Untouched
    /\ UNCHANGED <<mode, suggested, shown>>

-----------------------------------------------------------------------------
(* Calls, and what their answers do *)

Waits(kind, for) ==
    /\ CanSend
    /\ calls' = With(calls, kind, for)
    /\ busy' = TRUE

beginConfirmation ==
    /\ Shows(3)
    /\ ~busy
    /\ slot # NoChoice
    /\ Waits("hold", choice)
    /\ challenge' = NoChoice
    /\ UNCHANGED <<mode, suggested, step, choice, shown, slot, hold, expired, success>>

requestVerificationCode ==
    /\ Shows(4)
    /\ ~busy
    /\ hold # NoChoice /\ ~expired
    /\ Waits("code", hold)
    /\ UNCHANGED <<mode, suggested, step, choice, shown, slot, hold, expired, challenge, success>>

(* signedIn: a customer with an account needs no code. *)
submitBooking(signedIn) ==
    /\ Shows(4)
    /\ ~busy
    /\ hold # NoChoice /\ ~expired
    /\ signedIn \/ challenge # NoChoice
    /\ Waits("confirm", hold)
    /\ UNCHANGED <<mode, suggested, step, choice, shown, slot, hold, expired, challenge, success>>

SlotsArrive(call, found) ==
    /\ call.kind = "slots"
    /\ calls' = Answered(call)
    /\ shown' = IF found THEN call.for ELSE NoChoice
    /\ busy' = FALSE
    /\ Untouched
    /\ UNCHANGED <<mode, suggested, step, choice, slot>>

HoldArrives(call) ==
    /\ call.kind = "hold"
    /\ hold' = call.for
    /\ expired' = FALSE
    /\ AvailabilityEffect(4, choice, Answered(call), slot, FALSE)
    /\ UNCHANGED <<mode, suggested, shown, challenge, success>>

CodeArrives(call) ==
    /\ call.kind = "code"
    /\ challenge' = call.for
    /\ calls' = Answered(call)
    /\ busy' = FALSE
    /\ UNCHANGED <<mode, suggested, step, choice, shown, slot, hold, expired, success>>

ConfirmationArrives(call) ==
    /\ call.kind = "confirm"
    /\ success' = call.for
    /\ calls' = Answered(call)
    /\ busy' = FALSE
    /\ UNCHANGED <<mode, suggested, step, choice, shown, slot, hold, expired, challenge>>

(* The suggestion is taken over wherever the customer has got to. *)
RebookArrives(call, s, p) ==
    /\ call.kind = "rebook"
    /\ AvailabilityEffect(IF s = NoChoice THEN 1 ELSE 3,
          IF s = NoChoice THEN choice ELSE [choice EXCEPT !.service = s, !.professional = p],
          Answered(call), slot, busy)
    /\ suggested' = (s # NoChoice)
    /\ Untouched
    /\ UNCHANGED <<mode, shown>>

changeRebookSelection ==
    /\ suggested
    /\ \E n \in 1..4 : Shows(n)
    /\ Moves(1, [choice EXCEPT !.professional = NoChoice], slot)
    /\ Untouched
    /\ UNCHANGED <<mode, suggested, shown>>

(* Every call may fail; of these, holds, codes and confirmations end the
   wait. *)
CallFails(call) ==
    /\ call.kind # "slots"
    /\ calls' = Answered(call)
    /\ busy' = (busy /\ call.kind \notin {"hold", "code", "confirm"})
    /\ Untouched
    /\ UNCHANGED <<mode, suggested, step, choice, shown, slot>>

HoldExpires ==
    /\ hold # NoChoice /\ ~expired
    /\ expired' = TRUE
    /\ UNCHANGED <<mode, suggested, step, choice, shown, slot, hold, challenge, success, busy, calls>>

(* "Yeni randevu oluştur" on the page of a success *)
reset ==
    /\ success # NoChoice
    /\ CanSend
    /\ \E d \in Day :
          AvailabilityEffect(1, [service |-> NoChoice, professional |-> NoChoice, date |-> d],
                             calls, NoChoice, busy)
    /\ shown' = NoChoice
    /\ expired' = FALSE
    /\ clearDownstreamSelection
    /\ UNCHANGED <<mode, suggested>>

WizardInit ==
    /\ mode = "unavailable"
    /\ step = 1
    /\ choice = [service |-> NoChoice, professional |-> NoChoice, date |-> CHOOSE d \in Day : TRUE]
    /\ shown = NoChoice /\ slot = NoChoice /\ hold = NoChoice
    /\ expired = FALSE /\ suggested = FALSE
    /\ challenge = NoChoice /\ success = NoChoice
    /\ busy = FALSE
    /\ calls = With({}, "catalog", NoChoice)

Answers(call) ==
    \/ \E rebook \in BOOLEAN : CatalogArrives(call, rebook)
    \/ \E found \in BOOLEAN : SlotsArrive(call, found)
    \/ HoldArrives(call)
    \/ CodeArrives(call)
    \/ ConfirmationArrives(call)
    \/ \E s \in Treatment \cup {NoChoice}, p \in Hairdresser \cup {NoChoice} :
          RebookArrives(call, s, p)
    \/ CallFails(call)

WizardNext ==
    \/ retryConnection \/ clearServiceSelection \/ selectSlot \/ refreshAvailability
    \/ continueFromServices \/ continueFromProfessional
    \/ beginConfirmation \/ requestVerificationCode
    \/ HoldExpires \/ reset \/ changeRebookSelection
    \/ \E s \in Treatment : selectService(s)
    \/ \E p \in Hairdresser \cup {NoChoice} : selectProfessional(p)
    \/ \E d \in Day : selectDate(d)
    \/ \E n \in 1..4 : goToStep(n)
    \/ \E signedIn \in BOOLEAN : submitBooking(signedIn)
    \/ \E call \in calls : Answers(call)

WizardSpec == WizardInit /\ [][WizardNext]_wizardVars

-----------------------------------------------------------------------------
(* Properties *)

WizardTypeOK ==
    /\ mode \in {"unavailable", "live"}
    /\ step \in 1..4
    /\ choice \in Choice
    /\ {shown, slot, hold, challenge, success} \subseteq Made
    /\ {expired, suggested, busy} \subseteq BOOLEAN
    /\ calls \subseteq Call

(* In whatever order the answers of the calendar come, and however often
   the customer changes the selection meanwhile: once the page waits for no
   calendar, the times on it are those of the selection. *)
SlotsFitSelection ==
    Shows(3) /\ Of("slots", calls) = {} /\ choice.service # NoChoice =>
        shown \in {NoChoice, choice}

(* Why: of the questions about the calendar only the last is listened to. *)
OnlyLastIsHeard == \A c \in Of("slots", calls) : c.for = choice

TimesFit ==
    step = 3 /\ Of("slots", calls) = {} /\ choice.service # NoChoice =>
        shown \in {NoChoice, choice}

WizardInv == OnlyLastIsHeard /\ TimesFit

(* "Hazırlanıyor…" (BookingPrimitives.tsx:85) is what the buttons say while
   the page is busy, and they are disabled: the page is busy only while it
   waits for something.  Refuted: who goes back while the times are loading
   leaves a call nobody listens to, and the page stays busy for ever. *)
BusyIsWaiting == busy => calls # {}

(* The page of a success names the date, the time and the service that were
   booked.  Refuted: it shows the selection, which the customer can change
   while the hold is on its way. *)
SuccessIsOfSelection == success \in {NoChoice, choice}

(* The code was sent for the hold it is used with.  Refuted: the answer may
   come after another slot was chosen. *)
CodeIsForHold == challenge # NoChoice /\ hold # NoChoice => challenge = hold
=============================================================================
