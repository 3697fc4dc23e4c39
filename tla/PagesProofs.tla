------------------------------ MODULE PagesProofs ------------------------------
(***************************************************************************)
(* Proofs about the pages: whatever order answers, clicks and events come  *)
(* in, and however many calls wait, a page shows and writes what belongs   *)
(* together.  For any number of days, bookings, forms, reviews, entries,   *)
(* blocks and calls without an answer.                                     *)
(***************************************************************************)
EXTENDS MCPages, Sequences, FiniteSetTheorems, FunctionTheorems, NaturalsInduction,
        WellFoundedInduction, TLAPS

-----------------------------------------------------------------------------
(* The customer's booking page *)

(* A call of another kind is no call to the calendar. *)
LEMMA WithOther ==
    ASSUME NEW cs, NEW kind, kind # "slots", NEW of
    PROVE  Wizard!Of("slots", Wizard!With(cs, kind, of)) = Wizard!Of("slots", cs)
<1> DEFINE n == CHOOSE k \in 1..Some + 1 : [kind |-> kind, for |-> of, nr |-> k] \notin cs
<1>1. Wizard!With(cs, kind, of) = cs \cup {[kind |-> kind, for |-> of, nr |-> n]}
  BY DEF Wizard!With
<1> HIDE DEF n
<1>2. QED
  BY <1>1 DEF Wizard!Of

(* Whatever runs the effect leaves one call to the calendar, for the
   selection, or none and no times to show. *)
LEMMA EffectAsksAgain ==
    ASSUME NEW at, NEW of, NEW cs, NEW keep, NEW waiting,
           Wizard!AvailabilityEffect(at, of, cs, keep, waiting)
    PROVE  Wizard!WizardInv'
<1>1. v2' = at /\ v3' = of
  BY DEF Wizard!AvailabilityEffect
<1>2. Wizard!Of("slots", Wizard!Heard(cs)) = {}
  BY DEF Wizard!Of, Wizard!Heard
<1>3. CASE Wizard!Asks(at, of)
  <2> DEFINE n == CHOOSE k \in 1..Some + 1 :
                    [kind |-> "slots", for |-> of, nr |-> k] \notin Wizard!Heard(cs)
             c == [kind |-> "slots", for |-> of, nr |-> n]
  <2>1. v12' = Wizard!Heard(cs) \cup {c}
    BY <1>3 DEF Wizard!AvailabilityEffect, Wizard!With
  <2>2. c.kind = "slots" /\ c.for = of
    OBVIOUS
  <2> HIDE DEF c
  <2>3. Wizard!Of("slots", v12') = {c}
    BY <1>2, <2>1, <2>2 DEF Wizard!Of
  <2>4. QED
    BY <1>1, <2>2, <2>3 DEF Wizard!WizardInv, Wizard!OnlyLastIsHeard, Wizard!TimesFit
<1>4. CASE ~Wizard!Asks(at, of)
  <2>1. v12' = Wizard!Heard(cs)
    BY <1>4 DEF Wizard!AvailabilityEffect
  <2>2. ~(at = 3 /\ of.service # Idle)
    BY <1>4 DEF Wizard!Asks
  <2>3. QED
    BY <1>1, <1>2, <2>1, <2>2 DEF Wizard!WizardInv, Wizard!OnlyLastIsHeard, Wizard!TimesFit
<1>5. QED
  BY <1>3, <1>4

(* A step that leaves the calls to the calendar, the selection and the times
   as they are. *)
LEMMA CalendarUntouched ==
    ASSUME Wizard!WizardInv, v2' = v2, v3' = v3, v4' = v4,
           Wizard!Of("slots", v12') = Wizard!Of("slots", v12)
    PROVE  Wizard!WizardInv'
BY DEF Wizard!WizardInv, Wizard!OnlyLastIsHeard, Wizard!TimesFit

LEMMA MovesAsksAgain ==
    ASSUME Wizard!WizardInv, NEW at, NEW of, NEW keep, Wizard!Moves(at, of, keep), v4' = v4
    PROVE  Wizard!WizardInv'
<1>1. CASE at = v2 /\ of = v3
  <2>1. v2' = v2 /\ v3' = v3 /\ v12' = v12
    BY <1>1 DEF Wizard!Moves
  <2>2. QED
    BY <2>1, CalendarUntouched
<1>2. CASE ~(at = v2 /\ of = v3)
  <2>1. Wizard!AvailabilityEffect(at, of, v12, keep, v11)
    BY <1>2 DEF Wizard!Moves
  <2>2. QED
    BY <2>1, EffectAsksAgain
<1>3. QED
  BY <1>1, <1>2

LEMMA WizardAnswer ==
    ASSUME Wizard!WizardInv, NEW call \in v12, Wizard!Answers(call)
    PROVE  Wizard!WizardInv'
<1>1. ASSUME call.kind # "slots"
      PROVE  Wizard!Of("slots", v12 \ {call}) = Wizard!Of("slots", v12)
  BY <1>1 DEF Wizard!Of
<1>2. ASSUME NEW rebook \in BOOLEAN, Wizard!CatalogArrives(call, rebook)
      PROVE  Wizard!WizardInv'
  BY <1>2, EffectAsksAgain DEF Wizard!CatalogArrives
<1>3. ASSUME NEW found \in BOOLEAN, Wizard!SlotsArrive(call, found)
      PROVE  Wizard!WizardInv'
  <2>1. call \in Wizard!Of("slots", v12)
    BY <1>3 DEF Wizard!SlotsArrive, Wizard!Of
  <2>2. call.for = v3
    BY <2>1 DEF Wizard!WizardInv, Wizard!OnlyLastIsHeard
  <2>3. v2' = v2 /\ v3' = v3 /\ v4' \in {Idle, v3}
    BY <1>3, <2>2 DEF Wizard!SlotsArrive
  <2>4. Wizard!Of("slots", v12') \subseteq Wizard!Of("slots", v12)
    BY <1>3 DEF Wizard!SlotsArrive, Wizard!Answered, Wizard!Of
  <2>5. QED
    BY <2>3, <2>4 DEF Wizard!WizardInv, Wizard!OnlyLastIsHeard, Wizard!TimesFit
<1>4. CASE Wizard!HoldArrives(call)
  BY <1>4, EffectAsksAgain DEF Wizard!HoldArrives
<1>5. CASE Wizard!CodeArrives(call)
  BY <1>1, <1>5, CalendarUntouched DEF Wizard!CodeArrives, Wizard!Answered
<1>6. CASE Wizard!ConfirmationArrives(call)
  BY <1>1, <1>6, CalendarUntouched DEF Wizard!ConfirmationArrives, Wizard!Answered
<1>7. ASSUME NEW s, NEW p, Wizard!RebookArrives(call, s, p)
      PROVE  Wizard!WizardInv'
  BY <1>7, EffectAsksAgain DEF Wizard!RebookArrives
<1>8. CASE Wizard!CallFails(call)
  BY <1>1, <1>8, CalendarUntouched DEF Wizard!CallFails, Wizard!Answered
<1>9. QED
  BY <1>2, <1>3, <1>4, <1>5, <1>6, <1>7, <1>8 DEF Wizard!Answers

LEMMA WizardStep == Wizard!WizardInv /\ Wizard!WizardNext => Wizard!WizardInv'
<1> SUFFICES ASSUME Wizard!WizardInv, Wizard!WizardNext PROVE Wizard!WizardInv'
  OBVIOUS
<1>1. CASE Wizard!retryConnection
  BY <1>1, WithOther, CalendarUntouched DEF Wizard!retryConnection
<1>2. CASE Wizard!clearServiceSelection
  BY <1>2, MovesAsksAgain DEF Wizard!clearServiceSelection
<1>3. CASE Wizard!selectSlot
  BY <1>3, CalendarUntouched DEF Wizard!selectSlot
<1>4. CASE Wizard!refreshAvailability
  BY <1>4, EffectAsksAgain DEF Wizard!refreshAvailability
<1>5. CASE Wizard!continueFromServices
  BY <1>5, MovesAsksAgain DEF Wizard!continueFromServices
<1>6. CASE Wizard!continueFromProfessional
  BY <1>6, MovesAsksAgain DEF Wizard!continueFromProfessional
<1>7. CASE Wizard!beginConfirmation
  BY <1>7, WithOther, CalendarUntouched DEF Wizard!beginConfirmation, Wizard!Waits
<1>8. CASE Wizard!requestVerificationCode
  BY <1>8, WithOther, CalendarUntouched DEF Wizard!requestVerificationCode, Wizard!Waits
<1>9. CASE Wizard!HoldExpires
  BY <1>9, CalendarUntouched DEF Wizard!HoldExpires
<1>10. CASE Wizard!reset
  BY <1>10, EffectAsksAgain DEF Wizard!reset
<1>11. CASE Wizard!changeRebookSelection
  BY <1>11, MovesAsksAgain DEF Wizard!changeRebookSelection
<1>12. ASSUME NEW s \in Single, Wizard!selectService(s) PROVE Wizard!WizardInv'
  BY <1>12, MovesAsksAgain DEF Wizard!selectService
<1>13. ASSUME NEW p, Wizard!selectProfessional(p) PROVE Wizard!WizardInv'
  BY <1>13, MovesAsksAgain DEF Wizard!selectProfessional
<1>14. ASSUME NEW d \in Pair, Wizard!selectDate(d) PROVE Wizard!WizardInv'
  BY <1>14, MovesAsksAgain DEF Wizard!selectDate
<1>15. ASSUME NEW n \in 1..4, Wizard!goToStep(n) PROVE Wizard!WizardInv'
  BY <1>15, MovesAsksAgain DEF Wizard!goToStep
<1>16. ASSUME NEW signedIn \in BOOLEAN, Wizard!submitBooking(signedIn)
       PROVE  Wizard!WizardInv'
  BY <1>16, WithOther, CalendarUntouched DEF Wizard!submitBooking, Wizard!Waits
<1>17. QED
  BY <1>1, <1>2, <1>3, <1>4, <1>5, <1>6, <1>7, <1>8, <1>9, <1>10, <1>11, <1>12, <1>13,
     <1>14, <1>15, <1>16, WizardAnswer DEF Wizard!WizardNext

(* The times on the customer's booking page are those of the selection, in
   whatever order the answers of useBookingFlow come. *)
THEOREM TimesAreOfSelection == MCSpec => []SlotsFitSelection
<1> DEFINE Inv == part = "wizard" => Wizard!WizardInv
<1>1. MCInit => Inv
  <2>1. Wizard!WizardInit => Wizard!WizardInv
    BY WithOther DEF Wizard!WizardInit, Wizard!WizardInv, Wizard!OnlyLastIsHeard,
                     Wizard!TimesFit, Wizard!Of
  <2>2. MCInit /\ part = "wizard" => Wizard!WizardInit
    BY DEF MCInit
  <2>3. QED
    BY <2>1, <2>2
<1>2. Inv /\ [MCNext]_pageVars => Inv'
  <2>1. SUFFICES ASSUME Inv, [MCNext]_pageVars, part' = "wizard" PROVE Wizard!WizardInv'
    OBVIOUS
  <2>2. CASE MCNext
    BY <2>1, <2>2, WizardStep DEF MCNext
  <2>3. CASE UNCHANGED pageVars
    <3>1. part' = part /\ v2' = v2 /\ v3' = v3 /\ v4' = v4 /\ v12' = v12
      BY <2>3 DEF pageVars
    <3>2. QED
      BY <2>1, <3>1, CalendarUntouched
  <2>4. QED
    BY <2>1, <2>2, <2>3
<1>3. Inv => SlotsFitSelection
  BY DEF Wizard!WizardInv, Wizard!TimesFit, Wizard!Shows, SlotsFitSelection,
         Wizard!SlotsFitSelection
<1>4. QED
  BY <1>1, <1>2, <1>3, PTL DEF MCSpec

-----------------------------------------------------------------------------
(* The salon's page of blocks *)

(* What a step that does not touch the rows does to the calls: it drops
   some, marks some, and adds some that remove nothing. *)
LEMMA DialogUntouched ==
    ASSUME NEW TB, NEW BD, NEW M, Blocks(TB, BD, M)!ReasonInv,
           v1' = v1, Blocks(TB, BD, M)!TypedForTarget',
           \A c \in v8' :
              /\ {"kind", "of", "input"} \subseteq DOMAIN c
              /\ \/ c.kind # "cancel"
                 \/ \E d \in v8 : c.kind = d.kind /\ c.of = d.of /\ c.input = d.input
    PROVE  Blocks(TB, BD, M)!ReasonInv'
BY DEF Blocks!ReasonInv, Blocks!BlockRows, Blocks!CallsAreRecords, Blocks!TypedForTarget,
       Blocks!RemovalsAreOwn, Blocks!ReasonIsForBlock

(* A call that has been answered *)
LEMMA DoneCalls ==
    ASSUME NEW TB, NEW BD, NEW M, Blocks(TB, BD, M)!CallsAreRecords,
           NEW c \in v8, NEW result, v8' = Blocks(TB, BD, M)!Done(c, result)
    PROVE  \A d \in v8' :
              /\ {"kind", "of", "input"} \subseteq DOMAIN d
              /\ \E e \in v8 : d.kind = e.kind /\ d.of = e.of /\ d.input = e.input
<1> DEFINE done == [c EXCEPT !.done = TRUE, !.result = result]
<1>1. v8' = (v8 \ {c}) \cup {done}
  BY DEF Blocks!Done
<1>2. /\ {"kind", "of", "input"} \subseteq DOMAIN done
      /\ done.kind = c.kind /\ done.of = c.of /\ done.input = c.input
  BY DEF Blocks!CallsAreRecords
<1> HIDE DEF done
<1>3. QED
  BY <1>1, <1>2 DEF Blocks!CallsAreRecords

(* A new call *)
LEMMA NewCall ==
    ASSUME NEW TB, NEW BD, NEW M, NEW kind, NEW of, NEW input, NEW c,
           c = Blocks(TB, BD, M)!Call(kind, of, input)
    PROVE  /\ {"kind", "of", "input"} \subseteq DOMAIN c
           /\ c.kind = kind /\ c.of = of /\ c.input = input
BY DEF Blocks!Call

LEMMA ListCall ==
    ASSUME NEW TB, NEW BD, NEW M, NEW date, NEW c, c = Blocks(TB, BD, M)!Lists(date)
    PROVE  {"kind", "of", "input"} \subseteq DOMAIN c /\ c.kind = "list"
BY DEF Blocks!Lists, Blocks!Call

(* A call whose editor or panel has gone *)
LEMMA MarkedCall ==
    ASSUME NEW TB, NEW BD, NEW M, Blocks(TB, BD, M)!CallsAreRecords,
           NEW c \in v8, NEW at, NEW d, d = c \/ d = [c EXCEPT !.at = at]
    PROVE  /\ {"kind", "of", "input"} \subseteq DOMAIN d
           /\ d.kind = c.kind /\ d.of = c.of /\ d.input = c.input
BY DEF Blocks!CallsAreRecords

LEMMA LeavingCalls ==
    ASSUME NEW TB, NEW BD, NEW M, Blocks(TB, BD, M)!CallsAreRecords,
           NEW rest, rest \subseteq v8, NEW d \in Blocks(TB, BD, M)!LeavesEditor(rest)
    PROVE  /\ {"kind", "of", "input"} \subseteq DOMAIN d
           /\ \E c \in v8 : d.kind = c.kind /\ d.of = c.of /\ d.input = c.input
<1>1. PICK c \in rest : d = c \/ d = [c EXCEPT !.at = "panel"]
  BY DEF Blocks!LeavesEditor
<1>2. QED
  BY <1>1, MarkedCall

LEMMA BlocksStep ==
    ASSUME NEW TB, NEW BD, NEW M, Blocks(TB, BD, M)!ReasonInv, Blocks(TB, BD, M)!BlocksNext
    PROVE  Blocks(TB, BD, M)!ReasonInv'
<1> DEFINE Inv == Blocks(TB, BD, M)!ReasonInv
           Typed == Blocks(TB, BD, M)!TypedForTarget
<1> SUFFICES Inv'
  OBVIOUS
<1>0. /\ Blocks(TB, BD, M)!CallsAreRecords /\ Blocks(TB, BD, M)!RemovalsAreOwn /\ Typed
      /\ Blocks(TB, BD, M)!BlockRows /\ Blocks(TB, BD, M)!ReasonIsForBlock
  BY DEF Blocks!ReasonInv
(* The dialog as it is *)
<1>a. v5' = v5 /\ v6' = v6 => Typed'
  BY <1>0 DEF Blocks!TypedForTarget
(* No block chosen *)
<1>b. v5' = Idle => Typed'
  BY DEF Blocks!TypedForTarget
<1>c. \A c \in v8 : {"kind", "of", "input"} \subseteq DOMAIN c
  BY <1>0 DEF Blocks!CallsAreRecords
<1>1. ASSUME NEW c \in v8, Blocks(TB, BD, M)!list(c) PROVE Inv'
  <2>1. v1' = v1 /\ v5' = v5 /\ v6' = v6
    BY <1>1 DEF Blocks!list, Blocks!Panel
  <2>2. PICK result : v8' = Blocks(TB, BD, M)!Done(c, result)
    BY <1>1 DEF Blocks!list
  <2>3. QED
    BY <1>0, <1>a, <2>1, <2>2, DoneCalls, DialogUntouched
<1>2. ASSUME NEW c \in v8, NEW b \in TB, Blocks(TB, BD, M)!saveBlock(c, b) PROVE Inv'
  <2>1. v5' = v5 /\ v6' = v6 /\ v8' = Blocks(TB, BD, M)!Done(c, Idle)
    BY <1>2 DEF Blocks!saveBlock, Blocks!Panel
  <2> DEFINE row == [day |-> c.input.day, text |-> c.input.text, over |-> Idle]
  <2>2. v1' = [v1 EXCEPT ![b] = row]
    BY <1>2 DEF Blocks!saveBlock
  <2>3. row.over = Idle /\ "over" \in DOMAIN row
    OBVIOUS
  <2> HIDE DEF row
  <2>4. Blocks(TB, BD, M)!BlockRows' /\ Blocks(TB, BD, M)!ReasonIsForBlock'
    BY <1>0, <2>2, <2>3 DEF Blocks!BlockRows, Blocks!ReasonIsForBlock
  <2>5. Blocks(TB, BD, M)!CallsAreRecords' /\ Blocks(TB, BD, M)!RemovalsAreOwn'
    BY <1>0, <2>1, DoneCalls DEF Blocks!CallsAreRecords, Blocks!RemovalsAreOwn
  <2>6. QED
    BY <1>a, <2>1, <2>4, <2>5 DEF Blocks!ReasonInv
<1>3. ASSUME NEW c \in v8, Blocks(TB, BD, M)!cancelBlock(c) PROVE Inv'
  <2>1. v5' = v5 /\ v6' = v6 /\ v8' = Blocks(TB, BD, M)!Done(c, Idle)
    BY <1>3 DEF Blocks!cancelBlock, Blocks!Panel
  <2>2. c.of \in TB /\ v1[c.of] # Idle /\ c.input = c.of
    BY <1>0, <1>3 DEF Blocks!cancelBlock, Blocks!Live, Blocks!RemovalsAreOwn
  <2> DEFINE row == [v1[c.of] EXCEPT !.over = c.of]
  <2>3. v1' = [v1 EXCEPT ![c.of] = row]
    BY <1>3, <2>2 DEF Blocks!cancelBlock
  <2>4. row.over = c.of /\ "over" \in DOMAIN row
    BY <1>0, <2>2 DEF Blocks!BlockRows
  <2> HIDE DEF row
  <2>5. Blocks(TB, BD, M)!BlockRows' /\ Blocks(TB, BD, M)!ReasonIsForBlock'
    BY <1>0, <2>2, <2>3, <2>4 DEF Blocks!BlockRows, Blocks!ReasonIsForBlock
  <2>6. Blocks(TB, BD, M)!CallsAreRecords' /\ Blocks(TB, BD, M)!RemovalsAreOwn'
    BY <1>0, <2>1, DoneCalls DEF Blocks!CallsAreRecords, Blocks!RemovalsAreOwn
  <2>7. QED
    BY <1>a, <2>1, <2>5, <2>6 DEF Blocks!ReasonInv
<1>4. ASSUME NEW date \in BD, Blocks(TB, BD, M)!changeDate(date) PROVE Inv'
  <2>1. /\ v1' = v1 /\ v5' = v5 /\ v6' = v6
        /\ v8' = v8 \cup {Blocks(TB, BD, M)!Lists(date)}
    BY <1>4 DEF Blocks!changeDate, Blocks!Panel
  <2>2. QED
    BY <1>a, <1>c, <2>1, ListCall, DialogUntouched
(* An answer that leaves nothing but the calls and the lists *)
<1>5. ASSUME NEW c \in v8,
             Blocks(TB, BD, M)!Listed(c) \/ Blocks(TB, BD, M)!ListFails(c)
                \/ Blocks(TB, BD, M)!SaveFails(c) \/ Blocks(TB, BD, M)!CancelFails(c)
      PROVE  Inv'
  <2>1. v1' = v1 /\ v5' = v5 /\ v6' = v6 /\ v8' = v8 \ {c}
    BY <1>5 DEF Blocks!Listed, Blocks!ListFails, Blocks!SaveFails, Blocks!CancelFails,
                Blocks!Panel
  <2>2. QED
    BY <1>a, <1>c, <2>1, DialogUntouched
<1>6. CASE Blocks(TB, BD, M)!Unmounted
  <2>1. v1' = v1 /\ v5' = Idle
    BY <1>6 DEF Blocks!Unmounted
  <2>2. v8' = {IF c.kind = "list" THEN c ELSE [c EXCEPT !.at = "gone"] : c \in v8}
    BY <1>6 DEF Blocks!Unmounted
  <2>3. ASSUME NEW d \in v8'
        PROVE  /\ {"kind", "of", "input"} \subseteq DOMAIN d
               /\ \E c \in v8 : d.kind = c.kind /\ d.of = c.of /\ d.input = c.input
    <3>1. PICK c \in v8 : d = c \/ d = [c EXCEPT !.at = "gone"]
      BY <2>2
    <3>2. QED
      BY <1>0, <3>1, MarkedCall
  <2>4. QED
    BY <1>b, <2>1, <2>3, DialogUntouched
<1>7. ASSUME NEW b, NEW input,
             Blocks(TB, BD, M)!openNew \/ Blocks(TB, BD, M)!openEditor(b)
                \/ Blocks(TB, BD, M)!edit(input)
      PROVE  Inv'
  <2>1. v1' = v1 /\ v5' = v5 /\ v6' = v6 /\ v8' = v8
    BY <1>7 DEF Blocks!openNew, Blocks!openEditor, Blocks!Opened, Blocks!edit
  <2>2. QED
    BY <1>a, <1>c, <2>1, DialogUntouched
<1>8. CASE Blocks(TB, BD, M)!submit
  <2> DEFINE c == Blocks(TB, BD, M)!Call("save", v4.of, v4.input)
  <2>1. v1' = v1 /\ v5' = v5 /\ v6' = v6 /\ v8' = v8 \cup {c}
    BY <1>8 DEF Blocks!submit
  <2> HIDE DEF c
  <2>2. {"kind", "of", "input"} \subseteq DOMAIN c /\ c.kind = "save"
    BY NewCall DEF c
  <2>3. QED
    BY <1>a, <1>c, <2>1, <2>2, DialogUntouched
<1>9. CASE Blocks(TB, BD, M)!close
  <2>1. v1' = v1 /\ v5' = v5 /\ v6' = v6 /\ v8' = Blocks(TB, BD, M)!LeavesEditor(v8)
    BY <1>9 DEF Blocks!close
  <2>2. QED
    BY <1>0, <1>a, <2>1, LeavingCalls, DialogUntouched
<1>10. ASSUME NEW c \in v8, Blocks(TB, BD, M)!Saved(c) PROVE Inv'
  <2> DEFINE again == Blocks(TB, BD, M)!Lists(c.day)
  <2>1. v1' = v1 /\ v5' = v5 /\ v6' = v6
    BY <1>10 DEF Blocks!Saved
  <2>2. \A d \in v8' : d \in v8 \/ d \in Blocks(TB, BD, M)!LeavesEditor(v8 \ {c})
                            \/ d = again
    BY <1>10 DEF Blocks!Saved
  <2> HIDE DEF again
  <2>3. {"kind", "of", "input"} \subseteq DOMAIN again /\ again.kind = "list"
    BY ListCall DEF again
  <2>4. \A d \in Blocks(TB, BD, M)!LeavesEditor(v8 \ {c}) :
           /\ {"kind", "of", "input"} \subseteq DOMAIN d
           /\ \E e \in v8 : d.kind = e.kind /\ d.of = e.of /\ d.input = e.input
    BY <1>0, LeavingCalls
  <2>5. QED
    BY <1>a, <1>c, <2>1, <2>2, <2>3, <2>4, DialogUntouched
<1>11. ASSUME NEW b \in TB, Blocks(TB, BD, M)!openCancel(b) PROVE Inv'
  <2>1. v1' = v1 /\ v6' = Idle /\ v8' = v8
    BY <1>11 DEF Blocks!openCancel, Blocks!ReasonFor
  <2>2. Typed'
    BY <2>1 DEF Blocks!TypedForTarget
  <2>3. QED
    BY <1>c, <2>1, <2>2, DialogUntouched
<1>12. CASE Blocks(TB, BD, M)!typeReason
  <2>1. v1' = v1 /\ v6' = v5 /\ v5' = v5 /\ v8' = v8
    BY <1>12 DEF Blocks!typeReason
  <2>2. Typed'
    BY <2>1 DEF Blocks!TypedForTarget
  <2>3. QED
    BY <1>c, <2>1, <2>2, DialogUntouched
<1>13. CASE Blocks(TB, BD, M)!dismiss
  <2>1. v1' = v1 /\ v5' = Idle /\ v8' = v8
    BY <1>13 DEF Blocks!dismiss
  <2>2. QED
    BY <1>b, <1>c, <2>1, DialogUntouched
<1>14. CASE Blocks(TB, BD, M)!confirm
  <2> DEFINE c == Blocks(TB, BD, M)!Call("cancel", v5, v6)
  <2>1. v1' = v1 /\ v5' = Idle /\ v8' = v8 \cup {c} /\ v5 # Idle /\ v6 # Idle
    BY <1>14 DEF Blocks!confirm
  <2>2. v6 = v5
    BY <1>0, <2>1 DEF Blocks!TypedForTarget
  <2> HIDE DEF c
  <2>3. {"kind", "of", "input"} \subseteq DOMAIN c /\ c.input = c.of
    BY <2>2, NewCall DEF c
  <2>4. Blocks(TB, BD, M)!CallsAreRecords' /\ Blocks(TB, BD, M)!RemovalsAreOwn'
    BY <1>0, <2>1, <2>3 DEF Blocks!CallsAreRecords, Blocks!RemovalsAreOwn
  <2>5. Blocks(TB, BD, M)!BlockRows' /\ Blocks(TB, BD, M)!ReasonIsForBlock'
    BY <1>0, <2>1 DEF Blocks!BlockRows, Blocks!ReasonIsForBlock
  <2>6. QED
    BY <1>b, <2>1, <2>4, <2>5 DEF Blocks!ReasonInv
<1>15. ASSUME NEW c \in v8, Blocks(TB, BD, M)!Cancelled(c) PROVE Inv'
  <2> DEFINE again == Blocks(TB, BD, M)!Lists(c.day)
  <2>1. v1' = v1 /\ v6' = v6 /\ v5' \in {v5, Idle} /\ v8' = (v8 \ {c}) \cup {again}
    BY <1>15 DEF Blocks!Cancelled
  <2> HIDE DEF again
  <2>2. {"kind", "of", "input"} \subseteq DOMAIN again /\ again.kind = "list"
    BY ListCall DEF again
  <2>3. QED
    BY <1>a, <1>b, <1>c, <2>1, <2>2, DialogUntouched
<1> HIDE DEF Inv, Typed
<1>16. ASSUME NEW c \in v8, Blocks(TB, BD, M)!Serves(c) \/ Blocks(TB, BD, M)!Arrives(c)
       PROVE  Inv'
  <2>1. CASE Blocks(TB, BD, M)!Serves(c)
    BY <1>1, <1>2, <1>3, <2>1 DEF Blocks!Serves
  <2>2. CASE Blocks(TB, BD, M)!Arrives(c)
    BY <1>5, <1>10, <1>15, <2>2 DEF Blocks!Arrives
  <2>3. QED
    BY <1>16, <2>1, <2>2
<1>17. QED
  <2>1. CASE \E c \in v8 : Blocks(TB, BD, M)!Serves(c) \/ Blocks(TB, BD, M)!Arrives(c)
    BY <1>16, <2>1
  <2>2. CASE \E date \in BD : Blocks(TB, BD, M)!changeDate(date)
    BY <1>4, <2>2
  <2>3. CASE \E b \in TB : Blocks(TB, BD, M)!openEditor(b) \/ Blocks(TB, BD, M)!openCancel(b)
    BY <1>7, <1>11, <2>3
  <2>4. CASE \E date \in BD, text \in {"break"} :
                Blocks(TB, BD, M)!edit([day |-> date, text |-> text])
    BY <1>7, <2>4
  <2>5. CASE Blocks(TB, BD, M)!openNew
    BY <1>7, <2>5
  <2>6. QED
    BY <1>6, <1>8, <1>9, <1>12, <1>13, <1>14, <2>1, <2>2, <2>3, <2>4, <2>5
       DEF Blocks!BlocksNext

LEMMA BlocksStart ==
    ASSUME NEW TB, NEW BD, NEW M, Blocks(TB, BD, M)!BlocksInit
    PROVE  Blocks(TB, BD, M)!ReasonInv
<1>1. v5 = Idle /\ v8 = {Blocks(TB, BD, M)!Lists(v2)}
  BY DEF Blocks!BlocksInit
<1>2. \A c \in v8 : {"kind", "of", "input"} \subseteq DOMAIN c /\ c.kind = "list"
  BY <1>1, ListCall
<1>3. v1 \in [TB -> [day : BD, text : {"break"}, over : {Idle}] \cup {Idle}]
  BY DEF Blocks!BlocksInit
<1>4. \A r \in [day : BD, text : {"break"}, over : {Idle}] :
         r.over = Idle /\ "over" \in DOMAIN r
  OBVIOUS
<1>5. Blocks(TB, BD, M)!BlockRows /\ Blocks(TB, BD, M)!ReasonIsForBlock
  BY <1>3, <1>4 DEF Blocks!BlockRows, Blocks!ReasonIsForBlock
<1>6. QED
  BY <1>1, <1>2, <1>5
     DEF Blocks!ReasonInv, Blocks!CallsAreRecords, Blocks!TypedForTarget,
         Blocks!RemovalsAreOwn

(* The reason kept with a block that was taken away was typed for it,
   whichever dialogs and removals follow each other in SchedulePage. *)
THEOREM ReasonsAreForTheirBlock == MCSpec => []ReasonIsForBlock
<1> DEFINE One == part = "blocks" => Blocks(Single, Pair, Some)!ReasonInv
           Two == part = "removals" => Blocks(Pair, Single, Many)!ReasonInv
<1>1. MCInit => One /\ Two
  BY BlocksStart DEF MCInit
<1>2. One /\ Two /\ [MCNext]_pageVars => One' /\ Two'
  <2>1. SUFFICES ASSUME One, Two, [MCNext]_pageVars PROVE One' /\ Two'
    OBVIOUS
  <2>2. CASE MCNext
    BY <2>1, <2>2, BlocksStep DEF MCNext
  <2>3. CASE UNCHANGED pageVars
    BY <2>1, <2>3
       DEF pageVars, Blocks!ReasonInv, Blocks!BlockRows, Blocks!CallsAreRecords,
           Blocks!TypedForTarget, Blocks!RemovalsAreOwn, Blocks!ReasonIsForBlock
  <2>4. QED
    BY <2>1, <2>2, <2>3
<1>3. One /\ Two => ReasonIsForBlock
  BY DEF Blocks!ReasonInv, ReasonIsForBlock
<1>4. QED
  BY <1>1, <1>2, <1>3, PTL DEF MCSpec

-----------------------------------------------------------------------------
(* The page of the waiting list *)

LEMMA InvitedType == \A o \in Pair : Invited[o] \in Pair
BY DEF Invited

(* An entry as the page is told of it *)
LEMMA TicketDtoType ==
    ASSUME Joining!JoinRows, NEW t \in Pair
    PROVE  Joining!TicketDto(t) \in Joining!TicketView /\ Joining!TicketDto(t).id = t
BY DEF Joining!JoinRows, Joining!TicketDto, Joining!TicketView

LEMMA OfferDtoAgrees ==
    ASSUME Joining!JoinRows, NEW o \in Pair
    PROVE  Joining!Agrees(Joining!OfferDto(o))
<1>1. Joining!TicketDto(Invited[o]) \in Joining!TicketView
      /\ Joining!TicketDto(Invited[o]).id = Invited[o]
  BY InvitedType, TicketDtoType
<1>2. QED
  BY <1>1 DEF Joining!OfferDto, Joining!Agrees

LEMMA ViewIsSomething == Idle \notin Joining!TicketView
BY PagesAssumption DEF Joining!JoinAssumption

(* Rows of which a status changes are still rows. *)
LEMMA StatusChanges ==
    ASSUME Joining!JoinRows, NEW x, NEW status \in Joining!TicketStatus,
           v1' = [v1 EXCEPT ![x].status = status]
    PROVE  /\ v1' = [t \in Pair |-> v1'[t]]
           /\ \A t \in Pair : "status" \in DOMAIN v1'[t] /\ v1'[t].status \in Joining!TicketStatus
<1> DEFINE row == [v1[x] EXCEPT !.status = status]
<1>1. v1' = [v1 EXCEPT ![x] = row]
  OBVIOUS
<1>2. x \in Pair => "status" \in DOMAIN row /\ row.status = status
  BY DEF Joining!JoinRows
<1> HIDE DEF row
<1>3. QED
  BY <1>1, <1>2 DEF Joining!JoinRows

(* Only the calls have moved, and what is new among them is in order. *)
LEMMA PageUntouched ==
    ASSUME Joining!JoinInv, Joining!JoinRows', v6' = v6, v7' = v7, v9' = v9, v10' = v10,
           \A p \in v17' : p \in v17 \/ Joining!PostOK(p)'
    PROVE  Joining!JoinInv'
<1>1. Joining!PageAgrees'
  BY DEF Joining!JoinInv, Joining!PageAgrees, Joining!OfferIsOfEntry
<1>2. \A p \in v17' : Joining!PostOK(p)'
  BY DEF Joining!JoinInv, Joining!PostOK
<1>3. QED
  BY <1>1, <1>2 DEF Joining!JoinInv

(* A call the server has answered *)
LEMMA ServedPost ==
    ASSUME Joining!JoinInv, v6' = v6, v7' = v7, v10' = v10,
           NEW p \in v17, NEW result,
           p.kind \in {"access", "offer"} => Joining!Agrees(result),
           p.kind = "current" => result \in Joining!TicketView \cup {Idle},
           p.kind = "verify" => result \in Joining!TicketView,
           Joining!Serve(p, result)
    PROVE  \A q \in v17' : q \in v17 \/ Joining!PostOK(q)'
<1> DEFINE q == [p EXCEPT !.done = TRUE, !.result = result]
<1>1. v17' = (v17 \ {p}) \cup {q}
  BY DEF Joining!Serve
<1>2. Joining!PostOK(p)
  BY DEF Joining!JoinInv
<1>3. /\ {"kind", "arg", "again", "done", "result"} \subseteq DOMAIN q
      /\ q.kind = p.kind /\ q.arg = p.arg /\ q.again = p.again /\ q.result = result
  BY <1>2 DEF Joining!PostOK
<1> HIDE DEF q
<1>4. Joining!PostOK(q)'
  BY <1>2, <1>3 DEF Joining!PostOK, Joining!Agrees
<1>5. QED
  BY <1>1, <1>4

(* A call the page sends *)
LEMMA SentPost ==
    ASSUME NEW kind, NEW arg, NEW q,
           \/ q = Joining!Post(kind, arg)
           \/ q = [Joining!Post(kind, arg) EXCEPT !.again = TRUE] /\ kind \in {"current", "offer"},
           kind = "access" => arg \in Pair,
           kind \in {"current", "verify"} => v10' = Idle,
           v7' => kind \in {"current", "access", "offer"} /\ (kind = "current" <=> v6' = "join")
    PROVE  Joining!PostOK(q)'
<1>1. /\ {"kind", "arg", "again", "done", "result"} \subseteq DOMAIN q
      /\ q.kind = kind /\ q.arg = arg /\ q.done = FALSE
      /\ q.again => kind \in {"current", "offer"}
  BY DEF Joining!Post
<1>2. QED
  BY <1>1 DEF Joining!PostOK

LEMMA JoinServes ==
    ASSUME Joining!JoinInv, NEW p \in v17, Joining!Serves(p)
    PROVE  Joining!JoinInv'
<1>0. /\ Joining!JoinRows /\ Joining!PostOK(p)
      /\ v4 \in Pair \cup {Idle} /\ v5 \in Pair \cup {Idle}
  BY DEF Joining!JoinInv, Joining!JoinRows
<1>1. CASE Joining!RequestCode(p)
  <2>1. PICK n : Joining!Serve(p, n)
    BY <1>1 DEF Joining!RequestCode
  <2>2. /\ p.kind = "code" /\ v1' = v1 /\ v4' = v4 /\ v5' = v5 /\ v6' = v6 /\ v7' = v7
        /\ v9' = v9 /\ v10' = v10
    BY <1>1 DEF Joining!RequestCode, Joining!Frame, Joining!Shown
  <2>3. Joining!JoinRows'
    BY <1>0, <2>2 DEF Joining!JoinRows
  <2>4. QED
    BY <2>1, <2>2, <2>3, ServedPost, PageUntouched
<1>2. CASE Joining!VerifyCode(p)
  <2>1. PICK t \in Pair :
           /\ v1' = [v1 EXCEPT ![t] = [status |-> "ACTIVE", wish |-> v3[p.arg]]]
           /\ v4' = t
           /\ Joining!Serve(p, [id |-> t, status |-> "ACTIVE", offers |-> {}])
    BY <1>2 DEF Joining!VerifyCode
  <2>2. /\ p.kind = "verify"
        /\ v5' = v5 /\ v6' = v6 /\ v7' = v7 /\ v9' = v9 /\ v10' = v10
    BY <1>2 DEF Joining!VerifyCode, Joining!Frame, Joining!Shown
  <2>3. Joining!JoinRows'
    BY <1>0, <2>1, <2>2 DEF Joining!JoinRows, Joining!TicketStatus
  <2>4. [id |-> t, status |-> "ACTIVE", offers |-> {}] \in Joining!TicketView
    BY DEF Joining!TicketView, Joining!TicketStatus
  <2>5. QED
    BY <2>1, <2>2, <2>3, <2>4, ServedPost, PageUntouched
<1>3. CASE Joining!Current(p)
  <2> DEFINE result == IF v4 = Idle THEN Idle ELSE Joining!TicketDto(v4)
  <2>1. /\ p.kind = "current" /\ Joining!Serve(p, result)
        /\ v1' = v1 /\ v4' = v4 /\ v5' = v5 /\ v6' = v6 /\ v7' = v7 /\ v9' = v9 /\ v10' = v10
    BY <1>3 DEF Joining!Current, Joining!Store, Joining!Frame, Joining!Shown
  <2>2. result \in Joining!TicketView \cup {Idle}
    BY <1>0, TicketDtoType
  <2>3. Joining!JoinRows'
    BY <1>0, <2>1 DEF Joining!JoinRows
  <2> HIDE DEF result
  <2>4. QED
    BY <2>1, <2>2, <2>3, ServedPost, PageUntouched
<1>4. CASE Joining!AccessOffer(p)
  <2>1. /\ p.kind = "access" /\ Joining!Serve(p, Joining!OfferDto(p.arg)) /\ v5' = p.arg
        /\ v1' = v1 /\ v4' = v4 /\ v6' = v6 /\ v7' = v7 /\ v9' = v9 /\ v10' = v10
    BY <1>4 DEF Joining!AccessOffer, Joining!Frame, Joining!Shown
  <2>2. p.arg \in Pair
    BY <1>0, <2>1 DEF Joining!PostOK
  <2>3. Joining!Agrees(Joining!OfferDto(p.arg))
    BY <1>0, <2>2, OfferDtoAgrees
  <2>4. Joining!JoinRows'
    BY <1>0, <2>1, <2>2 DEF Joining!JoinRows
  <2>5. QED
    BY <2>1, <2>3, <2>4, ServedPost, PageUntouched
<1>5. CASE Joining!CurrentOffer(p)
  <2>1. /\ p.kind = "offer" /\ Joining!Serve(p, Joining!OfferDto(v5)) /\ v5 # Idle
        /\ v1' = v1 /\ v4' = v4 /\ v5' = v5 /\ v6' = v6 /\ v7' = v7 /\ v9' = v9 /\ v10' = v10
    BY <1>5 DEF Joining!CurrentOffer, Joining!Store, Joining!Frame, Joining!Shown
  <2>2. Joining!Agrees(Joining!OfferDto(v5))
    BY <1>0, <2>1, OfferDtoAgrees
  <2>3. Joining!JoinRows'
    BY <1>0, <2>1 DEF Joining!JoinRows
  <2>4. QED
    BY <2>1, <2>2, <2>3, ServedPost, PageUntouched
<1>6. CASE Joining!Accept(p)
  <2>1. PICK o : /\ v1' = [v1 EXCEPT ![Invited[o]].status = "FULFILLED"]
                 /\ Joining!Serve(p, o)
    BY <1>6 DEF Joining!Accept
  <2>2. /\ p.kind = "accept" /\ v4' = v4 /\ v5' = v5
        /\ v6' = v6 /\ v7' = v7 /\ v9' = v9 /\ v10' = v10
    BY <1>6 DEF Joining!Accept, Joining!Frame, Joining!Shown
  <2>3. "FULFILLED" \in Joining!TicketStatus
    BY DEF Joining!TicketStatus
  <2>4. Joining!JoinRows'
    BY <1>0, <2>1, <2>2, <2>3, StatusChanges DEF Joining!JoinRows
  <2>5. QED
    BY <2>1, <2>2, <2>4, ServedPost, PageUntouched
<1>7. CASE Joining!CancelCurrent(p)
  <2>1. /\ v1' = [v1 EXCEPT ![v4].status = "CANCELLED"]
        /\ Joining!Serve(p, Idle)
        /\ p.kind = "cancel" /\ v4' = Idle /\ v5' = v5
        /\ v6' = v6 /\ v7' = v7 /\ v9' = v9 /\ v10' = v10
    BY <1>7 DEF Joining!CancelCurrent, Joining!Frame, Joining!Shown
  <2>2. "CANCELLED" \in Joining!TicketStatus
    BY DEF Joining!TicketStatus
  <2>3. Joining!JoinRows'
    BY <1>0, <2>1, <2>2, StatusChanges DEF Joining!JoinRows
  <2>4. QED
    BY <2>1, <2>3, ServedPost, PageUntouched
<1>8. QED
  BY <1>1, <1>2, <1>3, <1>4, <1>5, <1>6, <1>7 DEF Joining!Serves

(* What the answers of the server do to the page *)
LEMMA JoinArrives ==
    ASSUME Joining!JoinInv, NEW p \in v17, Joining!Arrives(p)
    PROVE  Joining!JoinInv'
<1>0. /\ Joining!JoinRows /\ Joining!PageAgrees /\ Joining!PostOK(p)
      /\ \A q \in v17 : Joining!PostOK(q)
  BY DEF Joining!JoinInv
<1>a. ASSUME v1' = v1, v4' = v4, v5' = v5, v6' = v6 PROVE Joining!JoinRows'
  BY <1>0, <1>a DEF Joining!JoinRows
(* No other call expects a page without an offer while one comes. *)
<1>1. CASE Joining!Initialised(p)
  <2>1. /\ v7 /\ p.done /\ v17' = v17 \ {p} /\ v7' = (p.kind = "access")
        /\ v6' = (IF p.kind = "access" THEN "offer" ELSE v6)
        /\ v1' = v1 /\ v4' = v4 /\ v5' = v5
    BY <1>1 DEF Joining!Initialised, Joining!Store
  <2>2. Joining!JoinRows'
    BY <1>0, <2>1 DEF Joining!JoinRows
  <2>3. CASE p.kind = "current"
    <3>1. v9' = p.result /\ v10' = v10
      BY <1>1, <2>3 DEF Joining!Initialised
    <3>2. v10 = Idle /\ p.result \in Joining!TicketView \cup {Idle} /\ v6' = v6 /\ v7' = FALSE
      BY <1>0, <2>1, <2>3 DEF Joining!PostOK
    <3>3. Joining!PageAgrees'
      BY <3>1, <3>2 DEF Joining!PageAgrees, Joining!OfferIsOfEntry
    <3>4. \A q \in v17' : Joining!PostOK(q)'
      BY <1>0, <2>1, <3>1, <3>2 DEF Joining!PostOK, Joining!Agrees
    <3>5. QED
      BY <2>2, <3>3, <3>4 DEF Joining!JoinInv
  <2>4. CASE p.kind \in {"access", "offer"}
    <3>1. v9' = p.result.entry /\ v10' = p.result
      BY <1>1, <2>4 DEF Joining!Initialised, Joining!Shows
    <3>2. Joining!Agrees(p.result) /\ v6 # "join"
      BY <1>0, <2>1, <2>4 DEF Joining!PostOK
    <3>3. v6' # "join"
      BY <2>1, <3>2
    <3>4. Joining!PageAgrees'
      BY <3>1, <3>2, <3>3, ViewIsSomething
         DEF Joining!PageAgrees, Joining!OfferIsOfEntry, Joining!Agrees
    <3>5. ASSUME NEW q \in v17' PROVE Joining!PostOK(q)'
      <4>1. Joining!PostOK(q) /\ q.kind \in {"access", "offer"}
        BY <1>0, <2>1, <3>2 DEF Joining!PostOK
      <4>2. QED
        BY <2>1, <3>3, <4>1 DEF Joining!PostOK, Joining!Agrees
    <3>6. QED
      BY <2>2, <3>4, <3>5 DEF Joining!JoinInv
  <2>5. QED
    BY <1>0, <2>1, <2>3, <2>4 DEF Joining!PostOK
<1>2. CASE Joining!InitialiseFails(p)
  <2>1. /\ v7 /\ v17' = v17 \ {p} /\ v7' = (p.kind = "access")
        /\ v6' = (IF p.kind = "access" THEN "offer" ELSE v6)
        /\ v1' = v1 /\ v4' = v4 /\ v5' = v5 /\ v9' = v9 /\ v10' = v10
    BY <1>2 DEF Joining!InitialiseFails, Joining!Store, Joining!Shown
  <2>2. Joining!JoinRows'
    BY <1>0, <2>1 DEF Joining!JoinRows
  <2>3. Joining!PageAgrees'
    BY <1>0, <2>1 DEF Joining!PageAgrees, Joining!OfferIsOfEntry
  <2>4. ASSUME NEW q \in v17' PROVE Joining!PostOK(q)'
    <3>1. Joining!PostOK(q)
      BY <1>0, <2>1
    <3>2. CASE p.kind = "access"
      <4>1. v6 # "join" /\ v6' = "offer"
        BY <1>0, <2>1, <3>2 DEF Joining!PostOK
      <4>2. QED
        BY <2>1, <3>1, <4>1 DEF Joining!PostOK, Joining!Agrees
    <3>3. CASE p.kind # "access"
      BY <2>1, <3>1, <3>3 DEF Joining!PostOK, Joining!Agrees
    <3>4. QED
      BY <3>2, <3>3
  <2>5. QED
    BY <2>2, <2>3, <2>4 DEF Joining!JoinInv
<1>3. CASE Joining!CodeSent(p) \/ Joining!PostFails(p)
  <2>1. /\ v17' = v17 \ {p} /\ v1' = v1 /\ v4' = v4 /\ v5' = v5
        /\ v6' = v6 /\ v7' = v7 /\ v9' = v9 /\ v10' = v10
    BY <1>3 DEF Joining!CodeSent, Joining!PostFails, Joining!Store, Joining!Frame,
                Joining!Shown
  <2>2. QED
    BY <1>a, <2>1, PageUntouched
<1>4. CASE Joining!Verified(p)
  <2>1. /\ v17' = v17 \ {p} /\ v1' = v1 /\ v4' = v4 /\ v5' = v5
        /\ v6' = v6 /\ v7' = v7 /\ v9' = p.result /\ v10' = v10
    BY <1>4 DEF Joining!Verified, Joining!Store, Joining!Frame
  <2>2. p.result \in Joining!TicketView /\ v10 = Idle
    BY <1>0, <1>4 DEF Joining!Verified, Joining!PostOK
  <2>3. Joining!PageAgrees'
    BY <2>1, <2>2 DEF Joining!PageAgrees, Joining!OfferIsOfEntry
  <2>4. \A q \in v17' : Joining!PostOK(q)'
    BY <1>0, <2>1 DEF Joining!PostOK, Joining!Agrees
  <2>5. QED
    BY <1>a, <2>1, <2>3, <2>4 DEF Joining!JoinInv
<1>5. CASE Joining!Accepted(p) \/ Joining!Left(p)
  <2>1. /\ v17' = v17 \ {p} /\ v1' = v1 /\ v4' = v4 /\ v5' = v5
        /\ v6' = v6 /\ v7' = v7 /\ v10' \in {v10, Idle}
    BY <1>5 DEF Joining!Accepted, Joining!Left, Joining!Store, Joining!Frame
  <2>2. \/ v9' = IF v9 = Idle THEN Idle ELSE [v9 EXCEPT !.status = "FULFILLED", !.offers = {}]
        \/ v9' = IF v9 = Idle THEN Idle ELSE [v9 EXCEPT !.status = "CANCELLED"]
    BY <1>5 DEF Joining!Accepted, Joining!Left
  <2>3. v9 \in Joining!TicketView \cup {Idle}
    BY <1>0 DEF Joining!PageAgrees
  <2>4. v9 # Idle => v9' \in Joining!TicketView /\ v9'.id = v9.id
    BY <2>2, <2>3 DEF Joining!TicketView, Joining!TicketStatus
  <2>5. v9 = Idle => v9' = Idle
    BY <2>2
  <2>6. Joining!PageAgrees'
    BY <1>0, <2>1, <2>4, <2>5, ViewIsSomething DEF Joining!PageAgrees, Joining!OfferIsOfEntry
  <2>7. \A q \in v17' : Joining!PostOK(q)'
    BY <1>0, <2>1 DEF Joining!PostOK, Joining!Agrees
  <2>8. QED
    BY <1>a, <2>1, <2>6, <2>7 DEF Joining!JoinInv
<1>6. CASE Joining!AcceptFails(p)
  <2>1. /\ v1' = v1 /\ v4' = v4 /\ v5' = v5
        /\ v6' = v6 /\ v7' = v7 /\ v9' = v9 /\ v10' = v10 /\ p.kind = "accept"
    BY <1>6 DEF Joining!AcceptFails, Joining!Store, Joining!Frame, Joining!Shown
  <2>2. ~v7
    BY <1>0, <2>1 DEF Joining!PostOK
  <2>3. PICK kind, q :
           /\ kind = (IF v10 # Idle THEN "offer" ELSE "current")
           /\ q = [Joining!Post(kind, Idle) EXCEPT !.again = TRUE]
           /\ v17' = (v17 \ {p}) \cup {q}
    BY <1>6 DEF Joining!AcceptFails
  <2>4. /\ kind \in {"current", "offer"} /\ kind # "access" /\ kind # "verify"
        /\ kind = "current" => v10' = Idle
    BY <2>1, <2>3
  <2>5. ~v7' /\ kind \in {"current", "verify"} => v10' = Idle
    BY <2>1, <2>2, <2>4
  <2>6. Joining!PostOK(q)'
    BY <2>1, <2>2, <2>3, <2>4, SentPost
  <2>7. QED
    BY <1>a, <2>1, <2>3, <2>6, PageUntouched
<1>7. CASE Joining!LooksAgain(p)
  <2>1. /\ v17' = v17 \ {p} /\ v1' = v1 /\ v4' = v4 /\ v5' = v5
        /\ v6' = v6 /\ v7' = v7 /\ ~v7 /\ p.done
        /\ v9' = (IF p.kind = "offer" THEN p.result.entry ELSE p.result)
        /\ v10' = (IF p.kind = "offer" THEN Idle ELSE v10)
    BY <1>7 DEF Joining!LooksAgain, Joining!AccessAfter, Joining!Store, Joining!Frame
  <2>2. p.kind \in {"offer", "current"}
    BY <1>0, <1>7 DEF Joining!LooksAgain, Joining!PostOK
  <2>3. CASE p.kind = "offer"
    <3>1. v9' \in Joining!TicketView /\ v10' = Idle
      BY <1>0, <2>1, <2>3 DEF Joining!PostOK, Joining!Agrees
    <3>2. Joining!PageAgrees'
      BY <3>1 DEF Joining!PageAgrees, Joining!OfferIsOfEntry
    <3>3. \A q \in v17' : Joining!PostOK(q)'
      BY <1>0, <2>1, <3>1 DEF Joining!PostOK, Joining!Agrees
    <3>4. QED
      BY <1>a, <2>1, <3>2, <3>3 DEF Joining!JoinInv
  <2>4. CASE p.kind = "current"
    <3>1. v9' \in Joining!TicketView \cup {Idle} /\ v10' = v10 /\ v10 = Idle
      BY <1>0, <2>1, <2>4 DEF Joining!PostOK
    <3>2. Joining!PageAgrees'
      BY <3>1 DEF Joining!PageAgrees, Joining!OfferIsOfEntry
    <3>3. \A q \in v17' : Joining!PostOK(q)'
      BY <1>0, <2>1, <3>1 DEF Joining!PostOK, Joining!Agrees
    <3>4. QED
      BY <1>a, <2>1, <3>2, <3>3 DEF Joining!JoinInv
  <2>5. QED
    BY <2>2, <2>3, <2>4
<1>8. QED
  BY <1>1, <1>2, <1>3, <1>4, <1>5, <1>6, <1>7 DEF Joining!Arrives

(* What the customer, the clock, the salon and another tab do *)
LEMMA JoinActs ==
    ASSUME Joining!JoinInv,
           \/ \E found \in BOOLEAN : Joining!loadCatalog(found) \/ Joining!retryCatalog(found)
           \/ \E w \in Single : Joining!editForm(w)
           \/ Joining!submitCodeRequest \/ Joining!editPhone \/ Joining!CodeRunsOut
           \/ Joining!verify
           \/ \E o \in Pair : \/ Joining!acceptOffer(o) \/ Joining!OfferMade(o)
                              \/ Joining!OfferEnds(o) \/ Joining!OtherTabOpens(o)
           \/ Joining!cancelEntry
    PROVE  Joining!JoinInv'
<1>0. Joining!JoinRows /\ Joining!PageAgrees
  BY DEF Joining!JoinInv
<1>a. ASSUME v1' = v1, v4' = v4, v5' = v5, v6' = v6 PROVE Joining!JoinRows'
  BY <1>0, <1>a DEF Joining!JoinRows
<1>1. ASSUME NEW found \in BOOLEAN, Joining!loadCatalog(found) PROVE Joining!JoinInv'
  <2>1. /\ v7 /\ v17' = {Joining!Asks(v6)} /\ v1' = v1 /\ v4' = v4 /\ v5' = v5
        /\ v6' = v6 /\ v7' = v7 /\ v9' = v9 /\ v10' = v10
    BY <1>1 DEF Joining!loadCatalog, Joining!Store, Joining!Shown
  <2>2. v6 \in {"join", "offer"} \cup Pair /\ (v6 = "join" => v10 = Idle)
    BY <1>0 DEF Joining!JoinRows, Joining!PageAgrees
  <2>3. PICK kind, arg : /\ Joining!Asks(v6) = Joining!Post(kind, arg)
                         /\ kind \in {"current", "access", "offer"}
                         /\ kind = "access" => arg \in Pair
                         /\ kind = "current" <=> v6 = "join"
    <3>1. CASE v6 = "join"
      BY <3>1 DEF Joining!Asks
    <3>2. CASE v6 = "offer"
      BY <3>2 DEF Joining!Asks
    <3>3. CASE v6 \notin {"join", "offer"}
      BY <2>2, <3>3 DEF Joining!Asks
    <3>4. QED
      BY <3>1, <3>2, <3>3
  <2>4. kind # "verify" /\ (kind = "current" => v10' = Idle)
    BY <2>1, <2>2, <2>3
  <2>5. Joining!PostOK(Joining!Asks(v6))'
    <3>1. PICK q : q = Joining!Asks(v6)
      OBVIOUS
    <3>2. Joining!PostOK(q)'
      BY <2>1, <2>3, <2>4, <3>1, SentPost
    <3>3. Joining!Asks(v6)' = q
      BY <2>1, <3>1 DEF Joining!Asks, Joining!Post
    <3>4. QED
      BY <3>2, <3>3 DEF Joining!PostOK, Joining!Agrees
  <2>6. QED
    BY <1>a, <2>1, <2>5, PageUntouched
<1>2. ASSUME NEW found, NEW w,
             \/ Joining!retryCatalog(found) \/ Joining!editForm(w) \/ Joining!editPhone
             \/ Joining!CodeRunsOut
      PROVE  Joining!JoinInv'
  <2>1. /\ v17' = v17 /\ v1' = v1 /\ v4' = v4 /\ v5' = v5
        /\ v6' = v6 /\ v7' = v7 /\ v9' = v9 /\ v10' = v10
    BY <1>2 DEF Joining!retryCatalog, Joining!editForm, Joining!editPhone,
                Joining!CodeRunsOut, Joining!Store, Joining!Frame, Joining!Shown
  <2>2. QED
    BY <1>a, <2>1, PageUntouched
<1>3. ASSUME NEW kind, NEW arg, NEW q, q = Joining!Post(kind, arg), Joining!Sends(q), ~v7,
             kind \in {"code", "verify", "accept", "cancel"}, kind = "verify" => v9 = Idle,
             UNCHANGED Joining!Store, UNCHANGED Joining!Frame, UNCHANGED Joining!Shown
      PROVE  Joining!JoinInv'
  <2>1. /\ v17' = v17 \cup {q} /\ v1' = v1 /\ v4' = v4 /\ v5' = v5
        /\ v6' = v6 /\ v7' = v7 /\ v9' = v9 /\ v10' = v10
    BY <1>3 DEF Joining!Sends, Joining!Store, Joining!Frame, Joining!Shown
  <2>2. kind # "access" /\ kind # "current" /\ (kind = "verify" => v10' = Idle)
    BY <1>0, <1>3, <2>1 DEF Joining!PageAgrees, Joining!OfferIsOfEntry
  <2>3. Joining!PostOK(q)'
    BY <1>3, <2>1, <2>2, SentPost
  <2>4. QED
    BY <1>a, <2>1, <2>3, PageUntouched
<1>4. CASE Joining!submitCodeRequest
  <2>1. ~v7 /\ Joining!Sends(Joining!Post("code", v12))
    BY <1>4 DEF Joining!submitCodeRequest, Joining!JoinShows
  <2>2. UNCHANGED Joining!Store /\ UNCHANGED Joining!Frame /\ UNCHANGED Joining!Shown
    BY <1>4 DEF Joining!submitCodeRequest
  <2>3. QED
    BY <1>3, <2>1, <2>2
<1>5. CASE Joining!verify
  <2>1. ~v7 /\ v9 = Idle /\ Joining!Sends(Joining!Post("verify", v13))
    BY <1>5 DEF Joining!verify, Joining!JoinShows
  <2>2. UNCHANGED Joining!Store /\ UNCHANGED Joining!Frame /\ UNCHANGED Joining!Shown
    BY <1>5 DEF Joining!verify
  <2>3. QED
    BY <1>3, <2>1, <2>2
<1>6. ASSUME NEW o \in Pair, Joining!acceptOffer(o) PROVE Joining!JoinInv'
  <2>1. PICK arg : ~v7 /\ Joining!Sends(Joining!Post("accept", arg))
    BY <1>6 DEF Joining!acceptOffer, Joining!EntryShows
  <2>2. UNCHANGED Joining!Store /\ UNCHANGED Joining!Frame /\ UNCHANGED Joining!Shown
    BY <1>6 DEF Joining!acceptOffer
  <2>3. QED
    BY <1>3, <2>1, <2>2
<1>7. CASE Joining!cancelEntry
  <2>1. ~v7 /\ Joining!Sends(Joining!Post("cancel", Idle))
    BY <1>7 DEF Joining!cancelEntry, Joining!EntryShows
  <2>2. UNCHANGED Joining!Store /\ UNCHANGED Joining!Frame /\ UNCHANGED Joining!Shown
    BY <1>7 DEF Joining!cancelEntry
  <2>3. QED
    BY <1>3, <2>1, <2>2
<1>8. ASSUME NEW o \in Pair, Joining!OfferMade(o) \/ Joining!OfferEnds(o)
      PROVE  Joining!JoinInv'
  <2>1. /\ v17' = v17 /\ v4' = v4 /\ v5' = v5
        /\ v6' = v6 /\ v7' = v7 /\ v9' = v9 /\ v10' = v10
    BY <1>8 DEF Joining!OfferMade, Joining!OfferEnds, Joining!Frame, Joining!Shown
  <2>2. PICK status \in Joining!TicketStatus : v1' = [v1 EXCEPT ![Invited[o]].status = status]
    BY <1>8 DEF Joining!OfferMade, Joining!OfferEnds, Joining!TicketStatus
  <2>3. Joining!JoinRows'
    BY <1>0, <2>1, <2>2, StatusChanges DEF Joining!JoinRows
  <2>4. QED
    BY <2>1, <2>3, PageUntouched
<1>9. ASSUME NEW o \in Pair, Joining!OtherTabOpens(o) PROVE Joining!JoinInv'
  <2>1. /\ v17' = v17 /\ v1' = v1 /\ v4' = v4 /\ v5' = o
        /\ v6' = v6 /\ v7' = v7 /\ v9' = v9 /\ v10' = v10
    BY <1>9 DEF Joining!OtherTabOpens, Joining!Frame, Joining!Shown
  <2>2. Joining!JoinRows'
    BY <1>0, <2>1 DEF Joining!JoinRows
  <2>3. QED
    BY <2>1, <2>2, PageUntouched
<1>10. QED
  BY <1>1, <1>2, <1>4, <1>5, <1>6, <1>7, <1>8, <1>9

LEMMA JoinStart == Joining!JoinInit => Joining!JoinInv
BY DEF Joining!JoinInit, Joining!JoinInv, Joining!JoinRows, Joining!PageAgrees,
       Joining!OfferIsOfEntry, Joining!TicketStatus

(* The offer that the page of the waiting list shows is one of the entry
   beside it (WaitlistJoinPage over WaitlistController). *)
THEOREM OffersAreOfTheirEntry == MCSpec => []OfferIsOfEntry
<1> DEFINE Inv == part = "joining" => Joining!JoinInv
<1>1. MCInit => Inv
  BY JoinStart DEF MCInit
<1>2. Inv /\ [MCNext]_pageVars => Inv'
  <2>1. SUFFICES ASSUME Inv, [MCNext]_pageVars, part' = "joining" PROVE Joining!JoinInv'
    OBVIOUS
  <2>2. CASE MCNext
    <3>1. Joining!JoinInv /\ Joining!JoinNext
      BY <2>1, <2>2 DEF MCNext
    <3>2. QED
      BY <3>1, JoinServes, JoinArrives, JoinActs DEF Joining!JoinNext
  <2>3. CASE UNCHANGED pageVars
    <3>1. /\ part' = part /\ v1' = v1 /\ v4' = v4 /\ v5' = v5 /\ v6' = v6 /\ v7' = v7
          /\ v9' = v9 /\ v10' = v10 /\ v17' = v17
      BY <2>3 DEF pageVars
    <3>2. Joining!JoinInv
      BY <2>1, <3>1
    <3>3. Joining!JoinRows'
      BY <3>1, <3>2 DEF Joining!JoinInv, Joining!JoinRows
    <3>4. QED
      BY <3>1, <3>2, <3>3, PageUntouched
  <2>4. QED
    BY <2>1, <2>2, <2>3
<1>3. Inv => OfferIsOfEntry
  BY DEF Joining!JoinInv, Joining!PageAgrees, OfferIsOfEntry
<1>4. QED
  BY <1>1, <1>2, <1>3, PTL DEF MCSpec

-----------------------------------------------------------------------------
(* The forms of an appointment *)

LEMMA FormsStep == Forms!ConsentInv /\ Forms!FormsNext => Forms!ConsentInv'
<1> SUFFICES ASSUME Forms!ConsentInv, Forms!FormsNext PROVE Forms!ConsentInv'
  OBVIOUS
<1>a. ASSUME v1' = v1, v2' = v2 PROVE Forms!ConsentInv'
  BY <1>a DEF Forms!ConsentInv, Forms!ConsentBacksAnswers
<1>1. ASSUME NEW c \in v7, Forms!submitForCustomer(c) PROVE Forms!ConsentInv'
  <2> DEFINE row == [status |-> "SUBMITTED", answer |-> c.input]
  <2>1. /\ v1' = [v1 EXCEPT ![c.form] = row]
        /\ v2' = v2 \cup {[form |-> c.form, answer |-> c.input]}
    BY <1>1 DEF Forms!submitForCustomer, Forms!ConsentsOf
  <2>2. {"status", "answer"} \subseteq DOMAIN row /\ row.answer = c.input
    OBVIOUS
  <2> HIDE DEF row
  <2>3. QED
    BY <2>1, <2>2 DEF Forms!ConsentInv, Forms!ConsentBacksAnswers
<1>2. ASSUME NEW c \in v7, Forms!review(c) PROVE Forms!ConsentInv'
  <2> DEFINE row == [v1[c.form] EXCEPT !.status = "REVIEWED"]
  <2>1. v1' = [v1 EXCEPT ![c.form] = row] /\ v2' = v2
    BY <1>2 DEF Forms!review
  <2>2. c.form \in Pair => {"status", "answer"} \subseteq DOMAIN row
                              /\ row.answer = v1[c.form].answer
    BY DEF Forms!ConsentInv
  <2> HIDE DEF row
  <2>3. QED
    BY <2>1, <2>2 DEF Forms!ConsentInv, Forms!ConsentBacksAnswers
<1>3. ASSUME NEW c \in v7,
             \/ Forms!submissions(c) \/ Forms!ReadSubmission(c) \/ Forms!ReadReviewed(c)
             \/ Forms!Submitted(c) \/ Forms!Listed(c) \/ Forms!Reviewed(c)
             \/ Forms!DeskListed(c) \/ Forms!CallFails(c)
      PROVE  Forms!ConsentInv'
  <2>1. v1' = v1 /\ v2' = v2
    BY <1>3 DEF Forms!submissions, Forms!ReadSubmission, Forms!ReadReviewed, Forms!Submitted,
                Forms!Listed, Forms!Reviewed, Forms!DeskListed, Forms!CallFails
  <2>2. QED
    BY <1>a, <2>1
<1>4. ASSUME NEW f \in Pair, NEW a \in Forms!Answer,
             \/ Forms!onSubmit(f) \/ Forms!markReviewed(f) \/ Forms!setAnswers(f, a)
      PROVE  Forms!ConsentInv'
  <2>1. v1' = v1 /\ v2' = v2
    BY <1>4 DEF Forms!onSubmit, Forms!markReviewed, Forms!setAnswers
  <2>2. QED
    BY <1>a, <2>1
<1>5. ASSUME Forms!OpensDesk PROVE Forms!ConsentInv'
  BY <1>a, <1>5 DEF Forms!OpensDesk
<1>6. ASSUME NEW f \in Pair, Forms!onSubmit(f) \/ Forms!markReviewed(f)
      PROVE  Forms!ConsentInv'
  BY <1>a, <1>6 DEF Forms!onSubmit, Forms!markReviewed
<1>7. QED
  BY <1>1, <1>2, <1>3, <1>4, <1>5, <1>6 DEF Forms!FormsNext, Forms!Serves

(* Every answer that is kept has its consent, although FormsService looks at
   a form first and writes it by id later. *)
THEOREM AnswersHaveConsent == MCSpec => []ConsentBacksAnswers
<1> DEFINE Inv == part = "forms" => Forms!ConsentInv
<1>1. MCInit => Inv
  BY DEF MCInit, Forms!FormsInit, Forms!ConsentInv, Forms!ConsentBacksAnswers
<1>2. Inv /\ [MCNext]_pageVars => Inv'
  <2>1. SUFFICES ASSUME Inv, [MCNext]_pageVars, part' = "forms" PROVE Forms!ConsentInv'
    OBVIOUS
  <2>2. CASE MCNext
    BY <2>1, <2>2, FormsStep DEF MCNext
  <2>3. CASE UNCHANGED pageVars
    BY <2>1, <2>3 DEF pageVars, Forms!ConsentInv, Forms!ConsentBacksAnswers
  <2>4. QED
    BY <2>1, <2>2, <2>3
<1>3. Inv => ConsentBacksAnswers
  BY DEF Forms!ConsentInv, ConsentBacksAnswers
<1>4. QED
  BY <1>1, <1>2, <1>3, PTL DEF MCSpec

-----------------------------------------------------------------------------
(* Finding a booking without an account *)

(* Calls are over. *)
LEMMA LookupGoesOn ==
    ASSUME Lookup!LeftInv, v3' = v3, v9' = v9, v8' \subseteq v8
    PROVE  Lookup!LeftInv'
BY DEF Lookup!LeftInv, Lookup!OpenIsAlone

(* The first call of the page is over. *)
LEMMA LookupAlone ==
    ASSUME \A d \in v8' : "kind" \in DOMAIN d /\ d.kind # "open",
           v9' => v3' # "booking" /\ \A d \in v8' : d.kind \notin {"verify", "read"}
    PROVE  Lookup!LeftInv'
BY DEF Lookup!LeftInv, Lookup!OpenIsAlone

LEMMA LookupCall ==
    ASSUME NEW kind, NEW input, NEW mine,
           NEW c, c = Lookup!Call(kind, input) \/ c = [Lookup!Call(kind, input) EXCEPT !.mine = mine]
    PROVE  "kind" \in DOMAIN c /\ c.kind = kind
BY DEF Lookup!Call

(* Marking a call leaves its kind. *)
LEMMA LookupMarks ==
    ASSUME NEW c, "kind" \in DOMAIN c, NEW r, NEW d,
           d = [c EXCEPT !.done = TRUE, !.result = r] \/ d = [c EXCEPT !.mine = FALSE]
    PROVE  "kind" \in DOMAIN d /\ d.kind = c.kind
OBVIOUS

LEMMA LookupServes ==
    ASSUME Lookup!LeftInv, NEW c \in v8, Lookup!Serves(c)
    PROVE  Lookup!LeftInv'
<1>1. PICK r : Lookup!Answers(c, r)
  BY DEF Lookup!Serves, Lookup!current, Lookup!requestCode, Lookup!verifyCode,
         Lookup!closeSession, Lookup!availability, Lookup!createChangeRequest, Lookup!cancel
<1> DEFINE d == [c EXCEPT !.done = TRUE, !.result = r]
<1>2. v8' = (v8 \ {c}) \cup {d} /\ v3' = v3 /\ v9' = v9
  BY <1>1 DEF Lookup!Answers
<1>3. "kind" \in DOMAIN d /\ d.kind = c.kind
  BY LookupMarks DEF Lookup!LeftInv
<1> HIDE DEF d
<1>4. QED
  BY <1>2, <1>3 DEF Lookup!LeftInv, Lookup!OpenIsAlone

LEMMA LookupArrives ==
    ASSUME Lookup!LeftInv, NEW c \in v8, Lookup!Arrives(c)
    PROVE  Lookup!LeftInv'
<1>0. \A d \in v8 : "kind" \in DOMAIN d
  BY DEF Lookup!LeftInv
<1>a. ASSUME c.kind # "open" PROVE \A d \in v8 : d.kind # "open"
  BY <1>a DEF Lookup!LeftInv, Lookup!OpenIsAlone
<1>1. CASE Lookup!Opened(c)
  <2>1. c.kind = "open" /\ v8' = v8 \ {c} /\ v3' = "booking" /\ v9' = v9
    BY <1>1 DEF Lookup!Opened
  <2>2. QED
    BY <2>1 DEF Lookup!LeftInv, Lookup!OpenIsAlone
<1>2. CASE Lookup!CodeAsked(c)
  <2>1. c.kind = "code" /\ v8' = v8 \ {c} /\ v3' = "otp" /\ v9' = v9
    BY <1>2 DEF Lookup!CodeAsked
  <2>2. QED
    BY <1>0, <1>a, <2>1, LookupAlone DEF Lookup!LeftInv
<1>3. CASE Lookup!Verified(c)
  <2>1. /\ c.kind = "verify" /\ v3' = v3 /\ v9' = v9
        /\ v8' = (v8 \ {c}) \cup {Lookup!Call("read", Idle)}
    BY <1>3 DEF Lookup!Verified
  <2>2. ~v9
    BY <2>1 DEF Lookup!LeftInv
  <2>3. QED
    BY <1>0, <1>a, <2>1, <2>2, LookupAlone, LookupCall
<1>4. CASE Lookup!Read(c)
  <2>1. c.kind = "read" /\ v8' = v8 \ {c} /\ v9' = v9
    BY <1>4 DEF Lookup!Read
  <2>2. ~v9
    BY <2>1 DEF Lookup!LeftInv
  <2>3. QED
    BY <1>0, <1>a, <2>1, <2>2, LookupAlone
<1>5. CASE Lookup!Refreshed(c) \/ Lookup!Slots(c) \/ Lookup!SlotsFail(c) \/ Lookup!ActionFails(c)
  <2>1. v8' = v8 \ {c} /\ v3' = v3 /\ v9' = v9
    BY <1>5 DEF Lookup!Refreshed, Lookup!Refreshes, Lookup!Slots, Lookup!SlotsFail,
                Lookup!ActionFails
  <2>2. QED
    BY <2>1, LookupGoesOn
<1>6. CASE Lookup!Leaves(c)
  <2>1. /\ c.kind = "close" /\ v3' = "lookup"
        /\ v9' = ({d \in v8 : d.kind \in {"verify", "read"}} = {})
    BY <1>6 DEF Lookup!Leaves
  <2>2. v8' = {[d EXCEPT !.mine = FALSE] : d \in {e \in v8 \ {c} : e.kind # "slots"}}
    BY <1>6 DEF Lookup!Leaves
  <2>3. ASSUME NEW d \in v8'
        PROVE  "kind" \in DOMAIN d /\ \E e \in v8 : d.kind = e.kind
    <3>1. PICK e \in v8 : d = [e EXCEPT !.mine = FALSE]
      BY <2>2
    <3>2. QED
      BY <1>0, <3>1, LookupMarks
  <2>4. \A d \in v8' : d.kind # "open"
    BY <1>a, <2>1, <2>3
  <2>5. v9' => \A d \in v8' : d.kind \notin {"verify", "read"}
    BY <2>1, <2>3
  <2>6. QED
    BY <2>1, <2>3, <2>4, <2>5, LookupAlone
<1>7. CASE Lookup!Done(c)
  <2>1. /\ c.kind \in {"change", "cancel"} /\ v3' = v3 /\ v9' = v9
        /\ \A d \in v8' : d \in v8 \/ d = [Lookup!Call("refresh", c.input.booking) EXCEPT !.mine = c.mine]
    BY <1>7 DEF Lookup!Done
  <2>2. \A d \in v8' : d \in v8 \/ ("kind" \in DOMAIN d /\ d.kind = "refresh")
    BY <2>1, LookupCall
  <2>3. \A d \in v8' : "kind" \in DOMAIN d /\ d.kind # "open"
    BY <1>0, <1>a, <2>1, <2>2
  <2>4. QED
    BY <2>1, <2>2, <2>3, LookupAlone DEF Lookup!LeftInv
<1>8. CASE Lookup!PageCallFails(c)
  <2>1. v8' = v8 \ {c} /\ v9' = v9 /\ v3' = (IF c.kind = "open" THEN "lookup" ELSE v3)
    BY <1>8 DEF Lookup!PageCallFails
  <2>2. CASE c.kind = "open"
    BY <2>1, <2>2 DEF Lookup!LeftInv, Lookup!OpenIsAlone
  <2>3. CASE c.kind # "open"
    BY <2>1, <2>3, LookupGoesOn
  <2>4. QED
    BY <2>2, <2>3
<1>9. QED
  BY <1>1, <1>2, <1>3, <1>4, <1>5, <1>6, <1>7, <1>8 DEF Lookup!Arrives

LEMMA LookupActs ==
    ASSUME Lookup!LeftInv,
           \/ \E b \in Single : Lookup!Salon(b) \/ Lookup!editForm(b)
           \/ \E b \in Single \cup {Idle} : Lookup!Elsewhere(b)
           \/ Lookup!askCode \/ Lookup!changeForm \/ Lookup!verify \/ Lookup!refresh
           \/ Lookup!leave
           \/ \E name \in {"change", "cancel"} : Lookup!Opens(name)
           \/ \E day \in Pair : Lookup!changeDate(day)
           \/ Lookup!Dismiss \/ Lookup!selectTime \/ Lookup!submitChange
           \/ Lookup!submitCancellation
    PROVE  Lookup!LeftInv'
<1>0. \A d \in v8 : "kind" \in DOMAIN d
  BY DEF Lookup!LeftInv
<1>a. ASSUME v3 # "checking" PROVE \A d \in v8 : d.kind # "open"
  BY <1>a DEF Lookup!LeftInv, Lookup!OpenIsAlone
<1>1. ASSUME v3' = v3, v9' = v9, v8' \subseteq v8 PROVE Lookup!LeftInv'
  BY <1>1, LookupGoesOn
<1>2. ASSUME NEW kind, NEW input, kind \notin {"open", "verify", "read"}, v3 # "checking",
             v3' = v3, v9' = v9, \A d \in v8' : d \in v8 \/ d = Lookup!Call(kind, input)
      PROVE  Lookup!LeftInv'
  <2>1. \A d \in v8' : d \in v8 \/ ("kind" \in DOMAIN d /\ d.kind = kind)
    BY <1>2, LookupCall
  <2>2. QED
    BY <1>0, <1>2, <1>a, <2>1, LookupAlone DEF Lookup!LeftInv
<1>3. ASSUME NEW b, Lookup!Salon(b) \/ Lookup!editForm(b) \/ Lookup!Elsewhere(b)
      PROVE  Lookup!LeftInv'
  BY <1>1, <1>3 DEF Lookup!Salon, Lookup!editForm, Lookup!Elsewhere
<1>4. CASE Lookup!Dismiss \/ Lookup!selectTime
  BY <1>1, <1>4 DEF Lookup!Dismiss, Lookup!selectTime
<1>5. CASE Lookup!askCode
  BY <1>2, <1>5 DEF Lookup!askCode, Lookup!Sends
<1>6. CASE Lookup!changeForm
  BY <1>0, <1>a, <1>6, LookupAlone DEF Lookup!changeForm, Lookup!LeftInv
<1>7. CASE Lookup!verify
  <2>1. v3 = "otp" /\ ~v9' /\ \A d \in v8' : d \in v8 \/ d = Lookup!Call("verify", v4)
    BY <1>7 DEF Lookup!verify, Lookup!Sends
  <2>2. QED
    BY <1>0, <1>a, <2>1, LookupAlone, LookupCall
<1>8. CASE Lookup!refresh \/ Lookup!leave
  BY <1>2, <1>8 DEF Lookup!refresh, Lookup!leave, Lookup!Sends, Lookup!Showing
<1>9. ASSUME NEW name, Lookup!Opens(name) PROVE Lookup!LeftInv'
  BY <1>1, <1>2, <1>9 DEF Lookup!Opens, Lookup!Sends, Lookup!Showing
<1>10. ASSUME NEW day, Lookup!changeDate(day) PROVE Lookup!LeftInv'
  BY <1>2, <1>10 DEF Lookup!changeDate, Lookup!Showing
<1>11. CASE Lookup!submitChange \/ Lookup!submitCancellation
  BY <1>2, <1>11 DEF Lookup!submitChange, Lookup!submitCancellation, Lookup!Sends,
                     Lookup!Showing
<1>12. QED
  BY <1>3, <1>4, <1>5, <1>6, <1>7, <1>8, <1>9, <1>10, <1>11

(* Whoever has left the page of a booking sees none again before a code is
   entered (BookingLookupPage). *)
THEOREM LeavingIsFinal == MCSpec => []LeftSeesNothing
<1> DEFINE Inv == part = "lookup" => Lookup!LeftInv
<1>1. MCInit => Inv
  <2>1. Lookup!LookupInit => Lookup!LeftInv
    BY LookupCall DEF Lookup!LookupInit, Lookup!LeftInv, Lookup!OpenIsAlone
  <2>2. QED
    BY <2>1 DEF MCInit
<1>2. Inv /\ [MCNext]_pageVars => Inv'
  <2>1. SUFFICES ASSUME Inv, [MCNext]_pageVars, part' = "lookup" PROVE Lookup!LeftInv'
    OBVIOUS
  <2>2. CASE MCNext
    <3>1. Lookup!LeftInv /\ Lookup!LookupNext
      BY <2>1, <2>2 DEF MCNext
    <3>2. QED
      BY <3>1, LookupServes, LookupArrives, LookupActs DEF Lookup!LookupNext
  <2>3. CASE UNCHANGED pageVars
    BY <2>1, <2>3 DEF pageVars, Lookup!LeftInv, Lookup!OpenIsAlone
  <2>4. QED
    BY <2>1, <2>2, <2>3
<1>3. Inv => LeftSeesNothing
  BY DEF Lookup!LeftInv, LeftSeesNothing, Lookup!LeftSeesNothing, Lookup!Showing
<1>4. QED
  BY <1>1, <1>2, <1>3, PTL DEF MCSpec

-----------------------------------------------------------------------------
(* The salon's board *)

LEMMA BoardValue ==
    /\ Few \in Nat /\ Some \in Nat \ {0} /\ {1} \subseteq Board!Change
    /\ Pair # {} /\ Idle \notin Board!Board
BY PagesAssumption DEF Board!BoardAssumption

(* Nothing that the invariant speaks of has moved. *)
LEMMA BoardUntouched ==
    ASSUME Board!BoardInv, v2' = v2, v3' = v3, v4' = v4, v5' = v5, v6' = v6, v13' = v13,
           v14' = v14
    PROVE  Board!BoardInv'
BY DEF Board!BoardInv, Board!LatestIsOfDay, Board!BoardIsOfDay

(* A refresh: the new call is the latest, and behind only for another date. *)
LEMMA BoardRefreshed ==
    ASSUME Board!BoardInv, NEW d \in Pair, Board!Fetching(d),
           v2' = v2, v3' \in Pair, v13' \in Pair \cup {Idle}
    PROVE  Board!BoardInv'
<1> DEFINE free == {n \in 1..Some : \A f \in v6 : f.nr # n}
           new == [nr |-> CHOOSE n \in free : TRUE, day |-> d, latest |-> TRUE, read |-> Idle]
           old == {[f EXCEPT !.latest = FALSE] : f \in v6}
<1>1. v6' = old \cup {new} /\ v14' = (d # v3')
  BY DEF Board!Fetching
<1>2. /\ {"nr", "day", "latest", "read"} \subseteq DOMAIN new
      /\ new.day = d /\ new.latest = TRUE /\ new.read = Idle
  OBVIOUS
<1>3. ASSUME NEW g \in old
      PROVE  /\ {"nr", "day", "latest", "read"} \subseteq DOMAIN g
             /\ g.latest = FALSE /\ g.day \in Pair
             /\ g.read # Idle => g.read \subseteq Board!Change
  <2>1. PICK f \in v6 : g = [f EXCEPT !.latest = FALSE]
    OBVIOUS
  <2>2. /\ {"nr", "day", "latest", "read"} \subseteq DOMAIN f /\ f.day \in Pair
        /\ f.read # Idle => f.read \subseteq Board!Change
    BY DEF Board!BoardInv, Board!LatestIsOfDay
  <2>3. g.day = f.day /\ g.read = f.read /\ g.latest = FALSE /\ DOMAIN g = DOMAIN f
    BY <2>1, <2>2
  <2>4. QED
    BY <2>2, <2>3
<1> HIDE DEF new, old
<1>4. Board!LatestIsOfDay'
  BY <1>1, <1>2, <1>3 DEF Board!LatestIsOfDay
<1>5. Board!BoardIsOfDay'
  BY <1>1, <1>2 DEF Board!BoardIsOfDay
<1>6. QED
  BY <1>4, <1>5 DEF Board!BoardInv

LEMMA BoardStep == Board!BoardInv /\ Board!BoardNext => Board!BoardInv'
<1> SUFFICES ASSUME Board!BoardInv, Board!BoardNext PROVE Board!BoardInv'
  OBVIOUS
<1>0. /\ v2 \subseteq Board!Change /\ v3 \in Pair /\ v13 \in Pair \cup {Idle}
      /\ Board!LatestIsOfDay /\ Board!BoardIsOfDay
  BY DEF Board!BoardInv
<1>1. CASE Board!BeginChange
  BY <1>1, BoardUntouched DEF Board!BeginChange, Board!Page
<1>2. ASSUME NEW n \in Board!Change, Board!CommitChange(n) PROVE Board!BoardInv'
  BY <1>2 DEF Board!CommitChange, Board!Page, Board!BoardInv, Board!LatestIsOfDay,
              Board!BoardIsOfDay
<1>3. CASE Board!PollBoard
  BY <1>0, <1>3, BoardRefreshed DEF Board!PollBoard, Board!Server
<1>4. CASE Board!VisibilityChanges
  BY <1>0, <1>4, BoardRefreshed, BoardUntouched DEF Board!VisibilityChanges, Board!Server
<1>5. CASE Board!HandlerBegins
  <2>1. /\ v2' = v2 /\ v3' = v3 /\ v4' = v4 /\ v5' = v5 /\ v6' = v6 /\ v14' = v14 /\ v13' = v3
    BY <1>5 DEF Board!HandlerBegins, Board!Server
  <2>2. QED
    BY <1>0, <2>1 DEF Board!BoardInv, Board!LatestIsOfDay, Board!BoardIsOfDay
<1>6. CASE Board!HandlerEnds
  BY <1>0, <1>6, BoardRefreshed DEF Board!HandlerEnds, Board!Server
<1>7. ASSUME NEW d \in Pair, Board!SelectDay(d) PROVE Board!BoardInv'
  BY <1>0, <1>7, BoardRefreshed DEF Board!SelectDay, Board!Server
<1>8. ASSUME NEW f \in v6, Board!ReadBoard(f) PROVE Board!BoardInv'
  <2> DEFINE g == [f EXCEPT !.read = v2]
  <2>1. /\ v6' = (v6 \ {f}) \cup {g} /\ v2' = v2 /\ v3' = v3 /\ v4' = v4 /\ v5' = v5
        /\ v13' = v13 /\ v14' = v14
    BY <1>8 DEF Board!ReadBoard, Board!Server
  <2>2. /\ {"nr", "day", "latest", "read"} \subseteq DOMAIN g
        /\ g.day = f.day /\ g.latest = f.latest /\ g.read = v2
    BY <1>0 DEF Board!LatestIsOfDay
  <2> HIDE DEF g
  <2>3. Board!LatestIsOfDay'
    BY <1>0, <2>1, <2>2 DEF Board!LatestIsOfDay
  <2>4. Board!BoardIsOfDay'
    BY <1>0, <2>1, <2>2 DEF Board!BoardIsOfDay
  <2>5. QED
    BY <1>0, <2>1, <2>3, <2>4 DEF Board!BoardInv
<1>9. ASSUME NEW f \in v6, Board!BoardArrives(f) PROVE Board!BoardInv'
  <2>1. /\ f.read # Idle /\ v6' = v6 \ {f} /\ v2' = v2 /\ v3' = v3 /\ v5' = v5
        /\ v13' = v13 /\ v14' = v14
    BY <1>9 DEF Board!BoardArrives, Board!Server
  <2>2. Board!LatestIsOfDay'
    BY <1>0, <2>1 DEF Board!LatestIsOfDay
  <2>3. CASE f.latest
    <3>1. v4' = [day |-> f.day, seen |-> f.read]
      BY <1>9, <2>3 DEF Board!BoardArrives, Board!IsCurrent
    <3>2. v4' \in Board!Board /\ v4'.day = f.day
      BY <1>0, <2>1, <3>1 DEF Board!LatestIsOfDay, Board!Board
    <3>3. v14 \/ f.day = v3
      BY <1>0, <2>3 DEF Board!LatestIsOfDay
    <3>4. Board!BoardIsOfDay'
      BY <2>1, <3>2, <3>3, BoardValue DEF Board!BoardIsOfDay
    <3>5. QED
      BY <1>0, <2>1, <2>2, <3>4 DEF Board!BoardInv
  <2>4. CASE ~f.latest
    <3>1. v4' = v4
      BY <1>9, <2>4 DEF Board!BoardArrives, Board!IsCurrent
    <3>2. Board!BoardIsOfDay'
      BY <1>0, <2>1, <2>4, <3>1 DEF Board!BoardIsOfDay
    <3>3. QED
      BY <1>0, <2>1, <2>2, <3>2 DEF Board!BoardInv
  <2>5. QED
    BY <2>3, <2>4
<1>10. ASSUME NEW f \in v6, Board!FetchFails(f) PROVE Board!BoardInv'
  <2>1. /\ v6' = v6 \ {f} /\ v5' = (v5 \/ f.latest) /\ v2' = v2 /\ v3' = v3 /\ v4' = v4
        /\ v13' = v13 /\ v14' = v14
    BY <1>10 DEF Board!FetchFails, Board!IsCurrent, Board!Server
  <2>2. Board!LatestIsOfDay'
    BY <1>0, <2>1 DEF Board!LatestIsOfDay
  <2>3. Board!BoardIsOfDay'
    BY <1>0, <2>1 DEF Board!BoardIsOfDay
  <2>4. QED
    BY <1>0, <2>1, <2>2, <2>3 DEF Board!BoardInv
<1>11. ASSUME NEW n \in 0..v1, Board!connect(n) PROVE Board!BoardInv'
  BY <1>11, BoardUntouched DEF Board!connect, Board!Server, Board!Page
<1>12. CASE Board!PollEvents \/ Board!StreamBreaks
  BY <1>12, BoardUntouched DEF Board!PollEvents, Board!StreamBreaks, Board!Server, Board!Page
<1>13. CASE Board!OnResourceChanged
  BY <1>0, <1>13, BoardRefreshed DEF Board!OnResourceChanged, Board!Server
<1>14. QED
  BY <1>1, <1>2, <1>3, <1>4, <1>5, <1>6, <1>7, <1>8, <1>9, <1>10, <1>11, <1>12, <1>13
     DEF Board!BoardNext

(* The bookings under a date are those of the date, in whatever order
   answers, events and handlers end, except behind a handler that began
   before the date was changed (useBookingBoard, AdminDashboard). *)
THEOREM BoardShowsItsDate == MCSpec => []BoardIsOfDay
<1> DEFINE Inv == part = "board" => Board!BoardInv
<1>1. MCInit => Inv
  <2>1. ASSUME Board!BoardInit PROVE Board!BoardInv
    <3>1. v3 \in Pair
      BY <2>1, BoardValue DEF Board!BoardInit
    <3>2. QED
      BY <2>1, <3>1, BoardValue
         DEF Board!BoardInit, Board!BoardInv, Board!LatestIsOfDay, Board!BoardIsOfDay
  <2>2. QED
    BY <2>1 DEF MCInit
<1>2. Inv /\ [MCNext]_pageVars => Inv'
  <2>1. SUFFICES ASSUME Inv, [MCNext]_pageVars, part' = "board" PROVE Board!BoardInv'
    OBVIOUS
  <2>2. CASE MCNext
    BY <2>1, <2>2, BoardStep DEF MCNext
  <2>3. CASE UNCHANGED pageVars
    BY <2>1, <2>3, BoardUntouched DEF pageVars
  <2>4. QED
    BY <2>1, <2>2, <2>3
<1>3. Inv => BoardIsOfDay
  BY DEF Board!BoardInv, BoardIsOfDay
<1>4. QED
  BY <1>1, <1>2, <1>3, PTL DEF MCSpec

-----------------------------------------------------------------------------
(* Reviews *)

LEMMA RatingValue == Idle \notin Pair /\ "loading" \notin Pair /\ "refused" \notin Pair
BY PagesAssumption DEF Reviewing!PagesAssumption

(* A tab is another one, whose review, if it shows or awaits one, is the one
   kept. *)
LEMMA TabChanges ==
    ASSUME Reviewing!ThanksInv, NEW t, NEW tab, v1' = v1, v3' = [v3 EXCEPT ![t] = tab],
           t \in Reviewing!Tab =>
              /\ {"shown", "rating", "busy", "answer"} \subseteq DOMAIN tab
              /\ tab.shown \in Pair => tab.shown = v1[ReviewOf[t]].rating
              /\ tab.busy \in {"sent", "served"} => tab.answer # Idle
              /\ tab.busy = "served" => tab.answer = v1[ReviewOf[t]].rating
    PROVE  Reviewing!ThanksInv'
BY DEF Reviewing!ThanksInv, Reviewing!ThanksForKept, Reviewing!CarriesKept

LEMMA ReviewsUntouched ==
    ASSUME Reviewing!ThanksInv, v1' = v1, v3' = v3
    PROVE  Reviewing!ThanksInv'
BY DEF Reviewing!ThanksInv, Reviewing!ThanksForKept, Reviewing!CarriesKept

LEMMA TabStep ==
    ASSUME Reviewing!ThanksInv, NEW t \in Reviewing!Tab, NEW rating \in Pair,
           \/ Reviewing!ShowReview(t) \/ Reviewing!LoadFails(t) \/ Reviewing!Retry(t)
           \/ Reviewing!setRating(t, rating)
           \/ Reviewing!submit(t) \/ Reviewing!Thank(t) \/ Reviewing!SubmitFails(t)
    PROVE  Reviewing!ThanksInv'
<1>0. /\ {"shown", "rating", "busy", "answer"} \subseteq DOMAIN v3[t]
      /\ v3[t].shown \in Pair => v3[t].shown = v1[ReviewOf[t]].rating
      /\ v3[t].busy \in {"sent", "served"} => v3[t].answer # Idle
      /\ v3[t].busy = "served" => v3[t].answer = v1[ReviewOf[t]].rating
      /\ v3 = [s \in Reviewing!Tab |-> v3[s]]
  BY DEF Reviewing!ThanksInv, Reviewing!ThanksForKept, Reviewing!CarriesKept
<1> DEFINE kept == v1[ReviewOf[t]].rating
<1>1. PICK tab : /\ v1' = v1 /\ v3' = [v3 EXCEPT ![t] = tab]
                 /\ \/ tab = [v3[t] EXCEPT !.shown = kept, !.rating = kept]
                    \/ tab = [v3[t] EXCEPT !.shown = "refused"]
                    \/ tab = [v3[t] EXCEPT !.shown = "loading"]
                    \/ tab = [v3[t] EXCEPT !.rating = rating]
                    \/ /\ v3[t].rating # Idle
                       /\ tab = [v3[t] EXCEPT !.busy = "sent", !.answer = v3[t].rating]
                    \/ tab = [v3[t] EXCEPT !.shown = kept, !.busy = "no", !.answer = Idle]
                    \/ tab = [v3[t] EXCEPT !.busy = "no", !.answer = Idle]
  <2>1. CASE Reviewing!ShowReview(t)
    BY <1>0, <2>1 DEF Reviewing!ShowReview
  <2>2. CASE Reviewing!LoadFails(t)
    BY <1>0, <2>2 DEF Reviewing!LoadFails
  <2>3. CASE Reviewing!Retry(t)
    BY <1>0, <2>3 DEF Reviewing!Retry
  <2>4. CASE Reviewing!setRating(t, rating)
    BY <1>0, <2>4 DEF Reviewing!setRating
  <2>5. CASE Reviewing!submit(t)
    BY <1>0, <2>5 DEF Reviewing!submit
  <2>6. CASE Reviewing!Thank(t)
    <3>1. v3[t].answer = kept
      BY <1>0, <2>6 DEF Reviewing!Thank
    <3>2. v1' = v1 /\ v3' = [v3 EXCEPT ![t] = [@ EXCEPT !.shown = kept, !.busy = "no",
                                                      !.answer = Idle]]
      BY <2>6, <3>1 DEF Reviewing!Thank
    <3>3. QED
      BY <1>0, <3>2
  <2>7. CASE Reviewing!SubmitFails(t)
    BY <1>0, <2>7 DEF Reviewing!SubmitFails
  <2>8. QED
    BY <2>1, <2>2, <2>3, <2>4, <2>5, <2>6, <2>7
<1>2. {"shown", "rating", "busy", "answer"} \subseteq DOMAIN tab
  BY <1>0, <1>1
<1>3. tab.shown \in {kept, "refused", "loading", v3[t].shown}
  BY <1>0, <1>1
<1>4. tab.shown \in Pair => tab.shown = kept
  BY <1>0, <1>3, RatingValue
<1>5. \/ tab.busy = v3[t].busy /\ tab.answer = v3[t].answer
      \/ tab.busy = "sent" /\ tab.answer # Idle
      \/ tab.busy = "no"
  BY <1>0, <1>1
<1>6. /\ tab.busy \in {"sent", "served"} => tab.answer # Idle
      /\ tab.busy = "served" => tab.answer = kept
  BY <1>0, <1>5
<1>7. QED
  BY <1>1, <1>2, <1>4, <1>6, TabChanges

(* An answer is kept where none was, so that no tab shows or awaits another. *)
LEMMA AnswerKept ==
    ASSUME Reviewing!ThanksInv, NEW t \in Reviewing!Tab, Reviewing!ServeSubmit(t)
    PROVE  Reviewing!ThanksInv'
<1>0. /\ {"shown", "rating", "busy", "answer"} \subseteq DOMAIN v3[t]
      /\ \A s \in Reviewing!Tab :
            /\ v3[s].shown \in Pair => v3[s].shown = v1[ReviewOf[s]].rating
            /\ v3[s].busy \in {"sent", "served"} => v3[s].answer # Idle
            /\ v3[s].busy = "served" => v3[s].answer = v1[ReviewOf[s]].rating
      /\ \A r \in Single : {"rating", "note", "read"} \subseteq DOMAIN v1[r]
      /\ v3 = [s \in Reviewing!Tab |-> v3[s]]
  BY DEF Reviewing!ThanksInv, Reviewing!ThanksForKept, Reviewing!CarriesKept
<1>1. CASE Reviewing!TakesAnswer(ReviewOf[t])
  <2> DEFINE r == ReviewOf[t]
             row == [v1[r] EXCEPT !.rating = v3[t].answer]
             tab == [v3[t] EXCEPT !.busy = "served"]
  <2>1. /\ v1' = [v1 EXCEPT ![r] = row] /\ v3' = [v3 EXCEPT ![t] = tab]
        /\ v1[r].rating = Idle /\ v3[t].busy = "sent"
    BY <1>1 DEF Reviewing!ServeSubmit, Reviewing!TakesAnswer
  <2>2. r \in Single
    BY PagesAssumption DEF Reviewing!PagesAssumption
  <2>3. {"rating", "note", "read"} \subseteq DOMAIN row /\ row.rating = v3[t].answer
    BY <1>0, <2>2
  <2>4. /\ {"shown", "rating", "busy", "answer"} \subseteq DOMAIN tab
        /\ tab.shown = v3[t].shown /\ tab.answer = v3[t].answer
    BY <1>0
  <2> HIDE DEF row, tab
  <2>5. \A s \in Reviewing!Tab : v3'[s].shown = v3[s].shown /\ v3'[s].answer = v3[s].answer
    BY <1>0, <2>1, <2>4
  <2>6. v1'[r].rating = v3[t].answer
    BY <2>1, <2>2, <2>3 DEF Reviewing!ThanksInv
  <2>7. ASSUME NEW s \in Reviewing!Tab, ReviewOf[s] # r
        PROVE  v1'[ReviewOf[s]] = v1[ReviewOf[s]]
    BY <2>1, <2>2, <2>7, PagesAssumption DEF Reviewing!PagesAssumption, Reviewing!ThanksInv
  <2>8. ASSUME NEW s \in Reviewing!Tab, v3'[s].shown \in Pair
        PROVE  v3'[s].shown = v1'[ReviewOf[s]].rating
    <3>1. v3[s].shown = v1[ReviewOf[s]].rating /\ v3[s].shown # Idle
      BY <1>0, <2>5, <2>8, RatingValue
    <3>2. ReviewOf[s] # r
      BY <2>1, <3>1
    <3>3. QED
      BY <2>5, <2>7, <3>1, <3>2
  <2>9. ASSUME NEW s \in Reviewing!Tab
        PROVE  Reviewing!CarriesKept(s)'
    <3>1. CASE s = t
      <4>1. v3'[s].answer = v3[t].answer /\ v3[t].answer # Idle
        BY <1>0, <2>1, <2>5, <3>1
      <4>2. v3'[s].answer = v1'[ReviewOf[s]].rating
        BY <2>6, <3>1, <4>1
      <4>3. QED
        BY <4>1, <4>2 DEF Reviewing!CarriesKept
    <3>2. CASE s # t
      <4>1. v3'[s] = v3[s]
        BY <1>0, <2>1, <3>2
      <4>2. v3[s].busy = "served" => ReviewOf[s] # r
        BY <1>0, <2>1
      <4>3. QED
        BY <1>0, <2>7, <4>1, <4>2 DEF Reviewing!CarriesKept
    <3>3. QED
      BY <3>1, <3>2
  <2>10. QED
    BY <2>1, <2>3, <2>4, <2>8, <2>9 DEF Reviewing!ThanksInv, Reviewing!ThanksForKept
<1>2. CASE ~Reviewing!TakesAnswer(ReviewOf[t])
  <2> DEFINE tab == [v3[t] EXCEPT !.busy = "conflict"]
  <2>1. v1' = v1 /\ v3' = [v3 EXCEPT ![t] = tab]
    BY <1>2 DEF Reviewing!ServeSubmit
  <2>2. /\ {"shown", "rating", "busy", "answer"} \subseteq DOMAIN tab
        /\ tab.shown = v3[t].shown /\ tab.busy = "conflict"
    BY <1>0
  <2> HIDE DEF tab
  <2>3. QED
    BY <1>0, <2>1, <2>2, TabChanges
<1>3. QED
  BY <1>1, <1>2

(* The salon's note and mark leave the answer. *)
LEMMA NoteKept ==
    ASSUME Reviewing!ThanksInv, NEW c, Reviewing!updateAdmin(c)
    PROVE  Reviewing!ThanksInv'
<1> DEFINE r == c.review
           row == [v1[r] EXCEPT !.note = c.note, !.read = TRUE]
<1>1. v1' = [v1 EXCEPT ![r] = row] /\ v3' = v3
  BY DEF Reviewing!updateAdmin, Reviewing!Answer, Reviewing!ThanksInv
<1>2. r \in Single => {"rating", "note", "read"} \subseteq DOMAIN row /\ row.rating = v1[r].rating
  BY DEF Reviewing!ThanksInv
<1> HIDE DEF row
<1>3. QED
  BY <1>1, <1>2, PagesAssumption
     DEF Reviewing!ThanksInv, Reviewing!ThanksForKept, Reviewing!CarriesKept,
         Reviewing!PagesAssumption

LEMMA ReviewsStep == Reviewing!ThanksInv /\ Reviewing!PagesNext => Reviewing!ThanksInv'
<1> SUFFICES ASSUME Reviewing!ThanksInv, Reviewing!PagesNext PROVE Reviewing!ThanksInv'
  OBVIOUS
<1>1. ASSUME NEW t \in Reviewing!Tab,
             \/ Reviewing!ShowReview(t) \/ Reviewing!LoadFails(t) \/ Reviewing!Retry(t)
             \/ Reviewing!submit(t) \/ Reviewing!Thank(t) \/ Reviewing!SubmitFails(t)
             \/ \E rating \in Pair : Reviewing!setRating(t, rating)
      PROVE  Reviewing!ThanksInv'
  <2>1. PICK rating : rating \in Pair
    BY PagesAssumption DEF Board!BoardAssumption
  <2>2. QED
    BY <1>1, <2>1, TabStep
<1>2. ASSUME NEW r, NEW note,
             \/ Reviewing!Requests(r) \/ Reviewing!updateAdminReview(r)
             \/ Reviewing!setNote(r, note) \/ Reviewing!load(r)
      PROVE  Reviewing!ThanksInv'
  BY <1>2, ReviewsUntouched DEF Reviewing!Requests, Reviewing!updateAdminReview,
     Reviewing!setNote, Reviewing!load
<1>3. ASSUME NEW c,
             \/ Reviewing!ServeSummary(c) \/ Reviewing!ServeList(c) \/ Reviewing!Loaded(c)
             \/ Reviewing!Saved(c) \/ Reviewing!CallFails(c)
      PROVE  Reviewing!ThanksInv'
  BY <1>3, ReviewsUntouched DEF Reviewing!ServeSummary, Reviewing!ServeList, Reviewing!Loaded,
     Reviewing!Saved, Reviewing!CallFails, Reviewing!Answer
<1>4. QED
  BY <1>1, <1>2, <1>3, AnswerKept, NoteKept DEF Reviewing!PagesNext

LEMMA ReviewsStart == Reviewing!PagesInit => Reviewing!ThanksInv
BY RatingValue DEF Reviewing!PagesInit, Reviewing!ThanksInv, Reviewing!ThanksForKept,
   Reviewing!CarriesKept, Reviewing!Fresh, Reviewing!Opened

-----------------------------------------------------------------------------
(* The customer's account *)

(* What the server has stored stays stored. *)
LEMMA StoredStays ==
    ASSUME Home!StoredInv, v9 \subseteq v9', v7' = v7
    PROVE  Home!NoteIsTrue(v7)'
BY DEF Home!StoredInv, Home!NoteIsTrue

LEMMA WrittenStays ==
    ASSUME Home!StoredInv, v9 \subseteq v9'
    PROVE  \A q \in v8 : Home!WasWritten(q)'
BY DEF Home!StoredInv, Home!WasWritten

(* A new call *)
LEMMA AskedIsOpen ==
    ASSUME NEW cs, NEW call, NEW arg, \A q \in cs : Home!WasWritten(q)'
    PROVE  \A q \in Home!Ask(cs, call, arg) : Home!WasWritten(q)'
<1> DEFINE new == [call |-> call, arg |-> arg, mounted |-> TRUE, done |-> FALSE,
                   result |-> Idle]
<1>1. Home!Ask(cs, call, arg) = cs \cup {new}
  BY DEF Home!Ask
<1>2. {"call", "arg", "mounted", "done", "result"} \subseteq DOMAIN new /\ new.done = FALSE
  OBVIOUS
<1> HIDE DEF new
<1>3. ASSUME NEW q, q = new PROVE Home!WasWritten(q)'
  BY <1>2, <1>3 DEF Home!WasWritten
<1>4. QED
  BY <1>1, <1>3

(* Calls whose page has gone *)
LEMMA UnmountedWritten ==
    ASSUME NEW cs, \A q \in cs : Home!WasWritten(q)'
    PROVE  \A q \in Home!Unmounted(cs) : Home!WasWritten(q)'
<1> SUFFICES ASSUME NEW q \in Home!Unmounted(cs) PROVE Home!WasWritten(q)'
  OBVIOUS
<1>1. PICK r \in cs : q = [r EXCEPT !.mounted = FALSE]
  BY DEF Home!Unmounted
<1>2. /\ {"call", "arg", "mounted", "done", "result"} \subseteq DOMAIN r
      /\ r.call = "update" /\ r.done => r.result \in v9'
  BY DEF Home!WasWritten
<1>3. DOMAIN q = DOMAIN r /\ q.call = r.call /\ q.done = r.done /\ q.result = r.result
  BY <1>1, <1>2
<1>4. QED
  BY <1>2, <1>3 DEF Home!WasWritten

(* A page that opens says nothing. *)
LEMMA OpensSilent ==
    ASSUME NEW path, NEW card, NEW cs, Home!Opens(path, card, cs), Home!StoredInv,
           v9' = v9, cs \subseteq v8
    PROVE  Home!StoredInv'
<1>1. \A q \in cs : Home!WasWritten(q)'
  BY WrittenStays
<1>2. \A q \in Home!Unmounted(cs) : Home!WasWritten(q)'
  BY <1>1, UnmountedWritten
<1>3. CASE path = "profile"
  <2>1. v7' = Home!FormOf(card) /\ v8' = Home!Ask(Home!Unmounted(cs), "profile", Idle)
    BY <1>3 DEF Home!Opens
  <2>2. \A q \in v8' : Home!WasWritten(q)'
    BY <1>2, <2>1, AskedIsOpen
  <2>3. Home!NoteIsTrue(v7)'
    BY <2>1 DEF Home!NoteIsTrue, Home!FormOf
  <2>4. QED
    BY <2>2, <2>3 DEF Home!StoredInv
<1>4. CASE path # "profile"
  <2>1. v7' = v7 /\ v8' = Home!Unmounted(cs)
    BY <1>4 DEF Home!Opens
  <2>2. QED
    BY <1>2, <2>1, StoredStays DEF Home!StoredInv
<1>5. QED
  BY <1>3, <1>4

LEMMA EntersSilent ==
    ASSUME NEW card, NEW cs, Home!Enters(card, cs), Home!StoredInv, v9' = v9, cs \subseteq v8
    PROVE  Home!StoredInv'
<1>1. CASE v3 = "authenticated"
  <2>1. v7' = v7 /\ v8' = cs
    BY <1>1 DEF Home!Enters
  <2>2. QED
    BY <2>1, StoredStays, WrittenStays DEF Home!StoredInv
<1>2. CASE v3 # "authenticated"
  BY <1>2, OpensSilent DEF Home!Enters
<1>3. QED
  BY <1>1, <1>2

(* The form stays, and so do the calls, but for some that end or are new. *)
LEMMA HomeGoesOn ==
    ASSUME Home!StoredInv, v7' = v7, v9' = v9,
           NEW cs, cs \subseteq v8, NEW call, NEW arg,
           v8' = cs \/ v8' = Home!Ask(cs, call, arg) \/ v8' = Home!Unmounted(cs)
    PROVE  Home!StoredInv'
<1>1. \A q \in cs : Home!WasWritten(q)'
  BY WrittenStays
<1>2. \A q \in v8' : Home!WasWritten(q)'
  BY <1>1, AskedIsOpen, UnmountedWritten
<1>3. QED
  BY <1>2, StoredStays DEF Home!StoredInv

(* The form changes. *)
LEMMA HomeForm ==
    ASSUME Home!StoredInv, v9' = v9, NEW page, v7' = page,
           {"draft", "saved", "loading", "failed", "busy", "note"} \subseteq DOMAIN page,
           page.note => page.draft = page.saved /\ page.draft \in v9,
           NEW cs, cs \subseteq v8, NEW call, NEW arg,
           v8' = cs \/ v8' = Home!Ask(cs, call, arg)
    PROVE  Home!StoredInv'
<1>1. \A q \in cs : Home!WasWritten(q)'
  BY WrittenStays
<1>2. \A q \in v8' : Home!WasWritten(q)'
  BY <1>1, AskedIsOpen
<1>3. Home!NoteIsTrue(v7)'
  BY DEF Home!NoteIsTrue
<1>4. QED
  BY <1>2, <1>3 DEF Home!StoredInv

(* The server answers an update with what it has written. *)
LEMMA HomeServes ==
    ASSUME Home!StoredInv, NEW r \in v8, Home!Serves(r)
    PROVE  Home!StoredInv'
<1>1. PICK result : /\ Home!Serve(r, result) /\ v7' = v7 /\ v9 \subseteq v9'
                    /\ r.call = "update" => result \in v9'
  <2>1. CASE Home!UpdateProfile(r)
    <3>1. Home!Serve(r, r.arg) /\ v7' = v7 /\ v9' = v9 \cup {r.arg}
      BY <2>1 DEF Home!UpdateProfile
    <3>2. QED
      BY <3>1
  <2>2. CASE Home!GetSession(r)
    BY <2>2 DEF Home!GetSession
  <2>3. CASE Home!RequestCode(r)
    BY <2>3 DEF Home!RequestCode
  <2>4. CASE Home!VerifyCode(r)
    BY <2>4 DEF Home!VerifyCode
  <2>5. CASE Home!Revoke(r)
    BY <2>5 DEF Home!Revoke
  <2>6. CASE Home!GetProfile(r)
    BY <2>6 DEF Home!GetProfile
  <2>7. QED
    BY <2>1, <2>2, <2>3, <2>4, <2>5, <2>6 DEF Home!Serves
<1> DEFINE q == [r EXCEPT !.done = TRUE, !.result = result]
<1>2. v8' = (v8 \ {r}) \cup {q}
  BY <1>1 DEF Home!Serve
<1>3. /\ {"call", "arg", "mounted", "done", "result"} \subseteq DOMAIN q
      /\ q.call = r.call /\ q.result = result
  BY DEF Home!StoredInv, Home!WasWritten
<1> HIDE DEF q
<1>4. Home!WasWritten(q)'
  BY <1>1, <1>3 DEF Home!WasWritten
<1>5. \A p \in v8' : Home!WasWritten(p)'
  BY <1>1, <1>2, <1>4, WrittenStays
<1>6. QED
  BY <1>1, <1>5, StoredStays DEF Home!StoredInv

LEMMA HomeArrives ==
    ASSUME Home!StoredInv, NEW r \in v8, Home!Arrives(r)
    PROVE  Home!StoredInv'
<1>0. /\ {"draft", "saved", "loading", "failed", "busy", "note"} \subseteq DOMAIN v7
      /\ v7.note => v7.draft = v7.saved /\ v7.draft \in v9
      /\ v8 \ {r} \subseteq v8
  BY DEF Home!StoredInv, Home!NoteIsTrue
<1>1. CASE Home!SessionArrives(r)
  <2>1. v9' = v9
    BY <1>1 DEF Home!SessionArrives
  <2>2. CASE r.result = Idle
    <3>1. v7' = v7 /\ v8' = v8 \ {r}
      BY <1>1, <2>2 DEF Home!SessionArrives
    <3>2. QED
      BY <2>1, <3>1, HomeGoesOn
  <2>3. CASE r.result # Idle
    BY <1>0, <1>1, <2>1, <2>3, EntersSilent DEF Home!SessionArrives
  <2>4. QED
    BY <2>2, <2>3
<1>2. CASE Home!CodeSent(r) \/ Home!LoginFails(r)
  <2>1. v7' = v7 /\ v9' = v9 /\ v8' = v8 \ {r}
    BY <1>2 DEF Home!CodeSent, Home!LoginFails
  <2>2. QED
    BY <2>1, HomeGoesOn
<1>3. CASE Home!Verified(r)
  BY <1>0, <1>3, EntersSilent DEF Home!Verified
<1>4. CASE Home!LogoutArrives(r)
  <2>1. v7' = v7 /\ v9' = v9 /\ v8' = Home!Unmounted(v8 \ {r})
    BY <1>4 DEF Home!LogoutArrives
  <2>2. QED
    BY <1>0, <2>1, HomeGoesOn
<1>5. CASE Home!ProfileArrives(r)
  <2> DEFINE page == [v7 EXCEPT !.draft = r.result, !.saved = r.result, !.note = FALSE,
                                !.loading = FALSE]
  <2>1. v7' = page /\ v9' = v9 /\ v8' = v8 \ {r}
    BY <1>5 DEF Home!ProfileArrives
  <2>2. DOMAIN page = DOMAIN v7 /\ page.note = FALSE
    BY <1>0
  <2> HIDE DEF page
  <2>3. QED
    BY <1>0, <2>1, <2>2, HomeForm
<1>6. CASE Home!ProfileFails(r)
  <2> DEFINE page == [v7 EXCEPT !.loading = FALSE, !.failed = TRUE]
  <2>1. v7' = page /\ v9' = v9 /\ v8' = v8 \ {r}
    BY <1>6 DEF Home!ProfileFails
  <2>2. /\ DOMAIN page = DOMAIN v7 /\ page.note = v7.note
        /\ page.draft = v7.draft /\ page.saved = v7.saved
    BY <1>0
  <2> HIDE DEF page
  <2>3. QED
    BY <1>0, <2>1, <2>2, HomeForm
<1>7. CASE Home!SaveArrives(r)
  <2>1. r.call = "update" /\ r.done /\ v9' = v9 /\ r.result \in v9
    BY <1>7 DEF Home!SaveArrives, Home!StoredInv, Home!WasWritten
  <2>2. CASE r.mounted
    <3> DEFINE page == [v7 EXCEPT !.draft = r.result, !.saved = r.result, !.note = TRUE,
                                  !.busy = FALSE]
    <3>1. v7' = page /\ v8' = v8 \ {r}
      BY <1>7, <2>2 DEF Home!SaveArrives
    <3>2. DOMAIN page = DOMAIN v7 /\ page.draft = r.result /\ page.saved = r.result
      BY <1>0
    <3> HIDE DEF page
    <3>3. QED
      BY <1>0, <2>1, <3>1, <3>2, HomeForm
  <2>3. CASE ~r.mounted
    BY <1>0, <1>7, <2>1, <2>3, EntersSilent DEF Home!SaveArrives
  <2>4. QED
    BY <2>2, <2>3
<1>8. CASE Home!SaveFails(r)
  <2> DEFINE page == [v7 EXCEPT !.busy = FALSE]
  <2>1. (v7' = page \/ v7' = v7) /\ v9' = v9 /\ v8' = v8 \ {r}
    BY <1>8 DEF Home!SaveFails
  <2>2. /\ DOMAIN page = DOMAIN v7 /\ page.note = v7.note
        /\ page.draft = v7.draft /\ page.saved = v7.saved
    BY <1>0
  <2> HIDE DEF page
  <2>3. QED
    BY <1>0, <2>1, <2>2, HomeForm
<1>9. QED
  BY <1>1, <1>2, <1>3, <1>4, <1>5, <1>6, <1>7, <1>8 DEF Home!Arrives

LEMMA HomeStep == Home!StoredInv /\ Home!HomeNext => Home!StoredInv'
<1> SUFFICES ASSUME Home!StoredInv, Home!HomeNext PROVE Home!StoredInv'
  OBVIOUS
<1>0. /\ {"draft", "saved", "loading", "failed", "busy", "note"} \subseteq DOMAIN v7
      /\ v7.note => v7.draft = v7.saved /\ v7.draft \in v9
      /\ v8 \subseteq v8
  BY DEF Home!StoredInv, Home!NoteIsTrue
<1>1. ASSUME NEW x,
             \/ Home!SalonUpdates(x) \/ Home!SessionEnds \/ Home!onLogout \/ Home!typePhone(x)
             \/ Home!sendCode \/ Home!changeNumber \/ Home!verify
      PROVE  Home!StoredInv'
  <2>1. PICK call, arg : /\ v7' = v7 /\ v9' = v9
                         /\ v8' = v8 \/ v8' = Home!Ask(v8, call, arg)
    BY <1>1 DEF Home!SalonUpdates, Home!SessionEnds, Home!onLogout, Home!typePhone,
                Home!sendCode, Home!changeNumber, Home!verify
  <2>2. QED
    BY <1>0, <2>1, HomeGoesOn
<1>2. ASSUME NEW path, Home!GoTo(path) PROVE Home!StoredInv'
  BY <1>0, <1>2, OpensSilent DEF Home!GoTo
<1>3. CASE Home!loadProfile
  <2> DEFINE page == [v7 EXCEPT !.loading = TRUE, !.failed = FALSE]
  <2>1. v7' = page /\ v9' = v9 /\ v8' = Home!Ask(v8, "profile", Idle)
    BY <1>3 DEF Home!loadProfile
  <2>2. /\ DOMAIN page = DOMAIN v7 /\ page.note = v7.note
        /\ page.draft = v7.draft /\ page.saved = v7.saved
    BY <1>0
  <2> HIDE DEF page
  <2>3. QED
    BY <1>0, <2>1, <2>2, HomeForm
<1>4. ASSUME NEW card, Home!editProfile(card) PROVE Home!StoredInv'
  <2> DEFINE page == [v7 EXCEPT !.draft = card, !.note = FALSE]
  <2>1. v7' = page /\ v9' = v9 /\ v8' = v8
    BY <1>4 DEF Home!editProfile
  <2>2. DOMAIN page = DOMAIN v7 /\ page.note = FALSE
    BY <1>0
  <2> HIDE DEF page
  <2>3. QED
    BY <1>0, <2>1, <2>2, HomeForm
<1>5. CASE Home!save
  <2> DEFINE page == [v7 EXCEPT !.busy = TRUE, !.note = FALSE]
  <2>1. v7' = page /\ v9' = v9 /\ v8' = Home!Ask(v8, "update", v7.draft)
    BY <1>5 DEF Home!save
  <2>2. DOMAIN page = DOMAIN v7 /\ page.note = FALSE
    BY <1>0
  <2> HIDE DEF page
  <2>3. QED
    BY <1>0, <2>1, <2>2, HomeForm
<1>6. QED
  BY <1>1, <1>2, <1>3, <1>4, <1>5, HomeServes, HomeArrives DEF Home!HomeNext

LEMMA HomeStart == Home!HomeInit => Home!StoredInv
<1> SUFFICES ASSUME Home!HomeInit PROVE Home!StoredInv
  OBVIOUS
<1>1. Home!NoteIsTrue(v7)
  BY DEF Home!HomeInit, Home!FormOf, Home!NoteIsTrue
<1>2. \A r \in v8 : Home!WasWritten(r)
  BY DEF Home!HomeInit, Home!Ask, Home!WasWritten
<1>3. QED
  BY <1>1, <1>2 DEF Home!StoredInv

(* What a page says the salon has, it has: the rating it thanks for, through
   answers that are lost and sent again from two tabs (PublicReviewPage,
   CustomerReviewPanel), and the profile beside which it says "saved"
   (CustomerAccountApp). *)
THEOREM WhatIsSaidIsKept == MCSpec => []SaidIsKept
<1> DEFINE One == part = "reviews" => Reviewing!ThanksInv
           Two == part = "home" => Home!StoredInv
<1>1. MCInit => One /\ Two
  BY ReviewsStart, HomeStart DEF MCInit
<1>2. One /\ Two /\ [MCNext]_pageVars => One' /\ Two'
  <2>1. SUFFICES ASSUME One, Two, [MCNext]_pageVars
                 PROVE  /\ part' = "reviews" => Reviewing!ThanksInv'
                        /\ part' = "home" => Home!StoredInv'
    OBVIOUS
  <2>2. CASE MCNext
    BY <2>1, <2>2, ReviewsStep, HomeStep DEF MCNext
  <2>3. CASE UNCHANGED pageVars
    <3>1. part' = part /\ v1' = v1 /\ v3' = v3 /\ v7' = v7 /\ v8' = v8 /\ v9' = v9
      BY <2>3 DEF pageVars
    <3>2. part' = "reviews" => Reviewing!ThanksInv'
      BY <2>1, <3>1, ReviewsUntouched
    <3>3. ASSUME part' = "home" PROVE Home!StoredInv'
      <4>1. Home!StoredInv
        BY <2>1, <3>1, <3>3
      <4>2. QED
        BY <3>1, <4>1 DEF Home!StoredInv, Home!NoteIsTrue, Home!WasWritten
    <3>4. QED
      BY <3>2, <3>3
  <2>4. QED
    BY <2>1, <2>2, <2>3
<1>3. One /\ Two => SaidIsKept
  BY DEF Reviewing!ThanksInv, Home!StoredInv, Home!NoteIsTrue, SaidIsKept,
         Reviewing!ThanksForKept, Home!SavedIsStored, Home!dirty
<1>4. QED
  BY <1>1, <1>2, <1>3, PTL DEF MCSpec

-----------------------------------------------------------------------------
(* The salon's catalogue *)

(* Marking a call leaves what it asks for. *)
LEMMA CatalogueMarks ==
    ASSUME NEW D, NEW M, NEW c, Catalogue(D, M)!OfOneRow(c), NEW d, NEW x, NEW y,
           \/ d = [c EXCEPT !.done = x] \/ d = [c EXCEPT !.done = x, !.result = y]
           \/ d = [c EXCEPT !.result = y] \/ d = [c EXCEPT !.mine = x]
    PROVE  Catalogue(D, M)!OfOneRow(d)
<1>1. {"kind", "of", "input", "chosen", "mine", "done", "result"} \subseteq DOMAIN c
  BY DEF Catalogue!OfOneRow
<1>2. DOMAIN d = DOMAIN c /\ d.kind = c.kind /\ d.chosen = c.chosen
  BY <1>1
<1>3. QED
  BY <1>1, <1>2 DEF Catalogue!OfOneRow

LEMMA CatalogueCall ==
    ASSUME NEW D, NEW M, NEW kind, NEW of, NEW input, NEW chosen, NEW c,
           c = Catalogue(D, M)!Call(kind, of, input, chosen),
           kind = "row" => \E s \in Sole : chosen = {s}
    PROVE  Catalogue(D, M)!OfOneRow(c)
BY DEF Catalogue!Call, Catalogue!OfOneRow

LEMMA CatalogueLoad ==
    ASSUME NEW D, NEW M
    PROVE  Catalogue(D, M)!OfOneRow(Catalogue(D, M)!Load)
<1>1. PICK c : c = Catalogue(D, M)!Call("load", Idle, Idle, {})
  OBVIOUS
<1>2. Catalogue(D, M)!OfOneRow(c)
  BY <1>1, CatalogueCall
<1>3. PICK y : Catalogue(D, M)!Load = [c EXCEPT !.result = y]
  BY <1>1 DEF Catalogue!Load
<1>4. QED
  BY <1>2, <1>3, CatalogueMarks

LEMMA CatalogueOrphans ==
    ASSUME NEW D, NEW M, NEW rest, \A c \in rest : Catalogue(D, M)!OfOneRow(c)
    PROVE  \A d \in Catalogue(D, M)!Orphaned(rest) : Catalogue(D, M)!OfOneRow(d)
<1> SUFFICES ASSUME NEW d \in Catalogue(D, M)!Orphaned(rest)
             PROVE  Catalogue(D, M)!OfOneRow(d)
  OBVIOUS
<1>1. PICK c \in rest : d = c \/ d = [c EXCEPT !.mine = FALSE]
  BY DEF Catalogue!Orphaned
<1>2. QED
  BY <1>1, CatalogueMarks

(* A step after which every call is an old one or in order *)
LEMMA CatalogueGoesOn ==
    ASSUME NEW D, NEW M, Catalogue(D, M)!RowsAreOne, v3' = [o \in DOMAIN v3' |-> v3'[o]],
           \A d \in v10' : d \in v10 \/ Catalogue(D, M)!OfOneRow(d)
    PROVE  Catalogue(D, M)!RowsAreOne'
<1>1. \A d \in v10' : Catalogue(D, M)!OfOneRow(d)
  BY DEF Catalogue!RowsAreOne
<1>2. QED
  BY <1>1 DEF Catalogue!RowsAreOne, Catalogue!OfOneRow

LEMMA CatalogueServes ==
    ASSUME NEW D, NEW M, Catalogue(D, M)!RowsAreOne, NEW c \in v10, Catalogue(D, M)!Serves(c)
    PROVE  Catalogue(D, M)!RowsAreOne' /\ Catalogue(D, M)!KeepsSettings
<1>0. Catalogue(D, M)!OfOneRow(c) /\ v3 = [o \in DOMAIN v3 |-> v3[o]]
  BY DEF Catalogue!RowsAreOne
<1>1. ASSUME NEW which \in {"own", "other"}, Catalogue(D, M)!list(c, which)
      PROVE  Catalogue(D, M)!RowsAreOne' /\ Catalogue(D, M)!KeepsSettings
  <2>1. v3' = v3
    BY <1>1 DEF Catalogue!list, Catalogue!Store
  <2>2. PICK d, x, y : /\ d = [c EXCEPT !.result = y]
                       /\ v10' = (v10 \ {c}) \cup {[d EXCEPT !.done = x]}
    BY <1>1 DEF Catalogue!list
  <2>3. Catalogue(D, M)!OfOneRow([d EXCEPT !.done = x])
    BY <1>0, <2>2, CatalogueMarks
  <2>4. QED
    BY <1>0, <2>1, <2>2, <2>3, CatalogueGoesOn DEF Catalogue!KeepsSettings
<1>2. ASSUME NEW x, Catalogue(D, M)!save(c, x)
      PROVE  Catalogue(D, M)!RowsAreOne' /\ Catalogue(D, M)!KeepsSettings
  <2>1. v10' = (v10 \ {c}) \cup {[c EXCEPT !.done = TRUE]}
    BY <1>2 DEF Catalogue!save
  <2>2. Catalogue(D, M)!OfOneRow([c EXCEPT !.done = TRUE])
    BY <1>0, CatalogueMarks
  <2>3. v3' = [o \in DOMAIN v3 |->
          CASE o[1] = x -> Catalogue(D, M)!Reassigned(v3[o], o[2] \in c.chosen)
            [] o[2] = x -> Catalogue(D, M)!Reassigned(v3[o], o[1] \in c.chosen)
            [] OTHER -> v3[o]]
    BY <1>2 DEF Catalogue!save
  <2>4. v3' = [o \in DOMAIN v3' |-> v3'[o]]
    BY <2>3
  <2>5. ASSUME NEW o \in DOMAIN v3, v3[o] # Idle PROVE v3'[o] \in {v3[o], Idle}
    <3>1. Catalogue(D, M)!Reassigned(v3[o], o[2] \in c.chosen) \in {v3[o], Idle}
      BY <2>5 DEF Catalogue!Reassigned
    <3>2. Catalogue(D, M)!Reassigned(v3[o], o[1] \in c.chosen) \in {v3[o], Idle}
      BY <2>5 DEF Catalogue!Reassigned
    <3>3. v3'[o] \in {Catalogue(D, M)!Reassigned(v3[o], o[2] \in c.chosen),
                     Catalogue(D, M)!Reassigned(v3[o], o[1] \in c.chosen), v3[o]}
      BY <2>3
    <3>4. QED
      BY <3>1, <3>2, <3>3
  <2>6. QED
    BY <2>1, <2>2, <2>4, <2>5, CatalogueGoesOn DEF Catalogue!KeepsSettings
<1>3. CASE Catalogue(D, M)!listProfessionalServices(c)
  <2>1. PICK y : v10' = (v10 \ {c}) \cup {[c EXCEPT !.done = TRUE, !.result = y]}
    BY <1>3 DEF Catalogue!listProfessionalServices
  <2>2. v3' = v3
    BY <1>3 DEF Catalogue!listProfessionalServices, Catalogue!Store
  <2>3. Catalogue(D, M)!OfOneRow([c EXCEPT !.done = TRUE, !.result = y])
    BY <1>0, CatalogueMarks
  <2>4. QED
    BY <1>0, <2>1, <2>2, <2>3, CatalogueGoesOn DEF Catalogue!KeepsSettings
<1>4. CASE Catalogue(D, M)!updateProfessionalService(c)
  <2>1. PICK y : v10' = (v10 \ {c}) \cup {[c EXCEPT !.done = TRUE, !.result = y]}
    BY <1>4 DEF Catalogue!updateProfessionalService
  <2>2. PICK s \in c.chosen :
           v3' = [v3 EXCEPT ![<<c.of, s>>] = IF c.input.assigned THEN c.input.setting ELSE Idle]
    BY <1>4 DEF Catalogue!updateProfessionalService
  <2>3. c.kind = "row" /\ c.chosen = {s}
    BY <1>0, <1>4 DEF Catalogue!updateProfessionalService, Catalogue!OfOneRow
  <2>4. Catalogue(D, M)!OfOneRow([c EXCEPT !.done = TRUE, !.result = y])
    BY <1>0, CatalogueMarks
  <2>5. v3' = [o \in DOMAIN v3' |-> v3'[o]]
    BY <1>0, <2>2
  <2>6. ASSUME NEW o \in DOMAIN v3, v3'[o] \notin {v3[o], Idle}
        PROVE  c.of = o[1] /\ c.chosen = {o[2]} /\ c.input.setting = v3'[o]
    <3>1. o = <<c.of, s>>
      BY <1>0, <2>2, <2>6
    <3>2. v3'[o] = IF c.input.assigned THEN c.input.setting ELSE Idle
      BY <1>0, <2>2, <2>6, <3>1
    <3>3. QED
      BY <2>3, <2>6, <3>1, <3>2
  <2>7. QED
    BY <2>1, <2>3, <2>4, <2>5, <2>6, CatalogueGoesOn DEF Catalogue!KeepsSettings
<1>5. QED
  BY <1>1, <1>2, <1>3, <1>4 DEF Catalogue!Serves

LEMMA CatalogueStep ==
    ASSUME NEW D, NEW M, Catalogue(D, M)!RowsAreOne, Catalogue(D, M)!DeskNext
    PROVE  Catalogue(D, M)!RowsAreOne' /\ Catalogue(D, M)!KeepsSettings
<1> DEFINE Goal == Catalogue(D, M)!RowsAreOne' /\ Catalogue(D, M)!KeepsSettings
<1>0. Catalogue(D, M)!OfOneRow(Catalogue(D, M)!Load) /\ v3 = [o \in DOMAIN v3 |-> v3[o]]
      /\ \A c \in v10 : Catalogue(D, M)!OfOneRow(c)
  BY CatalogueLoad DEF Catalogue!RowsAreOne
<1>a. ASSUME v3' = v3, \A d \in v10' : d \in v10 \/ Catalogue(D, M)!OfOneRow(d)
      PROVE  Goal
  BY <1>0, <1>a, CatalogueGoesOn DEF Catalogue!KeepsSettings
<1> SUFFICES Goal
  OBVIOUS
<1> HIDE DEF Goal
<1>1. ASSUME NEW c \in v10, \/ Catalogue(D, M)!Loaded(c) \/ Catalogue(D, M)!LoadFails(c)
                            \/ Catalogue(D, M)!SaveFails(c)
                            \/ Catalogue(D, M)!SettingsCome(c) \/ Catalogue(D, M)!SettingsFail(c)
      PROVE  Goal
  <2>1. v3' = v3 /\ v10' = v10 \ {c}
    BY <1>1 DEF Catalogue!Loaded, Catalogue!LoadFails, Catalogue!SaveFails,
                Catalogue!SettingsCome, Catalogue!SettingsFail, Catalogue!Store
  <2>2. QED
    BY <1>a, <2>1
<1>2. ASSUME NEW c \in v10, Catalogue(D, M)!Saved(c) PROVE Goal
  <2>1. v3' = v3 /\ v10' = Catalogue(D, M)!Orphaned((v10 \ {c}) \cup {Catalogue(D, M)!Load})
    BY <1>2 DEF Catalogue!Saved, Catalogue!Closed, Catalogue!Store
  <2>2. QED
    BY <1>0, <1>a, <2>1, CatalogueOrphans
<1>3. CASE Catalogue(D, M)!close
  <2>1. v3' = v3 /\ v10' = Catalogue(D, M)!Orphaned(v10)
    BY <1>3 DEF Catalogue!close, Catalogue!Closed, Catalogue!Store
  <2>2. QED
    BY <1>0, <1>a, <2>1, CatalogueOrphans
<1>4. CASE Catalogue(D, M)!retry
  <2>1. v3' = v3 /\ v10' = v10 \cup {Catalogue(D, M)!Load}
    BY <1>4 DEF Catalogue!retry, Catalogue!Store
  <2>2. QED
    BY <1>0, <1>a, <2>1
<1>5. CASE Catalogue(D, M)!submit
  <2>1. v3' = v3 /\ v10' = v10 \cup {Catalogue(D, M)!Call("save", v7.of, v7.input, v7.chosen)}
    BY <1>5 DEF Catalogue!submit, Catalogue!Store
  <2>2. QED
    BY <1>a, <2>1, CatalogueCall
<1>6. ASSUME NEW x, NEW y,
             \/ Catalogue(D, M)!openNew \/ Catalogue(D, M)!openServiceEditor(x)
             \/ Catalogue(D, M)!editService(x) \/ Catalogue(D, M)!editProfessional(x)
             \/ Catalogue(D, M)!toggleProfessional(x) \/ Catalogue(D, M)!toggleService(x)
             \/ Catalogue(D, M)!assign(x, y) \/ Catalogue(D, M)!configure(x, y)
      PROVE  Goal
  <2>1. v3' = v3 /\ v10' = v10
    BY <1>6 DEF Catalogue!openNew, Catalogue!openServiceEditor, Catalogue!Opened,
                Catalogue!editService, Catalogue!editProfessional, Catalogue!Types,
                Catalogue!toggleProfessional, Catalogue!toggleService, Catalogue!Toggles,
                Catalogue!assign, Catalogue!configure, Catalogue!change, Catalogue!Store
  <2>2. QED
    BY <1>a, <2>1
<1>7. ASSUME NEW p, Catalogue(D, M)!openProfessionalEditor(p) PROVE Goal
  <2>1. v3' = v3 /\ v10' = v10 \cup {Catalogue(D, M)!Call("settings", p, Idle, {})}
    BY <1>7 DEF Catalogue!openProfessionalEditor, Catalogue!Opened, Catalogue!Store
  <2>2. QED
    BY <1>a, <2>1, CatalogueCall
<1>8. ASSUME NEW s \in Sole, Catalogue(D, M)!saveRow(s) PROVE Goal
  <2>1. v3' = v3 /\ v10' = v10 \cup {Catalogue(D, M)!Call("row", v7.of, v8[s], {s})}
    BY <1>8 DEF Catalogue!saveRow, Catalogue!Store
  <2>2. Catalogue(D, M)!OfOneRow(Catalogue(D, M)!Call("row", v7.of, v8[s], {s}))
    BY CatalogueCall
  <2>3. QED
    BY <1>a, <2>1, <2>2
<1>9. ASSUME NEW c \in v10, Catalogue(D, M)!Serves(c) PROVE Goal
  BY <1>9, CatalogueServes DEF Goal
<1>10. QED
  BY <1>1, <1>2, <1>3, <1>4, <1>5, <1>6, <1>7, <1>8, <1>9
     DEF Catalogue!DeskNext, Catalogue!Arrives

LEMMA CatalogueStart ==
    ASSUME NEW D, NEW M, Catalogue(D, M)!DeskInit
    PROVE  Catalogue(D, M)!RowsAreOne
<1>1. v10 = {Catalogue(D, M)!Load}
  BY DEF Catalogue!DeskInit
<1>2. v3 = [o \in DOMAIN v3 |-> v3[o]]
  BY DEF Catalogue!DeskInit
<1>3. QED
  BY <1>1, <1>2, CatalogueLoad DEF Catalogue!RowsAreOne

LEMMA CatalogueUntouched ==
    ASSUME NEW D, NEW M, Catalogue(D, M)!RowsAreOne, v3' = v3, v10' = v10
    PROVE  Catalogue(D, M)!RowsAreOne' /\ Catalogue(D, M)!KeepsSettings
BY DEF Catalogue!RowsAreOne, Catalogue!OfOneRow, Catalogue!KeepsSettings

-----------------------------------------------------------------------------
(* The salon's page of appointments *)

LEMMA DeskAppointments ==
    ASSUME NEW S, NEW B, NEW V
    PROVE  Desk(S, B, V)!Appointment = 1..Few
BY DEF Desk!Appointment

(* What is known stays known, while revisions grow. *)
LEMMA DeskKnown ==
    ASSUME NEW S, NEW B, NEW V, Desk(S, B, V)!RowsInv, Desk(S, B, V)!RowsMoveOn,
           NEW a \in Desk(S, B, V)!Appointment, NEW r, Desk(S, B, V)!Knows(a, r)
    PROVE  Desk(S, B, V)!Knows(a, r)'
BY DEF Desk!RowsInv, Desk!RowsMoveOn, Desk!Knows, Desk!RowOK, Desk!Follows

LEMMA DeskRowsStay ==
    ASSUME NEW S, NEW B, NEW V, Desk(S, B, V)!RowsInv, v1' = v1
    PROVE  Desk(S, B, V)!RowsMoveOn
BY DEF Desk!RowsInv, Desk!RowsMoveOn, Desk!RowOK, Desk!Follows

LEMMA DeskBoardStays ==
    ASSUME NEW S, NEW B, B \subseteq 1..Few, NEW V,
           Desk(S, B, V)!RowsInv, Desk(S, B, V)!RowsMoveOn,
           NEW b, Desk(S, B, V)!KnowsBoard(b)
    PROVE  Desk(S, B, V)!KnowsBoard(b)'
BY DeskAppointments, DeskKnown DEF Desk!KnowsBoard, Desk!KnowsRows

LEMMA DeskAllStay ==
    ASSUME NEW S, NEW B, B \subseteq 1..Few, NEW V,
           Desk(S, B, V)!RowsInv, Desk(S, B, V)!RowsMoveOn,
           NEW b, Desk(S, B, V)!KnowsRows(b)
    PROVE  Desk(S, B, V)!KnowsRows(b)'
BY DeskAppointments, DeskKnown DEF Desk!KnowsRows

LEMMA DeskListStays ==
    ASSUME NEW S, NEW B, NEW V, Desk(S, B, V)!RowsInv, Desk(S, B, V)!RowsMoveOn,
           NEW list, Desk(S, B, V)!KnowsAll(list)
    PROVE  Desk(S, B, V)!KnowsAll(list)'
BY DeskAppointments, DeskKnown DEF Desk!KnowsAll

LEMMA DeskOneStays ==
    ASSUME NEW S, NEW B, NEW V, Desk(S, B, V)!RowsInv, Desk(S, B, V)!RowsMoveOn,
           NEW one, Desk(S, B, V)!KnowsOne(one)
    PROVE  Desk(S, B, V)!KnowsOne(one)'
BY DeskAppointments, DeskKnown DEF Desk!KnowsOne

LEMMA DeskCallStays ==
    ASSUME NEW S, NEW B, B \subseteq 1..Few, NEW V,
           Desk(S, B, V)!RowsInv, Desk(S, B, V)!RowsMoveOn,
           v4' = v4 \/ Desk(S, B, V)!KnowsRows(v4)',
           NEW c, Desk(S, B, V)!CallKnows(c)
    PROVE  Desk(S, B, V)!CallKnows(c)'
<1>0. ASSUME c.kind = "endSeries" PROVE Desk(S, B, V)!KnowsRows(v4)'
  <2>1. PICK b : b = v4
    OBVIOUS
  <2>2. Desk(S, B, V)!KnowsRows(b)'
    BY <1>0, <2>1, DeskAllStay DEF Desk!CallKnows
  <2>3. QED
    BY <2>1, <2>2 DEF Desk!KnowsRows, Desk!Knows
<1>1. ASSUME c.kind \in Desk(S, B, V)!Writing \cup {"preview"}
      PROVE  c.of \in Desk(S, B, V)!Appointment /\ Desk(S, B, V)!Knows(c.of, c.seen)'
  BY <1>1, DeskKnown DEF Desk!CallKnows
<1>2. ASSUME c.done, c.kind \in Desk(S, B, V)!Writing
      PROVE  Desk(S, B, V)!Knows(c.of, c.result)'
  BY <1>2, DeskKnown DEF Desk!CallKnows
<1>3. ASSUME c.done, c.kind = "board" PROVE Desk(S, B, V)!KnowsRows(c.result)'
  BY <1>3, DeskAllStay DEF Desk!CallKnows
<1>4. ASSUME c.done, c.kind \in {"week", "agenda"} PROVE Desk(S, B, V)!KnowsAll(c.result)'
  BY <1>4, DeskListStays DEF Desk!CallKnows
<1>5. QED
  BY <1>0, <1>1, <1>2, <1>3, <1>4, DeskAppointments DEF Desk!CallKnows, Desk!Writing, Desk!Actions,
     Desk!Visits, Desk!Editors

LEMMA DeskKeeps ==
    ASSUME NEW S, NEW B, B \subseteq 1..Few, NEW V,
           Desk(S, B, V)!DeskInv, Desk(S, B, V)!RowsMoveOn,
           v4' = v4 \/ Desk(S, B, V)!KnowsRows(v4)',
           v6' = v6 \/ Desk(S, B, V)!KnowsAll(v6)',
           {"rows", "failed"} \subseteq DOMAIN v5',
           v5'.rows = v5.rows \/ Desk(S, B, V)!KnowsAll(v5.rows)',
           v8' = v8 \/ Desk(S, B, V)!KnowsOne(v8)',
           v11' = v11 \/ Desk(S, B, V)!KnowsOne(v11)',
           \A c \in v12' : c \in v12 \/ Desk(S, B, V)!CallKnows(c)'
    PROVE  Desk(S, B, V)!DeskInv'
<1>1. Desk(S, B, V)!RowsInv /\ Desk(S, B, V)!RowsInv'
  BY DEF Desk!DeskInv, Desk!RowsInv, Desk!RowsMoveOn, Desk!RowOK
<1>2. Desk(S, B, V)!KnowsBoard(v4)'
  <2>1. PICK b : b = v4
    OBVIOUS
  <2>2. Desk(S, B, V)!KnowsBoard(b)'
    BY <1>1, <2>1, DeskBoardStays DEF Desk!DeskInv
  <2>3. QED
    BY <2>1, <2>2 DEF Desk!KnowsBoard, Desk!KnowsRows, Desk!Knows
<1>3. Desk(S, B, V)!KnowsAll(v6)'
  <2>1. PICK list : list = v6
    OBVIOUS
  <2>2. Desk(S, B, V)!KnowsAll(list)'
    BY <1>1, <2>1, DeskListStays DEF Desk!DeskInv
  <2>3. QED
    BY <2>1, <2>2 DEF Desk!KnowsAll, Desk!Knows
<1>4. Desk(S, B, V)!KnowsAll(v5.rows)'
  <2>1. PICK list : list = v5.rows
    OBVIOUS
  <2>2. Desk(S, B, V)!KnowsAll(list)'
    BY <1>1, <2>1, DeskListStays DEF Desk!DeskInv
  <2>3. QED
    BY <2>1, <2>2 DEF Desk!KnowsAll, Desk!Knows
<1>5. Desk(S, B, V)!KnowsOne(v8)'
  <2>1. PICK one : one = v8
    OBVIOUS
  <2>2. Desk(S, B, V)!KnowsOne(one)'
    BY <1>1, <2>1, DeskOneStays DEF Desk!DeskInv
  <2>3. QED
    BY <2>1, <2>2 DEF Desk!KnowsOne, Desk!Knows
<1>6. Desk(S, B, V)!KnowsOne(v11)'
  <2>1. PICK one : one = v11
    OBVIOUS
  <2>2. Desk(S, B, V)!KnowsOne(one)'
    BY <1>1, <2>1, DeskOneStays DEF Desk!DeskInv
  <2>3. QED
    BY <2>1, <2>2 DEF Desk!KnowsOne, Desk!Knows
<1>7. \A c \in v12' : Desk(S, B, V)!CallKnows(c)'
  BY <1>1, DeskCallStays DEF Desk!DeskInv
<1>8. QED
  BY <1>1, <1>2, <1>3, <1>4, <1>5, <1>6, <1>7 DEF Desk!DeskInv

(* What is done to calls *)

LEMMA DeskMarks ==
    ASSUME NEW S, NEW B, NEW V, NEW c, Desk(S, B, V)!CallKnows(c)', NEW x, NEW d,
           d = [c EXCEPT !.mine = x] \/ d = [c EXCEPT !.latest = x]
    PROVE  Desk(S, B, V)!CallKnows(d)'
<1>1. {"kind", "of", "input", "seen", "mine", "latest", "done", "result"} \subseteq DOMAIN c
  BY DEF Desk!CallKnows
<1>2. /\ DOMAIN d = DOMAIN c /\ d.kind = c.kind /\ d.of = c.of /\ d.seen = c.seen
      /\ d.done = c.done /\ d.result = c.result
  BY <1>1
<1>3. QED
  BY <1>1, <1>2 DEF Desk!CallKnows

LEMMA DeskNew ==
    ASSUME NEW S, NEW B, NEW V, NEW kind, NEW of, NEW input, NEW seen,
           kind \in Desk(S, B, V)!Writing \cup {"preview"} =>
              of \in Desk(S, B, V)!Appointment /\ Desk(S, B, V)!Knows(of, seen)',
           kind = "endSeries" => Desk(S, B, V)!KnowsRows(v4)',
           NEW c, c = Desk(S, B, V)!Call(kind, of, input, seen)
    PROVE  Desk(S, B, V)!CallKnows(c)'
<1>1. /\ {"kind", "of", "input", "seen", "mine", "latest", "done", "result"} \subseteq DOMAIN c
      /\ c.kind = kind /\ c.of = of /\ c.seen = seen /\ c.done = FALSE
  BY DEF Desk!Call
<1>2. (c.kind \in Desk(S, B, V)!Writing \cup {"preview"})
         => c.of \in Desk(S, B, V)!Appointment /\ Desk(S, B, V)!Knows(c.of, c.seen)'
  BY <1>1
<1>3. QED
  BY <1>1, <1>2 DEF Desk!CallKnows, Desk!Writing, Desk!Actions, Desk!Visits, Desk!Editors,
     Desk!Appointment

(* A call that only asks *)
LEMMA DeskAsks ==
    ASSUME NEW S, NEW B, NEW V, NEW kind,
           kind \in {"board", "week", "agenda", "slots", "series"}, NEW of,
           NEW c, c = Desk(S, B, V)!Call(kind, of, Idle, Idle)
    PROVE  Desk(S, B, V)!CallKnows(c)'
<1>1. kind \notin Desk(S, B, V)!Writing \cup {"preview"}
  BY DEF Desk!Writing, Desk!Actions, Desk!Visits, Desk!Editors
<1>2. QED
  BY <1>1, DeskNew

LEMMA DeskOrphans ==
    ASSUME NEW S, NEW B, NEW V, NEW kinds, NEW rest,
           \A c \in rest : Desk(S, B, V)!CallKnows(c)'
    PROVE  \A d \in Desk(S, B, V)!Orphaned(kinds, rest) : Desk(S, B, V)!CallKnows(d)'
<1> SUFFICES ASSUME NEW d \in Desk(S, B, V)!Orphaned(kinds, rest)
             PROVE  Desk(S, B, V)!CallKnows(d)'
  OBVIOUS
<1>1. PICK c, x : c \in rest /\ d = [c EXCEPT !.mine = x]
  BY DEF Desk!Orphaned
<1>2. QED
  BY <1>1, DeskMarks

LEMMA DeskDrops ==
    ASSUME NEW S, NEW B, NEW V, NEW kinds, NEW rest
    PROVE  Desk(S, B, V)!Dropped(kinds, rest) \subseteq rest
BY DEF Desk!Dropped

LEMMA DeskRefreshing ==
    ASSUME NEW S, NEW B, NEW V, NEW kind, kind \in {"board", "week"}, NEW of, NEW rest,
           \A c \in rest : Desk(S, B, V)!CallKnows(c)'
    PROVE  \A d \in Desk(S, B, V)!Refreshing(kind, of, rest) : Desk(S, B, V)!CallKnows(d)'
<1> SUFFICES ASSUME NEW d \in Desk(S, B, V)!Refreshing(kind, of, rest)
             PROVE  Desk(S, B, V)!CallKnows(d)'
  OBVIOUS
<1>1. \/ \E c, x : c \in rest /\ d = [c EXCEPT !.latest = x]
      \/ d = Desk(S, B, V)!Call(kind, of, Idle, Idle)
  BY DEF Desk!Refreshing
<1>2. QED
  BY <1>1, DeskMarks, DeskAsks

LEMMA DeskWithout ==
    ASSUME NEW S, NEW B, NEW V, NEW kind, NEW rest,
           \A c \in rest : Desk(S, B, V)!CallKnows(c)'
    PROVE  \A d \in Desk(S, B, V)!Without(kind, rest) : Desk(S, B, V)!CallKnows(d)'
BY DeskDrops, DeskOrphans DEF Desk!Without

LEMMA DeskAsking ==
    ASSUME NEW S, NEW B, NEW V, NEW id, NEW rest,
           \A c \in rest : Desk(S, B, V)!CallKnows(c)'
    PROVE  \A d \in Desk(S, B, V)!Asking(id, rest) : Desk(S, B, V)!CallKnows(d)'
<1>1. ASSUME NEW d, d = Desk(S, B, V)!Call("slots", id, Idle, Idle)
      PROVE  Desk(S, B, V)!CallKnows(d)'
  BY <1>1, DeskAsks
<1>2. QED
  BY <1>1, DeskDrops DEF Desk!Asking

(* What the drawer shows is known, and so is what is asked for it. *)
LEMMA DeskShows ==
    ASSUME NEW S, NEW B, B \subseteq 1..Few, NEW V, NEW to, NEW b, NEW kept, NEW rest,
           Desk(S, B, V)!Shows(to, b, kept, rest),
           Desk(S, B, V)!KnowsOne(to)', Desk(S, B, V)!KnowsBoard(b)',
           \A c \in rest : Desk(S, B, V)!CallKnows(c)'
    PROVE  Desk(S, B, V)!KnowsOne(v8)' /\ \A c \in v12' : Desk(S, B, V)!CallKnows(c)'
<1>1. Desk(S, B, V)!KnowsOne(v8)'
  <2>1. v8' = Desk(S, B, V)!Fresh(to, b)
    BY DEF Desk!Shows
  <2>2. CASE to = Idle \/ b = Idle \/ to.id \notin B
    <3>1. v8' = to
      BY <2>1, <2>2 DEF Desk!Fresh
    <3>2. QED
      BY <3>1 DEF Desk!KnowsOne, Desk!Knows
  <2>3. CASE to # Idle /\ b # Idle /\ to.id \in B
    <3> DEFINE one == [to EXCEPT !.row = b.rows[to.id]]
    <3>1. v8' = one
      BY <2>1, <2>3 DEF Desk!Fresh
    <3>2. {"id", "row"} \subseteq DOMAIN to /\ to.id \in Desk(S, B, V)!Appointment
      BY <2>3, DeskAppointments DEF Desk!KnowsOne
    <3>3. {"id", "row"} \subseteq DOMAIN one /\ one.id = to.id /\ one.row = b.rows[to.id]
      BY <3>2
    <3> HIDE DEF one
    <3>4. Desk(S, B, V)!Knows(to.id, b.rows[to.id])'
      BY <2>3 DEF Desk!KnowsBoard, Desk!KnowsRows
    <3>5. PICK row, id : row = b.rows[to.id] /\ id = to.id
      OBVIOUS
    <3>6. Desk(S, B, V)!Knows(id, row)'
      BY <3>4, <3>5
    <3>7. QED
      BY <3>1, <3>2, <3>3, <3>5, <3>6, DeskAppointments DEF Desk!KnowsOne, Desk!Knows
  <2>4. QED
    BY <2>2, <2>3
<1>2. \A c \in v12' : Desk(S, B, V)!CallKnows(c)'
  <2> DEFINE panel == v8 # Idle /\ to # Idle /\ {v8.id, to.id} \subseteq S
             stays == IF panel THEN rest
                      ELSE Desk(S, B, V)!Dropped({"series"},
                                                 Desk(S, B, V)!Orphaned({"endSeries"}, rest))
             left == IF to # Idle THEN stays
                     ELSE Desk(S, B, V)!Dropped({"slots"},
                            Desk(S, B, V)!Orphaned(Desk(S, B, V)!Actions \cup Desk(S, B, V)!Visits
                                                     \cup Desk(S, B, V)!Editors, stays))
  <2>1. v12' = left \/ v12' = Desk(S, B, V)!Asking(to.id, left)
    BY DEF Desk!Shows
  <2>2. \A c \in stays : Desk(S, B, V)!CallKnows(c)'
    BY DeskDrops, DeskOrphans
  <2> HIDE DEF stays
  <2>3. \A c \in left : Desk(S, B, V)!CallKnows(c)'
    BY <2>2, DeskDrops, DeskOrphans
  <2> HIDE DEF left
  <2>4. QED
    BY <2>1, <2>3, DeskAsking
<1>3. QED
  BY <1>1, <1>2

-----------------------------------------------------------------------------
(* The server *)

(* A handler that writes one booking *)
LEMMA DeskDoes ==
    ASSUME NEW S, NEW B, B \subseteq 1..Few, NEW V, Desk(S, B, V)!DeskInv,
           NEW c \in v12, c.kind \in Desk(S, B, V)!Writing,
           c.kind \in {"reschedule", "move"} \cup Desk(S, B, V)!Visits =>
              v1[c.of].revision = c.seen.revision /\ v1[c.of].status = "CONFIRMED",
           NEW kinds, NEW row, Desk(S, B, V)!Does(c, kinds, row),
           {"status", "detail", "place", "missed", "revision"} \subseteq DOMAIN row,
           row.revision = v1[c.of].revision
    PROVE  Desk(S, B, V)!DeskInv' /\ Desk(S, B, V)!SeesWhatItWrites
<1>0. /\ {"kind", "of", "input", "seen", "mine", "latest", "done", "result"} \subseteq DOMAIN c
      /\ c.of \in Desk(S, B, V)!Appointment /\ Desk(S, B, V)!Knows(c.of, c.seen)
      /\ Desk(S, B, V)!RowsInv
  BY DEF Desk!DeskInv, Desk!CallKnows
<1> DEFINE new == [row EXCEPT !.revision = @ + 1]
<1>1. v1' = [v1 EXCEPT ![c.of] = new]
  BY DEF Desk!Does, Desk!Writes
<1>2. /\ {"status", "detail", "place", "missed", "revision"} \subseteq DOMAIN new
      /\ new.revision = v1[c.of].revision + 1
  OBVIOUS
<1> HIDE DEF new
<1>3. Desk(S, B, V)!RowsMoveOn
  BY <1>0, <1>1, <1>2 DEF Desk!RowsMoveOn, Desk!RowsInv, Desk!RowOK, Desk!Follows
<1>4. PICK r : r = v1'[c.of]
  OBVIOUS
<1> DEFINE d == [c EXCEPT !.done = TRUE, !.result = r]
<1>5. /\ v12' = (v12 \ {c}) \cup {d} /\ v4' = v4 /\ v5' = v5 /\ v6' = v6 /\ v8' = v8
      /\ v11' = v11
  BY <1>4 DEF Desk!Does, Desk!Lists, Desk!Drawer
<1>6. /\ {"kind", "of", "input", "seen", "mine", "latest", "done", "result"} \subseteq DOMAIN d
      /\ d.kind = c.kind /\ d.of = c.of /\ d.seen = c.seen /\ d.done = TRUE /\ d.result = r
  BY <1>0
<1> HIDE DEF d
<1>7. Desk(S, B, V)!CallKnows(d)'
  <2>1. Desk(S, B, V)!Knows(c.of, r)'
    BY <1>0, <1>3, <1>4 DEF Desk!RowsMoveOn, Desk!Knows, Desk!RowOK, Desk!Follows
  <2>2. Desk(S, B, V)!Knows(c.of, c.seen)'
    BY <1>0, <1>3, DeskKnown
  <2>3. PICK q : q = d
    OBVIOUS
  <2>4. /\ q.kind = c.kind /\ q.of = c.of /\ q.seen = c.seen /\ q.result = r
        /\ {"kind", "of", "input", "seen", "mine", "latest", "done", "result"} \subseteq DOMAIN q
    BY <1>6, <2>3
  <2>5. /\ q.kind # "board" /\ q.kind # "week" /\ q.kind # "agenda" /\ q.kind # "endSeries"
    BY <2>4 DEF Desk!Writing, Desk!Actions, Desk!Visits, Desk!Editors
  <2>6. Desk(S, B, V)!Knows(q.of, q.result)' /\ Desk(S, B, V)!Knows(q.of, q.seen)'
    BY <2>1, <2>2, <2>4
  <2>7. Desk(S, B, V)!CallKnows(q)'
    BY <1>0, <2>4, <2>5, <2>6, DeskAppointments DEF Desk!CallKnows
  <2>8. QED
    BY <1>5, <2>3, <2>7
<1>8. Desk(S, B, V)!DeskInv'
  BY <1>3, <1>5, <1>7, DeskKeeps DEF Desk!DeskInv
<1>9. ASSUME c.kind \in {"reschedule", "move"} \cup Desk(S, B, V)!Visits
      PROVE  Desk(S, B, V)!Matter(v1[c.of]) = Desk(S, B, V)!Matter(c.seen)
  BY <1>0, <1>9 DEF Desk!Knows, Desk!Follows, Desk!Matter
<1>10. v12 \ v12' \subseteq {c}
  BY <1>5
<1>11. Desk(S, B, V)!SeesWhatItWrites
  BY <1>9, <1>10 DEF Desk!SeesWhatItWrites
<1>12. QED
  BY <1>8, <1>11

(* A step that leaves the rows *)
LEMMA DeskPage ==
    ASSUME NEW S, NEW B, B \subseteq 1..Few, NEW V, Desk(S, B, V)!DeskInv, v1' = v1,
           v4' = v4 \/ Desk(S, B, V)!KnowsRows(v4)',
           v6' = v6 \/ Desk(S, B, V)!KnowsAll(v6)',
           {"rows", "failed"} \subseteq DOMAIN v5',
           v5'.rows = v5.rows \/ Desk(S, B, V)!KnowsAll(v5.rows)',
           v8' = v8 \/ Desk(S, B, V)!KnowsOne(v8)',
           v11' = v11 \/ Desk(S, B, V)!KnowsOne(v11)',
           \A c \in v12' : c \in v12 \/ Desk(S, B, V)!CallKnows(c)'
    PROVE  Desk(S, B, V)!DeskInv' /\ Desk(S, B, V)!SeesWhatItWrites
<1>1. Desk(S, B, V)!RowsMoveOn
  BY DeskRowsStay DEF Desk!DeskInv
<1>2. Desk(S, B, V)!DeskInv'
  BY <1>1, DeskKeeps
<1>3. Desk(S, B, V)!SeesWhatItWrites
  BY DEF Desk!SeesWhatItWrites
<1>4. QED
  BY <1>2, <1>3

(* What is known after it *)
LEMMA DeskStill ==
    ASSUME NEW S, NEW B, B \subseteq 1..Few, NEW V, Desk(S, B, V)!DeskInv, v1' = v1,
           v4' = v4 \/ Desk(S, B, V)!KnowsRows(v4)'
    PROVE  /\ Desk(S, B, V)!RowsInv /\ Desk(S, B, V)!RowsMoveOn
           /\ \A c \in v12 : Desk(S, B, V)!CallKnows(c)'
           /\ {"rows", "failed"} \subseteq DOMAIN v5
<1>1. Desk(S, B, V)!RowsInv /\ Desk(S, B, V)!RowsMoveOn
  BY DeskRowsStay DEF Desk!DeskInv
<1>2. QED
  BY <1>1, DeskCallStays DEF Desk!DeskInv

(* An answer that shows no row *)
LEMMA DeskAnswered ==
    ASSUME NEW S, NEW B, NEW V, NEW c, Desk(S, B, V)!CallKnows(c)', NEW x, NEW d,
           d = [c EXCEPT !.done = TRUE, !.result = x] \/ d = [c EXCEPT !.done = TRUE],
           c.kind \notin Desk(S, B, V)!Writing \cup {"board", "week", "agenda"}
    PROVE  Desk(S, B, V)!CallKnows(d)'
<1>1. {"kind", "of", "input", "seen", "mine", "latest", "done", "result"} \subseteq DOMAIN c
  BY DEF Desk!CallKnows
<1>2. /\ DOMAIN d = DOMAIN c /\ d.kind = c.kind /\ d.of = c.of /\ d.seen = c.seen
  BY <1>1
<1>3. QED
  BY <1>1, <1>2 DEF Desk!CallKnows, Desk!Writing, Desk!Actions, Desk!Visits, Desk!Editors

LEMMA DeskReads ==
    ASSUME NEW S, NEW B, B \subseteq 1..Few, NEW V, Desk(S, B, V)!DeskInv,
           NEW c \in v12, Desk(S, B, V)!read(c)
    PROVE  Desk(S, B, V)!DeskInv' /\ Desk(S, B, V)!SeesWhatItWrites
<1>0. PICK old, now, r :
         /\ old = v1 /\ now = v2
         /\ r = IF c.kind = "board" THEN [rows |-> [a \in B |-> old[a]], begun |-> now]
                ELSE IF c.kind = "series" THEN Idle ELSE old
  OBVIOUS
<1> DEFINE d == [c EXCEPT !.done = TRUE, !.result = r]
<1>1. /\ v1' = v1 /\ v12' = (v12 \ {c}) \cup {d} /\ v4' = v4 /\ v5' = v5 /\ v6' = v6
      /\ v8' = v8 /\ v11' = v11 /\ c.kind \in {"board", "week", "agenda", "series"}
  BY <1>0 DEF Desk!read, Desk!Server, Desk!Lists, Desk!Drawer
<1>2. /\ {"kind", "of", "input", "seen", "mine", "latest", "done", "result"} \subseteq DOMAIN c
      /\ Desk(S, B, V)!RowsInv /\ Desk(S, B, V)!RowsMoveOn
  BY <1>1, DeskStill DEF Desk!DeskInv, Desk!CallKnows
<1>3. ASSUME NEW a \in 1..Few PROVE Desk(S, B, V)!Knows(a, old[a])'
  <2>1. Desk(S, B, V)!RowOK(old[a]) /\ v1'[a] = old[a]
    BY <1>0, <1>1, <1>2, DeskAppointments DEF Desk!RowsInv
  <2>2. QED
    BY <2>1 DEF Desk!Knows, Desk!RowOK, Desk!Follows
<1>4. c.kind = "board" => Desk(S, B, V)!KnowsRows(r)'
  <2>1. c.kind = "board" => r.rows = [a \in B |-> old[a]]
    BY <1>0
  <2>2. QED
    BY <1>3, <2>1 DEF Desk!KnowsRows
<1>5. c.kind \in {"week", "agenda"} => Desk(S, B, V)!KnowsAll(r)'
  <2>1. c.kind \in {"week", "agenda"} => r = old
    BY <1>0
  <2>2. QED
    BY <1>3, <2>1, DeskAppointments DEF Desk!KnowsAll
<1>6. PICK q : q = d
  OBVIOUS
<1>7. /\ {"kind", "of", "input", "seen", "mine", "latest", "done", "result"} \subseteq DOMAIN q
      /\ q.kind = c.kind /\ q.done /\ q.result = r
  BY <1>2, <1>6
<1>8. c.kind \notin Desk(S, B, V)!Writing \cup {"preview", "endSeries"}
  BY <1>1 DEF Desk!Writing, Desk!Actions, Desk!Visits, Desk!Editors
<1>9. /\ q.kind = "board" => Desk(S, B, V)!KnowsRows(q.result)'
      /\ q.kind \in {"week", "agenda"} => Desk(S, B, V)!KnowsAll(q.result)'
  BY <1>4, <1>5, <1>7
<1>10. Desk(S, B, V)!CallKnows(q)'
  BY <1>7, <1>8, <1>9 DEF Desk!CallKnows, Desk!Writing, Desk!Actions, Desk!Visits, Desk!Editors
<1>11. v12' = (v12 \ {c}) \cup {q} /\ {"rows", "failed"} \subseteq DOMAIN v5
  BY <1>1, <1>6 DEF Desk!DeskInv
<1> HIDE DEF d
<1>12. QED
  BY <1>1, <1>10, <1>11, DeskPage

LEMMA DeskEnds ==
    ASSUME NEW S, NEW B, B \subseteq 1..Few, NEW V, Desk(S, B, V)!DeskInv,
           NEW c \in v12, Desk(S, B, V)!cancelSeries(c)
    PROVE  Desk(S, B, V)!DeskInv' /\ Desk(S, B, V)!SeesWhatItWrites
<1>1. /\ v12' = (v12 \ {c}) \cup {[c EXCEPT !.done = TRUE]} /\ v4' = v4 /\ v5' = v5 /\ v6' = v6
      /\ v8' = v8 /\ v11' = v11 /\ c.kind = "endSeries"
  BY DEF Desk!cancelSeries, Desk!Lists, Desk!Drawer
<1>2. /\ {"kind", "of", "input", "seen", "mine", "latest", "done", "result"} \subseteq DOMAIN c
      /\ Desk(S, B, V)!RowsInv
  BY DEF Desk!DeskInv, Desk!CallKnows
<1>3. Desk(S, B, V)!RowsMoveOn
  <2>1. PICK ended :
          v1' = [a \in 1..Few |-> IF a \in ended
                   THEN [v1[a] EXCEPT !.status = "CLOSED", !.revision = @ + 1] ELSE v1[a]]
    BY DeskAppointments DEF Desk!cancelSeries
  <2>2. ASSUME NEW a \in 1..Few
        PROVE  Desk(S, B, V)!RowOK(v1'[a])
               /\ (v1'[a] = v1[a] \/ v1'[a].revision > v1[a].revision)
    <3>1. Desk(S, B, V)!RowOK(v1[a])
      BY <1>2, DeskAppointments DEF Desk!RowsInv
    <3>2. v1'[a] = v1[a]
          \/ v1'[a] = [v1[a] EXCEPT !.status = "CLOSED", !.revision = @ + 1]
      BY <2>1
    <3>3. ASSUME v1'[a] = [v1[a] EXCEPT !.status = "CLOSED", !.revision = @ + 1]
          PROVE  Desk(S, B, V)!RowOK(v1'[a]) /\ v1'[a].revision > v1[a].revision
      <4>1. DOMAIN v1'[a] = DOMAIN v1[a] /\ v1'[a].revision = v1[a].revision + 1
        BY <3>1, <3>3 DEF Desk!RowOK
      <4>2. QED
        BY <3>1, <4>1 DEF Desk!RowOK
    <3>4. QED
      BY <3>1, <3>2, <3>3 DEF Desk!RowOK
  <2>3. v1' = [a \in 1..Few |-> v1'[a]]
    BY <2>1
  <2>4. QED
    BY <2>2, <2>3, DeskAppointments DEF Desk!RowsMoveOn, Desk!RowOK, Desk!Follows
<1>4. Desk(S, B, V)!CallKnows(c)'
  BY <1>1, <1>2, <1>3, DeskCallStays DEF Desk!DeskInv
<1>5. PICK d : d = [c EXCEPT !.done = TRUE]
  OBVIOUS
<1>6. d.kind = "endSeries"
  BY <1>1, <1>2, <1>5
<1>7. Desk(S, B, V)!CallKnows(d)'
  BY <1>1, <1>4, <1>5, DeskAnswered DEF Desk!Writing, Desk!Actions, Desk!Visits, Desk!Editors
<1>8. v12' = (v12 \ {c}) \cup {d} /\ {"rows", "failed"} \subseteq DOMAIN v5
  BY <1>1, <1>5 DEF Desk!DeskInv
<1>9. Desk(S, B, V)!DeskInv'
  BY <1>1, <1>3, <1>7, <1>8, DeskKeeps
<1>10. v12 \ v12' \subseteq {c} /\ c.kind \notin {"reschedule", "move"} \cup Desk(S, B, V)!Visits
  BY <1>1, <1>8 DEF Desk!Visits
<1>11. Desk(S, B, V)!SeesWhatItWrites
  BY <1>10 DEF Desk!SeesWhatItWrites
<1>12. QED
  BY <1>9, <1>11

LEMMA DeskServes ==
    ASSUME NEW S, NEW B, B \subseteq 1..Few, NEW V, Desk(S, B, V)!DeskInv,
           NEW c \in v12, Desk(S, B, V)!Serves(c)
    PROVE  Desk(S, B, V)!DeskInv' /\ Desk(S, B, V)!SeesWhatItWrites
<1> DEFINE Goal == Desk(S, B, V)!DeskInv' /\ Desk(S, B, V)!SeesWhatItWrites
<1> SUFFICES Goal
  OBVIOUS
<1>a. ASSUME NEW kinds, NEW row, Desk(S, B, V)!Does(c, kinds, row),
             c.kind \in Desk(S, B, V)!Writing,
             c.kind \in {"reschedule", "move"} \cup Desk(S, B, V)!Visits =>
                v1[c.of].revision = c.seen.revision /\ v1[c.of].status = "CONFIRMED",
             {"status", "detail", "place", "missed", "revision"} \subseteq DOMAIN row,
             row.revision = v1[c.of].revision
      PROVE  Goal
  BY <1>a, DeskDoes
<1>b. ASSUME NEW x, v1' = v1, v4' = v4, v5' = v5, v6' = v6, v8' = v8, v11' = v11,
             v12' = (v12 \ {c}) \cup {[c EXCEPT !.done = TRUE, !.result = x]},
             c.kind \in {"preview", "slots"}
      PROVE  Goal
  <2>1. PICK d : d = [c EXCEPT !.done = TRUE, !.result = x]
    OBVIOUS
  <2>2. Desk(S, B, V)!CallKnows(c)' /\ {"rows", "failed"} \subseteq DOMAIN v5
    BY <1>b, DeskStill
  <2>3. Desk(S, B, V)!CallKnows(d)'
    BY <1>b, <2>1, <2>2, DeskAnswered DEF Desk!Writing, Desk!Actions, Desk!Visits, Desk!Editors
  <2>4. v12' = (v12 \ {c}) \cup {d}
    BY <1>b, <2>1
  <2>5. QED
    BY <1>b, <2>2, <2>3, <2>4, DeskPage
<1> HIDE DEF Goal
<1>0. c.kind \in Desk(S, B, V)!Writing =>
         {"status", "detail", "place", "missed", "revision"} \subseteq DOMAIN v1[c.of]
  BY DEF Desk!DeskInv, Desk!CallKnows, Desk!RowsInv, Desk!RowOK
<1>1. CASE Desk(S, B, V)!decide(c)
  <2>1. PICK s : Desk(S, B, V)!Does(c, {"approve", "reject"}, [v1[c.of] EXCEPT !.status = s])
    BY <1>1 DEF Desk!decide
  <2>2. c.kind \in Desk(S, B, V)!Actions
    BY <1>1 DEF Desk!decide, Desk!Actions
  <2>3. QED
    BY <1>0, <1>a, <2>1, <2>2 DEF Desk!Writing, Desk!Actions, Desk!Visits, Desk!Editors
<1>2. CASE Desk(S, B, V)!cancel(c)
  <2>1. Desk(S, B, V)!Does(c, {"cancel"}, [v1[c.of] EXCEPT !.status = "CLOSED"])
    BY <1>2 DEF Desk!cancel
  <2>2. c.kind \in Desk(S, B, V)!Actions
    BY <1>2 DEF Desk!cancel, Desk!Actions
  <2>3. QED
    BY <1>0, <1>a, <2>1, <2>2 DEF Desk!Writing, Desk!Actions, Desk!Visits, Desk!Editors
<1>3. CASE Desk(S, B, V)!markNoShow(c)
  <2>1. /\ Desk(S, B, V)!Does(c, {"mark"}, [v1[c.of] EXCEPT !.missed = TRUE])
        /\ v1[c.of].revision = c.seen.revision /\ v1[c.of].status = "CONFIRMED"
    BY <1>3 DEF Desk!markNoShow, Desk!Current
  <2>2. c.kind \in Desk(S, B, V)!Writing
    BY <1>3 DEF Desk!markNoShow, Desk!Writing, Desk!Visits
  <2>3. QED
    BY <1>0, <1>a, <2>1, <2>2
<1>4. CASE Desk(S, B, V)!revertNoShow(c)
  <2>1. /\ Desk(S, B, V)!Does(c, {"revert"}, [v1[c.of] EXCEPT !.missed = FALSE])
        /\ v1[c.of].revision = c.seen.revision /\ v1[c.of].status = "CONFIRMED"
    BY <1>4 DEF Desk!revertNoShow, Desk!Current
  <2>2. c.kind \in Desk(S, B, V)!Writing
    BY <1>4 DEF Desk!revertNoShow, Desk!Writing, Desk!Visits
  <2>3. QED
    BY <1>0, <1>a, <2>1, <2>2
<1>5. CASE Desk(S, B, V)!updateDetails(c)
  <2>1. Desk(S, B, V)!Does(c, {"details"}, [v1[c.of] EXCEPT !.detail = c.input])
    BY <1>5 DEF Desk!updateDetails
  <2>2. c.kind \in Desk(S, B, V)!Writing /\ c.kind \notin {"reschedule", "move"} \cup Desk(S, B, V)!Visits
    BY <1>5 DEF Desk!updateDetails, Desk!Writing, Desk!Editors, Desk!Visits
  <2>3. QED
    BY <1>0, <1>a, <2>1, <2>2
<1>6. CASE Desk(S, B, V)!reschedule(c)
  <2>1. /\ Desk(S, B, V)!Does(c, {"reschedule", "move"}, [v1[c.of] EXCEPT !.place = c.input])
        /\ v1[c.of].revision = c.seen.revision /\ v1[c.of].status = "CONFIRMED"
    BY <1>6 DEF Desk!reschedule, Desk!Movable, Desk!Current
  <2>2. c.kind \in Desk(S, B, V)!Writing
    BY <1>6 DEF Desk!reschedule, Desk!Writing, Desk!Editors
  <2>3. QED
    BY <1>0, <1>a, <2>1, <2>2
<1>7. CASE Desk(S, B, V)!cancelSeries(c)
  BY <1>7, DeskEnds DEF Goal
<1>8. CASE Desk(S, B, V)!read(c)
  BY <1>8, DeskReads DEF Goal
<1>9. ASSUME NEW free, Desk(S, B, V)!previewReschedule(c, free) PROVE Goal
  BY <1>9, <1>b DEF Desk!previewReschedule, Desk!Server, Desk!Lists, Desk!Drawer
<1>10. ASSUME NEW slots, Desk(S, B, V)!getAvailability(c, slots) PROVE Goal
  BY <1>10, <1>b DEF Desk!getAvailability, Desk!Server, Desk!Lists, Desk!Drawer
<1>11. QED
  BY <1>1, <1>2, <1>3, <1>4, <1>5, <1>6, <1>7, <1>8, <1>9, <1>10 DEF Desk!Serves

-----------------------------------------------------------------------------
(* The page *)

(* Nothing new is shown. *)
LEMMA DeskCalm ==
    ASSUME NEW S, NEW B, B \subseteq 1..Few, NEW V, Desk(S, B, V)!DeskInv,
           v1' = v1, v4' = v4, v6' = v6, v8' = v8, v11' = v11 \/ v11' = Idle,
           v5' = v5 \/ v5' = [v5 EXCEPT !.failed = TRUE] \/ v5' = [v5 EXCEPT !.failed = FALSE],
           \A c \in v12' : Desk(S, B, V)!CallKnows(c)'
    PROVE  Desk(S, B, V)!DeskInv' /\ Desk(S, B, V)!SeesWhatItWrites
<1>1. {"rows", "failed"} \subseteq DOMAIN v5
  BY DEF Desk!DeskInv
<1>2. {"rows", "failed"} \subseteq DOMAIN v5' /\ v5'.rows = v5.rows
  BY <1>1
<1>3. v11' = v11 \/ Desk(S, B, V)!KnowsOne(v11)'
  BY DEF Desk!KnowsOne
<1>4. QED
  BY <1>2, <1>3, DeskPage

(* The drawer shows another row, or none. *)
LEMMA DeskTurns ==
    ASSUME NEW S, NEW B, B \subseteq 1..Few, NEW V, Desk(S, B, V)!DeskInv,
           NEW to, NEW b, NEW kept, NEW rest, Desk(S, B, V)!Shows(to, b, kept, rest),
           Desk(S, B, V)!KnowsOne(to), Desk(S, B, V)!KnowsBoard(b),
           \A c \in rest : Desk(S, B, V)!CallKnows(c)',
           v1' = v1, v4' = v4 \/ (v4' = b /\ Desk(S, B, V)!KnowsRows(b)), v6' = v6, v11' = v11,
           v5' = v5 \/ v5' = [v5 EXCEPT !.failed = FALSE]
    PROVE  Desk(S, B, V)!DeskInv' /\ Desk(S, B, V)!SeesWhatItWrites
<1>1. Desk(S, B, V)!RowsInv /\ Desk(S, B, V)!RowsMoveOn /\ {"rows", "failed"} \subseteq DOMAIN v5
  BY DeskRowsStay DEF Desk!DeskInv
<1>2. Desk(S, B, V)!KnowsOne(to)' /\ Desk(S, B, V)!KnowsBoard(b)'
  BY <1>1, DeskOneStays, DeskBoardStays
<1>3. Desk(S, B, V)!KnowsOne(v8)' /\ \A c \in v12' : Desk(S, B, V)!CallKnows(c)'
  BY <1>2, DeskShows
<1>4. v4' = v4 \/ Desk(S, B, V)!KnowsRows(v4)'
  <2>1. ASSUME Desk(S, B, V)!KnowsRows(b) PROVE Desk(S, B, V)!KnowsRows(b)'
    BY <1>1, <2>1, DeskAllStay
  <2>2. QED
    BY <2>1 DEF Desk!KnowsRows
<1>5. {"rows", "failed"} \subseteq DOMAIN v5' /\ v5'.rows = v5.rows
  BY <1>1
<1>6. QED
  BY <1>3, <1>4, <1>5, DeskPage

LEMMA DeskListed ==
    ASSUME NEW S, NEW B, B \subseteq 1..Few, NEW V, Desk(S, B, V)!DeskInv, NEW a \in 1..Few,
           Desk(S, B, V)!Listed(a) # Idle
    PROVE  Desk(S, B, V)!Knows(a, Desk(S, B, V)!Listed(a))
<1>1. Desk(S, B, V)!Listed(a) =
        CASE v3 = "day" -> IF v4 = Idle \/ a \notin B THEN Idle ELSE v4.rows[a]
          [] v3 = "week" -> IF v5.rows = Idle \/ v5.failed THEN Idle ELSE v5.rows[a]
          [] OTHER -> IF v6 = Idle THEN Idle ELSE v6[a]
  BY DEF Desk!Listed
<1>2. CASE v3 = "day"
  BY <1>1, <1>2 DEF Desk!DeskInv, Desk!KnowsBoard, Desk!KnowsRows
<1>3. CASE v3 = "week"
  BY <1>1, <1>3, DeskAppointments DEF Desk!DeskInv, Desk!KnowsAll
<1>4. CASE v3 # "day" /\ v3 # "week"
  BY <1>1, <1>4, DeskAppointments DEF Desk!DeskInv, Desk!KnowsAll
<1>5. QED
  BY <1>2, <1>3, <1>4

LEMMA DeskRestored ==
    ASSUME NEW S, NEW B, B \subseteq 1..Few, NEW V, NEW b, Desk(S, B, V)!KnowsRows(b),
           NEW to, to = Desk(S, B, V)!Restored(b)
    PROVE  Desk(S, B, V)!KnowsOne(to)
<1>1. CASE v7 \in B
  <2>1. to = [id |-> v7, row |-> b.rows[v7]]
    BY <1>1 DEF Desk!Restored
  <2>2. v7 \in Desk(S, B, V)!Appointment /\ Desk(S, B, V)!Knows(v7, b.rows[v7])
    BY <1>1, DeskAppointments DEF Desk!KnowsRows
  <2>3. QED
    BY <2>1, <2>2 DEF Desk!KnowsOne
<1>2. CASE v7 \notin B
  BY <1>2 DEF Desk!Restored, Desk!KnowsOne
<1>3. QED
  BY <1>1, <1>2

(* Answers *)
LEMMA DeskArrives ==
    ASSUME NEW S, NEW B, B \subseteq 1..Few, NEW V, Desk(S, B, V)!DeskInv,
           NEW c \in v12, Desk(S, B, V)!Arrives(c)
    PROVE  Desk(S, B, V)!DeskInv' /\ Desk(S, B, V)!SeesWhatItWrites
<1> DEFINE Goal == Desk(S, B, V)!DeskInv' /\ Desk(S, B, V)!SeesWhatItWrites
           rest == v12 \ {c}
<1> SUFFICES Goal
  OBVIOUS
<1>a. ASSUME v1' = v1, v4' = v4, v6' = v6, v8' = v8, v11' = v11 \/ v11' = Idle,
             v5' = v5 \/ v5' = [v5 EXCEPT !.failed = TRUE] \/ v5' = [v5 EXCEPT !.failed = FALSE],
             \A d \in v12' : Desk(S, B, V)!CallKnows(d)'
      PROVE  Goal
  BY <1>a, DeskCalm
<1>b. ASSUME NEW to, NEW b, NEW kept, NEW others, Desk(S, B, V)!Shows(to, b, kept, others),
             Desk(S, B, V)!KnowsOne(to), Desk(S, B, V)!KnowsBoard(b),
             \A d \in others : Desk(S, B, V)!CallKnows(d)',
             v1' = v1, v4' = v4 \/ (v4' = b /\ Desk(S, B, V)!KnowsRows(b)), v6' = v6, v11' = v11,
             v5' = v5 \/ v5' = [v5 EXCEPT !.failed = FALSE]
      PROVE  Goal
  BY <1>b, DeskTurns
<1>c. ASSUME v1' = v1, v4' = v4 \/ Desk(S, B, V)!KnowsRows(v4)'
      PROVE  Desk(S, B, V)!CallKnows(c)' /\ \A d \in rest : Desk(S, B, V)!CallKnows(d)'
  BY <1>c, DeskStill
<1>d. /\ Desk(S, B, V)!RowsInv /\ {"rows", "failed"} \subseteq DOMAIN v5
      /\ Desk(S, B, V)!CallKnows(c)
      /\ {"kind", "of", "input", "seen", "mine", "latest", "done", "result"} \subseteq DOMAIN c
      /\ Desk(S, B, V)!KnowsBoard(v4) /\ Desk(S, B, V)!KnowsOne(v8)
  BY DEF Desk!DeskInv, Desk!CallKnows
<1>e. (c.done /\ c.kind \in Desk(S, B, V)!Writing)
         => Desk(S, B, V)!KnowsOne([id |-> c.of, row |-> c.result])
  BY <1>d DEF Desk!CallKnows, Desk!KnowsOne
<1> HIDE DEF Goal
<1>1. CASE Desk(S, B, V)!BoardComes(c)
  <2>1. PICK b, to, kept, others :
          /\ b = c.result
          /\ to = IF v8 = Idle THEN Desk(S, B, V)!Restored(b) ELSE v8
          /\ kept = Desk(S, B, V)!Ended(c) /\ others = Desk(S, B, V)!Rest(c)
    OBVIOUS
  <2>2. /\ Desk(S, B, V)!Shows(to, b, kept, others) /\ v4' = b /\ v1' = v1 /\ v5' = v5
        /\ v6' = v6 /\ v11' = v11 /\ c.kind = "board" /\ c.done
    BY <1>1, <2>1 DEF Desk!BoardComes, Desk!Server
  <2>3. Desk(S, B, V)!KnowsRows(b)
    BY <1>d, <2>1, <2>2 DEF Desk!CallKnows
  <2>4. Desk(S, B, V)!KnowsOne(to)
    BY <1>d, <2>1, <2>3, DeskRestored
  <2>5. Desk(S, B, V)!KnowsRows(v4)'
    <3>1. Desk(S, B, V)!RowsMoveOn
      BY <1>d, <2>2, DeskRowsStay
    <3>2. Desk(S, B, V)!KnowsRows(b)'
      BY <1>d, <2>3, <3>1, DeskAllStay
    <3>3. QED
      BY <2>2, <3>2 DEF Desk!KnowsRows
  <2>6. \A d \in rest : Desk(S, B, V)!CallKnows(d)'
    BY <1>c, <2>2, <2>5
  <2>7. \A d \in others : Desk(S, B, V)!CallKnows(d)'
    BY <2>1, <2>6, DeskWithout DEF Desk!Rest
  <2>8. Desk(S, B, V)!KnowsBoard(b)
    BY <2>3 DEF Desk!KnowsBoard
  <2>9. QED
    BY <1>b, <2>2, <2>3, <2>4, <2>7, <2>8
<1>2. CASE Desk(S, B, V)!BoardFails(c)
  <2>1. /\ v1' = v1 /\ v4' = v4 /\ v5' = v5 /\ v6' = v6 /\ v8' = v8 /\ v11' = v11
        /\ v12' = Desk(S, B, V)!Rest(c)
    BY <1>2 DEF Desk!BoardFails, Desk!Server, Desk!Lists
  <2>2. \A d \in rest : Desk(S, B, V)!CallKnows(d)'
    BY <1>c, <2>1
  <2>3. \A d \in v12' : Desk(S, B, V)!CallKnows(d)'
    BY <2>1, <2>2, DeskWithout DEF Desk!Rest
  <2>4. QED
    BY <1>a, <2>1, <2>3
<1>3. CASE Desk(S, B, V)!WeekComes(c)
  <2>1. PICK list : list = c.result
    OBVIOUS
  <2>2. /\ v1' = v1 /\ v4' = v4 /\ v5' = [v5 EXCEPT !.rows = list] /\ v6' = v6 /\ v8' = v8
        /\ v11' = v11 /\ v12' = rest /\ c.kind = "week" /\ c.done
    BY <1>3, <2>1 DEF Desk!WeekComes, Desk!Server, Desk!Drawer
  <2>3. Desk(S, B, V)!KnowsAll(list)'
    BY <1>d, <2>1, <2>2, DeskRowsStay, DeskListStays DEF Desk!CallKnows
  <2>4. {"rows", "failed"} \subseteq DOMAIN v5' /\ v5'.rows = list
    BY <1>d, <2>2
  <2>5. Desk(S, B, V)!KnowsAll(v5.rows)'
    BY <2>3, <2>4 DEF Desk!KnowsAll
  <2>6. QED
    BY <2>2, <2>4, <2>5, DeskPage DEF Goal
<1>4. CASE Desk(S, B, V)!AgendaComes(c)
  <2>1. PICK list : list = c.result
    OBVIOUS
  <2>2. /\ v1' = v1 /\ v4' = v4 /\ v5' = v5 /\ v6' = list /\ v8' = v8
        /\ v11' = v11 /\ v12' = rest /\ c.kind = "agenda" /\ c.done
    BY <1>4, <2>1 DEF Desk!AgendaComes, Desk!Server, Desk!Drawer
  <2>3. Desk(S, B, V)!KnowsAll(list)'
    BY <1>d, <2>1, <2>2, DeskRowsStay, DeskListStays DEF Desk!CallKnows
  <2>4. Desk(S, B, V)!KnowsAll(v6)'
    BY <2>2, <2>3 DEF Desk!KnowsAll
  <2>5. {"rows", "failed"} \subseteq DOMAIN v5'
    BY <1>d, <2>2
  <2>6. QED
    BY <2>2, <2>4, <2>5, DeskPage DEF Goal
<1>5. CASE \/ Desk(S, B, V)!WeekFails(c) \/ Desk(S, B, V)!AgendaFails(c)
           \/ Desk(S, B, V)!SlotsFail(c) \/ Desk(S, B, V)!DialogFails(c)
           \/ Desk(S, B, V)!SeriesComes(c) \/ Desk(S, B, V)!EndSeriesFails(c)
           \/ Desk(S, B, V)!StaysPut(c) \/ Desk(S, B, V)!MoveFails(c)
  <2>1. /\ v1' = v1 /\ v4' = v4 /\ v6' = v6 /\ v8' = v8 /\ v12' = rest
        /\ v5' = v5 \/ v5' = [v5 EXCEPT !.failed = TRUE]
        /\ v11' = v11 \/ v11' = Idle
    BY <1>5 DEF Desk!WeekFails, Desk!AgendaFails, Desk!SlotsFail, Desk!DialogFails,
                Desk!SeriesComes, Desk!EndSeriesFails, Desk!StaysPut, Desk!MoveFails,
                Desk!Server, Desk!Lists, Desk!Drawer
  <2>2. \A d \in v12' : Desk(S, B, V)!CallKnows(d)'
    BY <1>c, <2>1
  <2>3. QED
    BY <1>a, <2>1, <2>2
<1>6. CASE Desk(S, B, V)!SlotsCome(c)
  <2>1. /\ v1' = v1 /\ v4' = v4 /\ v5' = v5 /\ v6' = v6 /\ v8' = v8 /\ v11' = v11
        /\ v12' = rest \/ v12' = Desk(S, B, V)!Asking(c.of, rest)
    BY <1>6 DEF Desk!SlotsCome, Desk!Server, Desk!Lists
  <2>2. \A d \in rest : Desk(S, B, V)!CallKnows(d)'
    BY <1>c, <2>1
  <2>3. \A d \in v12' : Desk(S, B, V)!CallKnows(d)'
    BY <2>1, <2>2, DeskAsking
  <2>4. QED
    BY <1>a, <2>1, <2>3
<1>7. CASE Desk(S, B, V)!ActionDone(c)
  <2>1. PICK to, others : /\ to = [id |-> c.of, row |-> c.result]
                          /\ others = Desk(S, B, V)!Refreshing("board", "action", rest)
    OBVIOUS
  <2>2. /\ Desk(S, B, V)!Shows(to, v4, v9, others) /\ v1' = v1 /\ v4' = v4 /\ v5' = v5
        /\ v6' = v6 /\ v11' = v11 /\ c.kind \in Desk(S, B, V)!Writing /\ c.done
    BY <1>7, <2>1 DEF Desk!ActionDone, Desk!Server, Desk!Lists, Desk!Writing
  <2>3. \A d \in others : Desk(S, B, V)!CallKnows(d)'
    BY <1>c, <2>1, <2>2, DeskRefreshing
  <2>4. PICK b, kept : b = v4 /\ kept = v9
    OBVIOUS
  <2>5. Desk(S, B, V)!KnowsBoard(b) /\ Desk(S, B, V)!KnowsOne(to)
    BY <1>d, <1>e, <2>1, <2>2, <2>4
  <2>6. Desk(S, B, V)!Shows(to, b, kept, others)
    BY <2>2, <2>4
  <2>7. QED
    BY <1>b, <2>2, <2>3, <2>5, <2>6
<1>8. CASE Desk(S, B, V)!EditDone(c)
  <2>1. PICK to, kept, others :
          /\ to = [id |-> c.of, row |-> c.result] /\ kept = Desk(S, B, V)!Closing(c.kind)
          /\ others = Desk(S, B, V)!Refreshing("board", Idle, Desk(S, B, V)!Without(c.kind, rest))
    OBVIOUS
  <2>2. /\ Desk(S, B, V)!Shows(to, v4, kept, others) /\ v1' = v1 /\ v4' = v4 /\ v5' = v5
        /\ v6' = v6 /\ v11' = v11 /\ c.kind \in Desk(S, B, V)!Writing /\ c.done
    BY <1>8, <2>1 DEF Desk!EditDone, Desk!Server, Desk!Lists, Desk!Writing
  <2>3. \A d \in Desk(S, B, V)!Without(c.kind, rest) : Desk(S, B, V)!CallKnows(d)'
    BY <1>c, <2>2, DeskWithout
  <2>4. \A d \in others : Desk(S, B, V)!CallKnows(d)'
    BY <2>1, <2>3, DeskRefreshing
  <2>5. PICK b : b = v4
    OBVIOUS
  <2>6. Desk(S, B, V)!KnowsBoard(b) /\ Desk(S, B, V)!KnowsOne(to)
    BY <1>d, <1>e, <2>1, <2>2, <2>5
  <2>7. Desk(S, B, V)!Shows(to, b, kept, others)
    BY <2>2, <2>5
  <2>8. QED
    BY <1>b, <2>2, <2>4, <2>6, <2>7
<1>9. CASE Desk(S, B, V)!SeriesEnded(c)
  <2>1. PICK b, kept, to, others :
          /\ b = v4 /\ kept = v9 /\ to = Desk(S, B, V)!Restored(b)
          /\ others = Desk(S, B, V)!Refreshing("board", Idle, rest)
    OBVIOUS
  <2>2. /\ Desk(S, B, V)!Shows(to, b, kept, others) /\ v1' = v1 /\ v4' = v4 /\ v5' = v5
        /\ v6' = v6 /\ v11' = v11 /\ c.kind = "endSeries"
    BY <1>9, <2>1 DEF Desk!SeriesEnded, Desk!Server, Desk!Lists
  <2>3. Desk(S, B, V)!KnowsRows(b)
    BY <1>d, <2>1, <2>2 DEF Desk!CallKnows
  <2>4. Desk(S, B, V)!KnowsOne(to)
    BY <2>1, <2>3, DeskRestored
  <2>5. \A d \in others : Desk(S, B, V)!CallKnows(d)'
    BY <1>c, <2>1, <2>2, DeskRefreshing
  <2>6. Desk(S, B, V)!KnowsBoard(b)
    BY <1>d, <2>1
  <2>7. QED
    BY <1>b, <2>2, <2>4, <2>5, <2>6
<1>10. CASE Desk(S, B, V)!MoveDone(c)
  <2>0. PICK first : first = Desk(S, B, V)!Refreshing("board", Idle, rest)
    OBVIOUS
  <2>1. PICK b, kept, to, others :
          /\ b = v4 /\ kept = v9 /\ to = [id |-> c.of, row |-> c.result]
          /\ others = Desk(S, B, V)!Refreshing("week", Idle, first)
    OBVIOUS
  <2>2. /\ Desk(S, B, V)!Shows(to, b, kept, others) /\ v1' = v1 /\ v4' = v4
        /\ v5' = [v5 EXCEPT !.failed = FALSE]
        /\ v6' = v6 /\ v11' = v11 /\ c.kind \in Desk(S, B, V)!Writing /\ c.done
    BY <1>10, <2>0, <2>1 DEF Desk!MoveDone, Desk!Both, Desk!Server, Desk!Writing
  <2>3. \A d \in first : Desk(S, B, V)!CallKnows(d)'
    BY <1>c, <2>0, <2>2, DeskRefreshing
  <2>4. \A d \in others : Desk(S, B, V)!CallKnows(d)'
    BY <2>1, <2>3, DeskRefreshing
  <2>5. Desk(S, B, V)!KnowsBoard(b) /\ Desk(S, B, V)!KnowsOne(to)
    BY <1>d, <1>e, <2>1, <2>2
  <2>6. QED
    BY <1>b, <2>2, <2>4, <2>5
<1>11. CASE Desk(S, B, V)!MoveRefused(c)
  <2>0. PICK first : first = Desk(S, B, V)!Refreshing("board", Idle, rest)
    OBVIOUS
  <2>1. /\ v1' = v1 /\ v4' = v4 /\ v5' = [v5 EXCEPT !.failed = FALSE] /\ v6' = v6
        /\ v8' = v8 /\ v11' = v11 /\ v12' = Desk(S, B, V)!Refreshing("week", Idle, first)
    BY <1>11, <2>0 DEF Desk!MoveRefused, Desk!Both, Desk!Server, Desk!Drawer
  <2>2. \A d \in first : Desk(S, B, V)!CallKnows(d)'
    BY <1>c, <2>0, <2>1, DeskRefreshing
  <2>3. \A d \in v12' : Desk(S, B, V)!CallKnows(d)'
    BY <2>1, <2>2, DeskRefreshing
  <2>4. QED
    BY <1>a, <2>1, <2>3
<1>12. CASE Desk(S, B, V)!Proceeds(c)
  <2>1. PICK of, input, seen, d : /\ of = c.of /\ input = c.input /\ seen = c.seen
                                  /\ d = Desk(S, B, V)!Call("move", of, input, seen)
    OBVIOUS
  <2>2. /\ v1' = v1 /\ v4' = v4 /\ v5' = v5 /\ v6' = v6 /\ v8' = v8 /\ v11' = v11
        /\ v12' = rest \cup {d} /\ c.kind = "preview"
    BY <1>12, <2>1 DEF Desk!Proceeds, Desk!Server, Desk!Lists, Desk!Drawer
  <2>3. of \in Desk(S, B, V)!Appointment /\ Desk(S, B, V)!Knows(of, seen)'
    <3>1. of \in Desk(S, B, V)!Appointment /\ Desk(S, B, V)!Knows(of, seen)
      BY <1>d, <2>1, <2>2 DEF Desk!CallKnows
    <3>2. QED
      BY <1>d, <2>2, <3>1, DeskRowsStay, DeskKnown
  <2>4. Desk(S, B, V)!CallKnows(d)'
    BY <2>1, <2>3, DeskNew
  <2>5. \A x \in v12' : Desk(S, B, V)!CallKnows(x)'
    BY <1>c, <2>2, <2>4
  <2>6. QED
    BY <1>a, <2>2, <2>5
<1>13. QED
  BY <1>1, <1>2, <1>3, <1>4, <1>5, <1>6, <1>7, <1>8, <1>9, <1>10, <1>11, <1>12
     DEF Desk!Arrives

(* What is done on the page *)
LEMMA DeskActs ==
    ASSUME NEW S, NEW B, B \subseteq 1..Few, NEW V, Desk(S, B, V)!DeskInv,
           \/ Desk(S, B, V)!refreshBoard \/ Desk(S, B, V)!refreshWeek
           \/ Desk(S, B, V)!closeDrawer \/ Desk(S, B, V)!setNoShowAction
           \/ Desk(S, B, V)!closeDialog \/ Desk(S, B, V)!submit \/ Desk(S, B, V)!loadSeries
           \/ Desk(S, B, V)!endSeries \/ Desk(S, B, V)!dragEnd
           \/ \E a \in 1..Few : Desk(S, B, V)!select(a) \/ Desk(S, B, V)!drag(a)
           \/ \E x : \/ Desk(S, B, V)!setView(x) \/ Desk(S, B, V)!setAction(x)
                     \/ Desk(S, B, V)!setEditor(x) \/ Desk(S, B, V)!setDetail(x)
                     \/ Desk(S, B, V)!setSelection(x) \/ Desk(S, B, V)!setStartTime(x)
                     \/ Desk(S, B, V)!drop(x)
    PROVE  Desk(S, B, V)!DeskInv' /\ Desk(S, B, V)!SeesWhatItWrites
<1> DEFINE Goal == Desk(S, B, V)!DeskInv' /\ Desk(S, B, V)!SeesWhatItWrites
<1> SUFFICES Goal
  OBVIOUS
<1>a. ASSUME v1' = v1, v4' = v4, v6' = v6, v8' = v8, v11' = v11 \/ v11' = Idle,
             v5' = v5 \/ v5' = [v5 EXCEPT !.failed = TRUE] \/ v5' = [v5 EXCEPT !.failed = FALSE],
             \A d \in v12' : Desk(S, B, V)!CallKnows(d)'
      PROVE  Goal
  BY <1>a, DeskCalm
<1>b. ASSUME NEW to, NEW b, NEW kept, NEW others, Desk(S, B, V)!Shows(to, b, kept, others),
             Desk(S, B, V)!KnowsOne(to), Desk(S, B, V)!KnowsBoard(b),
             \A d \in others : Desk(S, B, V)!CallKnows(d)',
             v1' = v1, v4' = v4, v6' = v6, v11' = v11, v5' = v5
      PROVE  Goal
  BY <1>b, DeskTurns
<1>c. ASSUME v1' = v1, v4' = v4
      PROVE  \A d \in v12 : Desk(S, B, V)!CallKnows(d)'
  BY <1>c, DeskStill
<1>d. /\ Desk(S, B, V)!RowsInv /\ {"rows", "failed"} \subseteq DOMAIN v5
      /\ Desk(S, B, V)!KnowsBoard(v4)
      /\ Desk(S, B, V)!KnowsOne(v8) /\ Desk(S, B, V)!KnowsOne(v11)
  BY DEF Desk!DeskInv
<1>e. PICK old : old = v12
  OBVIOUS
<1>f. ASSUME NEW kind, NEW of, NEW input, NEW seen, v1' = v1, v4' = v4, v6' = v6, v8' = v8,
             v5' = v5, v11' = v11 \/ v11' = Idle,
             v12' = old \cup {Desk(S, B, V)!Call(kind, of, input, seen)},
             of \in Desk(S, B, V)!Appointment, Desk(S, B, V)!Knows(of, seen),
             kind = "endSeries" => Desk(S, B, V)!KnowsRows(v4)'
      PROVE  Goal
  <2>1. PICK d : d = Desk(S, B, V)!Call(kind, of, input, seen)
    OBVIOUS
  <2>2. Desk(S, B, V)!Knows(of, seen)'
    BY <1>d, <1>f, DeskRowsStay, DeskKnown
  <2>3. Desk(S, B, V)!CallKnows(d)'
    BY <1>f, <2>1, <2>2, DeskNew
  <2>4. \A x \in v12' : Desk(S, B, V)!CallKnows(x)'
    BY <1>c, <1>e, <1>f, <2>1, <2>3
  <2>5. QED
    BY <1>a, <1>f, <2>4
<1> HIDE DEF Goal
<1>1. CASE \/ Desk(S, B, V)!refreshBoard \/ Desk(S, B, V)!refreshWeek
  <2>1. /\ v1' = v1 /\ v4' = v4 /\ v6' = v6 /\ v8' = v8 /\ v11' = v11
        /\ v5' = v5 \/ v5' = [v5 EXCEPT !.failed = FALSE]
        /\ \E kind \in {"board", "week"} : v12' = Desk(S, B, V)!Refreshing(kind, Idle, old)
    BY <1>1, <1>e DEF Desk!refreshBoard, Desk!refreshWeek, Desk!Server, Desk!Lists, Desk!Drawer
  <2>2. \A d \in v12' : Desk(S, B, V)!CallKnows(d)'
    BY <1>c, <1>e, <2>1, DeskRefreshing
  <2>3. QED
    BY <1>a, <2>1, <2>2
<1>2. CASE Desk(S, B, V)!closeDrawer
  <2>1. PICK to, b, kept : to = Idle /\ b = v4 /\ kept = v9
    OBVIOUS
  <2>2. /\ Desk(S, B, V)!Shows(to, b, kept, old)
        /\ v1' = v1 /\ v4' = v4 /\ v5' = v5 /\ v6' = v6 /\ v11' = v11
    BY <1>2, <1>e, <2>1 DEF Desk!closeDrawer, Desk!Server, Desk!Lists
  <2>3. Desk(S, B, V)!KnowsOne(to) /\ Desk(S, B, V)!KnowsBoard(b)
    BY <1>d, <2>1 DEF Desk!KnowsOne
  <2>4. QED
    BY <1>b, <1>c, <1>e, <2>2, <2>3
<1>3. ASSUME NEW a \in 1..Few, Desk(S, B, V)!select(a) PROVE Goal
  <2>1. PICK to, b, kept :
          to = [id |-> a, row |-> Desk(S, B, V)!Listed(a)] /\ b = v4 /\ kept = v9
    OBVIOUS
  <2>2. /\ Desk(S, B, V)!Shows(to, b, kept, old) /\ Desk(S, B, V)!Listed(a) # Idle
        /\ v1' = v1 /\ v4' = v4 /\ v5' = v5 /\ v6' = v6 /\ v11' = v11
    BY <1>3, <1>e, <2>1 DEF Desk!select, Desk!Server, Desk!Lists
  <2>3. Desk(S, B, V)!KnowsOne(to) /\ Desk(S, B, V)!KnowsBoard(b)
    BY <1>d, <2>1, <2>2, DeskListed, DeskAppointments DEF Desk!KnowsOne
  <2>4. QED
    BY <1>b, <1>c, <1>e, <2>2, <2>3
<1>4. ASSUME NEW a \in 1..Few, Desk(S, B, V)!drag(a) PROVE Goal
  <2>1. PICK one : one = [id |-> a, row |-> Desk(S, B, V)!Listed(a)]
    OBVIOUS
  <2>2. /\ v11' = one /\ Desk(S, B, V)!Listed(a) # Idle
        /\ v1' = v1 /\ v4' = v4 /\ v5' = v5 /\ v6' = v6 /\ v8' = v8 /\ v12' = v12
    BY <1>4, <2>1 DEF Desk!drag, Desk!Server, Desk!Lists, Desk!Drawer
  <2>3. Desk(S, B, V)!KnowsOne(one)
    BY <2>1, <2>2, DeskListed, DeskAppointments DEF Desk!KnowsOne
  <2>4. Desk(S, B, V)!KnowsOne(one)'
    BY <1>d, <2>2, <2>3, DeskRowsStay, DeskOneStays
  <2>5. Desk(S, B, V)!KnowsOne(v11)'
    BY <2>2, <2>4 DEF Desk!KnowsOne
  <2>6. {"rows", "failed"} \subseteq DOMAIN v5'
    BY <1>d, <2>2
  <2>7. QED
    BY <2>2, <2>5, <2>6, DeskPage DEF Goal
<1>5. ASSUME NEW kind, Desk(S, B, V)!Opening(kind) PROVE Goal
  <2>1. /\ v1' = v1 /\ v4' = v4 /\ v5' = v5 /\ v6' = v6 /\ v8' = v8 /\ v11' = v11
        /\ v12' = old \/ v12' = Desk(S, B, V)!Asking(v8.id, old)
    BY <1>5, <1>e DEF Desk!Opening, Desk!Server, Desk!Lists
  <2>2. \A d \in v12' : Desk(S, B, V)!CallKnows(d)'
    BY <1>c, <1>e, <2>1, DeskAsking
  <2>3. QED
    BY <1>a, <2>1, <2>2
<1>6. ASSUME NEW x, \/ Desk(S, B, V)!setDetail(x) \/ Desk(S, B, V)!setSelection(x)
                    \/ Desk(S, B, V)!setStartTime(x)
      PROVE  Goal
  <2>1. /\ v1' = v1 /\ v4' = v4 /\ v5' = v5 /\ v6' = v6 /\ v8' = v8 /\ v11' = v11
        /\ \/ v12' = old \/ v12' = Desk(S, B, V)!Asking(v8.id, old)
           \/ v12' = Desk(S, B, V)!Dropped({"slots"}, old)
    BY <1>6, <1>e DEF Desk!setDetail, Desk!setSelection, Desk!setStartTime, Desk!Server,
                      Desk!Lists
  <2>2. \A d \in v12' : Desk(S, B, V)!CallKnows(d)'
    BY <1>c, <1>e, <2>1, DeskAsking, DeskDrops
  <2>3. QED
    BY <1>a, <2>1, <2>2
<1>7. CASE Desk(S, B, V)!closeDialog \/ Desk(S, B, V)!dragEnd
  <2>1. /\ v1' = v1 /\ v4' = v4 /\ v5' = v5 /\ v6' = v6 /\ v8' = v8
        /\ v11' = v11 \/ v11' = Idle
        /\ v12' = old \/ v12' = Desk(S, B, V)!Without(v9.kind, old)
    BY <1>7, <1>e DEF Desk!closeDialog, Desk!dragEnd, Desk!Server, Desk!Lists, Desk!Drawer
  <2>2. \A d \in v12' : Desk(S, B, V)!CallKnows(d)'
    BY <1>c, <1>e, <2>1, DeskWithout
  <2>3. QED
    BY <1>a, <2>1, <2>2
<1>8. CASE Desk(S, B, V)!submit
  <2>1. PICK kind, of, input, seen :
          /\ kind = v9.kind /\ of = v8.id /\ seen = v8.row
          /\ input = IF v9.kind = "details" THEN v9.detail ELSE v9.place
    OBVIOUS
  <2>2. /\ v1' = v1 /\ v4' = v4 /\ v5' = v5 /\ v6' = v6 /\ v8' = v8 /\ v11' = v11
        /\ v12' = old \cup {Desk(S, B, V)!Call(kind, of, input, seen)}
        /\ Desk(S, B, V)!Open
    BY <1>8, <1>e, <2>1 DEF Desk!submit, Desk!Server, Desk!Lists
  <2>3. of \in Desk(S, B, V)!Appointment /\ Desk(S, B, V)!Knows(of, seen)
    BY <1>d, <2>1, <2>2 DEF Desk!Open, Desk!KnowsOne
  <2>4. PICK b : b = v4
    OBVIOUS
  <2>5. Desk(S, B, V)!KnowsRows(b)
    BY <1>d, <2>2, <2>4 DEF Desk!Open, Desk!KnowsBoard
  <2>6. Desk(S, B, V)!KnowsRows(b)'
    BY <1>d, <2>2, <2>5, DeskRowsStay, DeskAllStay
  <2>7. Desk(S, B, V)!KnowsRows(v4)'
    BY <2>2, <2>4, <2>6 DEF Desk!KnowsRows
  <2>8. QED
    BY <1>f, <2>2, <2>3, <2>7
<1>9. ASSUME NEW place, Desk(S, B, V)!drop(place) PROVE Goal
  <2>1. PICK of, seen : of = v11.id /\ seen = v11.row
    OBVIOUS
  <2>2. /\ v1' = v1 /\ v4' = v4 /\ v5' = v5 /\ v6' = v6 /\ v8' = v8 /\ v11' = Idle
        /\ v12' = old \cup {Desk(S, B, V)!Call("preview", of, place, seen)}
        /\ v11 # Idle
    BY <1>9, <1>e, <2>1 DEF Desk!drop, Desk!Server, Desk!Lists, Desk!Drawer
  <2>3. of \in Desk(S, B, V)!Appointment /\ Desk(S, B, V)!Knows(of, seen)
    BY <1>d, <2>1, <2>2 DEF Desk!KnowsOne
  <2>4. QED
    BY <1>f, <2>2, <2>3
<1>10. CASE Desk(S, B, V)!loadSeries
  <2>1. PICK id, d : id = v8.id /\ d = Desk(S, B, V)!Call("series", id, Idle, Idle)
    OBVIOUS
  <2>2. /\ v1' = v1 /\ v4' = v4 /\ v5' = v5 /\ v6' = v6 /\ v8' = v8 /\ v11' = v11
        /\ v12' = old \cup {d}
    BY <1>10, <1>e, <2>1 DEF Desk!loadSeries, Desk!Server, Desk!Lists
  <2>3. Desk(S, B, V)!CallKnows(d)'
    BY <2>1, DeskAsks
  <2>4. \A x \in v12' : Desk(S, B, V)!CallKnows(x)'
    BY <1>c, <1>e, <2>2, <2>3
  <2>5. QED
    BY <1>a, <2>2, <2>4
<1>11. CASE Desk(S, B, V)!endSeries
  <2>1. PICK id, b, d : /\ id = v8.id /\ b = v4
                        /\ d = Desk(S, B, V)!Call("endSeries", id, Idle, Idle)
    OBVIOUS
  <2>2. /\ v1' = v1 /\ v4' = v4 /\ v5' = v5 /\ v6' = v6 /\ v8' = v8 /\ v11' = v11
        /\ v12' = old \cup {d} /\ v4 # Idle
    BY <1>11, <1>e, <2>1 DEF Desk!endSeries, Desk!InPanel, Desk!Open, Desk!Server, Desk!Lists
  <2>3. Desk(S, B, V)!KnowsRows(b)
    BY <1>d, <2>1, <2>2 DEF Desk!KnowsBoard
  <2>4. Desk(S, B, V)!KnowsRows(b)'
    BY <1>d, <2>2, <2>3, DeskRowsStay, DeskAllStay
  <2>5. Desk(S, B, V)!KnowsRows(v4)'
    BY <2>1, <2>2, <2>4 DEF Desk!KnowsRows
  <2>6. "endSeries" \notin Desk(S, B, V)!Writing \cup {"preview"}
    BY DEF Desk!Writing, Desk!Actions, Desk!Visits, Desk!Editors
  <2>7. Desk(S, B, V)!CallKnows(d)'
    BY <2>1, <2>5, <2>6, DeskNew
  <2>8. \A x \in v12' : Desk(S, B, V)!CallKnows(x)'
    BY <1>c, <1>e, <2>2, <2>7
  <2>9. QED
    BY <1>a, <2>2, <2>8
<1>12. ASSUME NEW v, Desk(S, B, V)!setView(v) PROVE Goal
  <2>1. PICK d : d = Desk(S, B, V)!Call("agenda", Idle, Idle, Idle)
    OBVIOUS
  <2>2. /\ v1' = v1 /\ v4' = v4 /\ v6' = v6 /\ v8' = v8 /\ v11' = Idle
        /\ v5' = v5 \/ v5' = [v5 EXCEPT !.failed = FALSE]
        /\ \/ v12' = Desk(S, B, V)!Refreshing("week", Idle, old)
           \/ v12' = old \cup {d} \/ v12' = old
    BY <1>12, <1>e, <2>1 DEF Desk!setView, Desk!Server, Desk!Drawer
  <2>3. Desk(S, B, V)!CallKnows(d)'
    BY <2>1, DeskAsks
  <2>4. \A x \in v12' : Desk(S, B, V)!CallKnows(x)'
    BY <1>c, <1>e, <2>2, <2>3, DeskRefreshing
  <2>5. QED
    BY <1>a, <2>2, <2>4
<1>13. QED
  BY <1>1, <1>2, <1>3, <1>4, <1>5, <1>6, <1>7, <1>8, <1>9, <1>10, <1>11, <1>12
     DEF Desk!setAction, Desk!setEditor, Desk!setNoShowAction

(* What others do *)
LEMMA DeskElsewhere ==
    ASSUME NEW S, NEW B, B \subseteq 1..Few, NEW V, Desk(S, B, V)!DeskInv,
           \/ Desk(S, B, V)!TimeComes
           \/ \E x, y, z : \E a \in 1..Few : \/ Desk(S, B, V)!DecidedElsewhere(a, x)
                                           \/ Desk(S, B, V)!EditedElsewhere(a, x, y, z)
                                           \/ Desk(S, B, V)!ProfileSaved(a, x)
                                           \/ Desk(S, B, V)!ConfirmedLate(a, x, y)
    PROVE  Desk(S, B, V)!DeskInv' /\ Desk(S, B, V)!SeesWhatItWrites
<1>1. /\ v4' = v4 /\ v5' = v5 /\ v6' = v6 /\ v8' = v8 /\ v11' = v11 /\ v12' = v12
  <2> DEFINE Same == /\ v4' = v4 /\ v5' = v5 /\ v6' = v6 /\ v8' = v8 /\ v11' = v11
                     /\ v12' = v12
  <2>1. CASE Desk(S, B, V)!TimeComes
    BY <2>1 DEF Desk!TimeComes, Desk!Lists, Desk!Drawer
  <2>2. ASSUME NEW a, NEW x, Desk(S, B, V)!DecidedElsewhere(a, x) PROVE Same
    BY <2>2 DEF Desk!DecidedElsewhere, Desk!Lists, Desk!Drawer
  <2>3. ASSUME NEW a, NEW x, NEW y, NEW z, Desk(S, B, V)!EditedElsewhere(a, x, y, z)
        PROVE  Same
    BY <2>3 DEF Desk!EditedElsewhere, Desk!Lists, Desk!Drawer
  <2>4. ASSUME NEW a, NEW x, Desk(S, B, V)!ProfileSaved(a, x) PROVE Same
    BY <2>4 DEF Desk!ProfileSaved, Desk!Lists, Desk!Drawer
  <2>5. ASSUME NEW a, NEW x, NEW y, Desk(S, B, V)!ConfirmedLate(a, x, y) PROVE Same
    BY <2>5 DEF Desk!ConfirmedLate, Desk!Lists, Desk!Drawer
  <2>6. QED
    BY <2>1, <2>2, <2>3, <2>4, <2>5
<1>2. Desk(S, B, V)!RowsInv /\ {"rows", "failed"} \subseteq DOMAIN v5'
  BY <1>1 DEF Desk!DeskInv
<1>3. Desk(S, B, V)!RowsMoveOn
  <2>1. CASE Desk(S, B, V)!TimeComes
    BY <1>2, <2>1, DeskRowsStay DEF Desk!TimeComes
  <2>2. ASSUME NEW a \in 1..Few, NEW row, v1' = [v1 EXCEPT ![a] = row], Desk(S, B, V)!RowOK(row),
               \/ row.revision > v1[a].revision
               \/ row.revision = v1[a].revision /\ Desk(S, B, V)!Follows(row, v1[a])
        PROVE  Desk(S, B, V)!RowsMoveOn
    BY <1>2, <2>2, DeskAppointments DEF Desk!RowsInv, Desk!RowsMoveOn, Desk!Follows
  <2>3. ASSUME NEW a \in 1..Few PROVE Desk(S, B, V)!RowOK(v1[a])
    BY <1>2, DeskAppointments DEF Desk!RowsInv
  <2>4. ASSUME NEW a \in 1..Few, NEW x, Desk(S, B, V)!DecidedElsewhere(a, x)
        PROVE  Desk(S, B, V)!RowsMoveOn
    <3>1. PICK old, new : /\ old = [v1[a] EXCEPT !.status = x]
                          /\ new = [old EXCEPT !.revision = @ + 1]
      OBVIOUS
    <3>2. /\ DOMAIN new = DOMAIN v1[a] /\ new.revision > v1[a].revision
          /\ new.revision \in Nat /\ v1[a].revision \in Nat
      BY <2>3, <3>1 DEF Desk!RowOK
    <3>3. v1' = [v1 EXCEPT ![a] = new]
      BY <2>4, <3>1 DEF Desk!DecidedElsewhere, Desk!Writes
    <3>4. Desk(S, B, V)!RowOK(new)
      BY <2>3, <3>2 DEF Desk!RowOK
    <3>5. QED
      BY <2>2, <3>2, <3>3, <3>4
  <2>5. ASSUME NEW a \in 1..Few, NEW x, NEW y, NEW z,
               Desk(S, B, V)!EditedElsewhere(a, x, y, z)
        PROVE  Desk(S, B, V)!RowsMoveOn
    <3>1. PICK old, new : /\ old = [v1[a] EXCEPT !.detail = x, !.place = y, !.missed = z]
                          /\ new = [old EXCEPT !.revision = @ + 1]
      OBVIOUS
    <3>2. /\ DOMAIN new = DOMAIN v1[a] /\ new.revision > v1[a].revision
          /\ new.revision \in Nat /\ v1[a].revision \in Nat
      BY <2>3, <3>1 DEF Desk!RowOK
    <3>3. v1' = [v1 EXCEPT ![a] = new]
      BY <2>5, <3>1 DEF Desk!EditedElsewhere, Desk!Writes
    <3>4. Desk(S, B, V)!RowOK(new)
      BY <2>3, <3>2 DEF Desk!RowOK
    <3>5. QED
      BY <2>2, <3>2, <3>3, <3>4
  <2>6. ASSUME NEW a \in 1..Few, NEW x, Desk(S, B, V)!ProfileSaved(a, x)
        PROVE  Desk(S, B, V)!RowsMoveOn
    <3>1. PICK new : new = [v1[a] EXCEPT !.detail = x]
      OBVIOUS
    <3>2. /\ DOMAIN new = DOMAIN v1[a] /\ new.revision = v1[a].revision
          /\ new.place = v1[a].place /\ new.missed = v1[a].missed
          /\ new.status = v1[a].status
      BY <2>3, <3>1 DEF Desk!RowOK
    <3>3. v1' = [v1 EXCEPT ![a] = new]
      BY <2>6, <3>1 DEF Desk!ProfileSaved
    <3>4. Desk(S, B, V)!RowOK(new) /\ Desk(S, B, V)!Follows(new, v1[a])
      BY <2>3, <3>2 DEF Desk!RowOK, Desk!Follows
    <3>5. QED
      BY <2>2, <3>2, <3>3, <3>4
  <2>7. ASSUME NEW a \in 1..Few, NEW x, NEW y, Desk(S, B, V)!ConfirmedLate(a, x, y)
        PROVE  Desk(S, B, V)!RowsMoveOn
    <3>1. PICK old, new : old = [v1[a] EXCEPT !.status = x] /\ new = [old EXCEPT !.detail = y]
      OBVIOUS
    <3>2. /\ DOMAIN new = DOMAIN v1[a] /\ new.revision = v1[a].revision
          /\ new.place = v1[a].place /\ new.missed = v1[a].missed
          /\ new.status = x /\ x # "CONFIRMED"
      BY <2>3, <2>7, <3>1 DEF Desk!RowOK, Desk!ConfirmedLate
    <3>3. v1' = [v1 EXCEPT ![a] = new]
      BY <2>7, <3>1 DEF Desk!ConfirmedLate
    <3>4. Desk(S, B, V)!RowOK(new) /\ Desk(S, B, V)!Follows(new, v1[a])
      BY <2>3, <3>2 DEF Desk!RowOK, Desk!Follows
    <3>5. QED
      BY <2>2, <3>2, <3>3, <3>4
  <2>8. QED
    BY <2>1, <2>4, <2>5, <2>6, <2>7
<1>4. Desk(S, B, V)!DeskInv'
  BY <1>1, <1>2, <1>3, DeskKeeps
<1>5. Desk(S, B, V)!SeesWhatItWrites
  BY <1>1 DEF Desk!SeesWhatItWrites
<1>6. QED
  BY <1>4, <1>5

LEMMA DeskStep ==
    ASSUME NEW S, NEW B, B \subseteq 1..Few, NEW V, Desk(S, B, V)!DeskInv,
           Desk(S, B, V)!DeskNext
    PROVE  Desk(S, B, V)!DeskInv' /\ Desk(S, B, V)!SeesWhatItWrites
<1> DEFINE Goal == Desk(S, B, V)!DeskInv' /\ Desk(S, B, V)!SeesWhatItWrites
<1>1. ASSUME NEW c \in v12, Desk(S, B, V)!Serves(c) PROVE Goal
  BY <1>1, DeskServes
<1>2. ASSUME NEW c \in v12, Desk(S, B, V)!Arrives(c) PROVE Goal
  BY <1>2, DeskArrives
<1>3. \/ \E c \in v12 : Desk(S, B, V)!Serves(c) \/ Desk(S, B, V)!Arrives(c)
      \/ Desk(S, B, V)!TimeComes
      \/ \E x, y, z : \E a \in 1..Few : \/ Desk(S, B, V)!DecidedElsewhere(a, x)
                                      \/ Desk(S, B, V)!EditedElsewhere(a, x, y, z)
                                      \/ Desk(S, B, V)!ProfileSaved(a, x)
                                      \/ Desk(S, B, V)!ConfirmedLate(a, x, y)
      \/ Desk(S, B, V)!refreshBoard \/ Desk(S, B, V)!refreshWeek
      \/ Desk(S, B, V)!closeDrawer \/ Desk(S, B, V)!setNoShowAction
      \/ Desk(S, B, V)!closeDialog \/ Desk(S, B, V)!submit \/ Desk(S, B, V)!loadSeries
      \/ Desk(S, B, V)!endSeries \/ Desk(S, B, V)!dragEnd
      \/ \E a \in 1..Few : Desk(S, B, V)!select(a) \/ Desk(S, B, V)!drag(a)
      \/ \E x : \/ Desk(S, B, V)!setView(x) \/ Desk(S, B, V)!setAction(x)
                \/ Desk(S, B, V)!setEditor(x) \/ Desk(S, B, V)!setDetail(x)
                \/ Desk(S, B, V)!setSelection(x) \/ Desk(S, B, V)!setStartTime(x)
                \/ Desk(S, B, V)!drop(x)
  BY DeskAppointments, Zenon DEF Desk!DeskNext
<1>4. QED
  BY <1>1, <1>2, <1>3, DeskActs, DeskElsewhere

LEMMA DeskStart ==
    ASSUME NEW S, NEW B, B \subseteq 1..Few, NEW V, Desk(S, B, V)!DeskInit
    PROVE  Desk(S, B, V)!DeskInv
<1>1. PICK status \in {"PENDING_APPROVAL", "CONFIRMED"},
           d \in (IF B = {} THEN Single ELSE Pair), p \in (IF B = {} THEN Pair ELSE Single) :
        v1 = [a \in Desk(S, B, V)!Appointment |->
                [status |-> status, detail |-> d, place |-> p, missed |-> FALSE,
                 revision |-> 1]]
  BY DEF Desk!DeskInit
<1>2. Desk(S, B, V)!RowsInv
  BY <1>1, DeskAppointments DEF Desk!RowsInv, Desk!RowOK
<1>3. /\ v4 = Idle /\ v6 = Idle /\ v5 = [rows |-> Idle, failed |-> FALSE] /\ v8 = Idle
      /\ v11 = Idle /\ v12 = {Desk(S, B, V)!Call("board", Idle, Idle, Idle)}
  BY DEF Desk!DeskInit
<1>4. Desk(S, B, V)!CallKnows(Desk(S, B, V)!Call("board", Idle, Idle, Idle))
  BY DEF Desk!Call, Desk!CallKnows, Desk!Writing, Desk!Actions, Desk!Visits, Desk!Editors
<1>5. QED
  BY <1>2, <1>3, <1>4 DEF Desk!DeskInv, Desk!KnowsBoard, Desk!KnowsAll, Desk!KnowsOne

LEMMA DeskUntouched ==
    ASSUME NEW S, NEW B, B \subseteq 1..Few, NEW V, Desk(S, B, V)!DeskInv,
           v1' = v1, v4' = v4, v5' = v5, v6' = v6, v8' = v8, v11' = v11, v12' = v12
    PROVE  Desk(S, B, V)!DeskInv' /\ Desk(S, B, V)!SeesWhatItWrites
<1>1. {"rows", "failed"} \subseteq DOMAIN v5'
  BY DEF Desk!DeskInv
<1>2. QED
  BY <1>1, DeskPage

(* No save of a service row, no move and no mark of a no-show writes over a
   change that was not on the screen (CatalogPage, AdminDashboard). *)
THEOREM ChangesAreNotLost == MCSpec => NothingIsOverwritten
<1> DEFINE One == part = "catalogue" => Catalogue(Pair, Few)!RowsAreOne
           Two == part = "crossing" => Catalogue({"kept"}, Some)!RowsAreOne
           Three == part = "week" => Desk({}, {}, {"week"})!DeskInv
           Four == part = "drawer" => Desk({1}, {1}, {"agenda"})!DeskInv
           Inv == One /\ Two /\ Three /\ Four
           Kept == /\ part = "catalogue" => Catalogue(Pair, Few)!KeepsSettings
                   /\ part = "crossing" => Catalogue({"kept"}, Some)!KeepsSettings
                   /\ part = "week" => Desk({}, {}, {"week"})!SeesWhatItWrites
                   /\ part = "drawer" => Desk({1}, {1}, {"agenda"})!SeesWhatItWrites
<1>0. {} \subseteq 1..Few /\ {1} \subseteq 1..Few
  BY PagesAssumption DEF Desk!DeskAssumption
<1>1. MCInit => Inv
  <2>1. MCInit => One
    BY CatalogueStart DEF MCInit
  <2>2. MCInit => Two
    BY CatalogueStart DEF MCInit
  <2>3. MCInit => Three
    BY <1>0, DeskStart DEF MCInit
  <2>4. MCInit => Four
    BY <1>0, DeskStart DEF MCInit
  <2>5. QED
    BY <2>1, <2>2, <2>3, <2>4
<1>2. Inv /\ [MCNext]_pageVars => Inv' /\ Kept
  <2>1. SUFFICES ASSUME Inv, [MCNext]_pageVars
                 PROVE  /\ part' = part
                        /\ part = "catalogue" => Catalogue(Pair, Few)!RowsAreOne'
                                                 /\ Catalogue(Pair, Few)!KeepsSettings
                        /\ part = "crossing" => Catalogue({"kept"}, Some)!RowsAreOne'
                                                /\ Catalogue({"kept"}, Some)!KeepsSettings
                        /\ part = "week" => Desk({}, {}, {"week"})!DeskInv'
                                            /\ Desk({}, {}, {"week"})!SeesWhatItWrites
                        /\ part = "drawer" => Desk({1}, {1}, {"agenda"})!DeskInv'
                                              /\ Desk({1}, {1}, {"agenda"})!SeesWhatItWrites
    OBVIOUS
  <2>2. CASE MCNext
    <3>1. part' = part
      BY <2>2 DEF MCNext
    <3>2. part = "catalogue" => Catalogue(Pair, Few)!RowsAreOne'
                                /\ Catalogue(Pair, Few)!KeepsSettings
      BY <2>1, <2>2, CatalogueStep DEF MCNext
    <3>3. part = "crossing" => Catalogue({"kept"}, Some)!RowsAreOne'
                               /\ Catalogue({"kept"}, Some)!KeepsSettings
      BY <2>1, <2>2, CatalogueStep DEF MCNext
    <3>4. part = "week" => Desk({}, {}, {"week"})!DeskInv'
                           /\ Desk({}, {}, {"week"})!SeesWhatItWrites
      BY <1>0, <2>1, <2>2, DeskStep DEF MCNext
    <3>5. part = "drawer" => Desk({1}, {1}, {"agenda"})!DeskInv'
                             /\ Desk({1}, {1}, {"agenda"})!SeesWhatItWrites
      BY <1>0, <2>1, <2>2, DeskStep DEF MCNext
    <3>6. QED
      BY <3>1, <3>2, <3>3, <3>4, <3>5
  <2>3. CASE UNCHANGED pageVars
    <3>1. /\ part' = part /\ v1' = v1 /\ v3' = v3 /\ v4' = v4 /\ v5' = v5 /\ v6' = v6
          /\ v8' = v8 /\ v10' = v10 /\ v11' = v11 /\ v12' = v12
      BY <2>3 DEF pageVars
    <3>2. part = "catalogue" => Catalogue(Pair, Few)!RowsAreOne'
                                /\ Catalogue(Pair, Few)!KeepsSettings
      BY <2>1, <3>1, CatalogueUntouched
    <3>3. part = "crossing" => Catalogue({"kept"}, Some)!RowsAreOne'
                               /\ Catalogue({"kept"}, Some)!KeepsSettings
      BY <2>1, <3>1, CatalogueUntouched
    <3>4. part = "week" => Desk({}, {}, {"week"})!DeskInv'
                           /\ Desk({}, {}, {"week"})!SeesWhatItWrites
      BY <1>0, <2>1, <3>1, DeskUntouched
    <3>5. part = "drawer" => Desk({1}, {1}, {"agenda"})!DeskInv'
                             /\ Desk({1}, {1}, {"agenda"})!SeesWhatItWrites
      BY <1>0, <2>1, <3>1, DeskUntouched
    <3>6. QED
      BY <3>1, <3>2, <3>3, <3>4, <3>5
  <2>4. QED
    BY <2>1, <2>2, <2>3
<1>3. Kept => /\ part = "catalogue" => Catalogue(Pair, Few)!KeepsSettings
              /\ part = "crossing" => Catalogue({"kept"}, Some)!KeepsSettings
              /\ part = "week" => Desk({}, {}, {"week"})!SeesWhatItWrites
              /\ part = "drawer" => Desk({1}, {1}, {"agenda"})!SeesWhatItWrites
  OBVIOUS
<1> HIDE DEF Inv, Kept
<1>4. QED
  BY <1>1, <1>2, <1>3, PTL DEF MCSpec, NothingIsOverwritten

-----------------------------------------------------------------------------
(* The history of the customer: VisitHistory *)

(* Any set of naturals that has an element has a least one. *)
LEMMA LeastNatural ==
    ASSUME NEW T, T \subseteq Nat, T # {}
    PROVE  \E x \in T : \A y \in T : x <= y
<1> DEFINE R == OpToRel(<, Nat)
<1>1. PICK x \in T : \A y \in T : ~ (<<y, x>> \in R)
  BY NatLessThanWellFounded, WFMin
<1>2. R = {ss \in Nat \X Nat : ss[1] < ss[2]}
  BY Zenon DEF OpToRel
<1> HIDE DEF R
<1>3. \A y \in Nat : y < x => <<y, x>> \in R
  BY <1>1, <1>2
<1>4. ASSUME NEW y \in T PROVE x <= y
  <2>1. x \in Nat /\ y \in Nat
    OBVIOUS
  <2>2. ~ (y < x)
    BY <1>1, <1>3, <2>1
  <2>3. QED
    BY <2>1, <2>2
<1>5. QED
  BY <1>4

(* s lists n numbers of S in their order. *)
Counts(s, n, S) == s \in [1..n -> S] /\ \A i, j \in 1..n : i < j => s[i] < s[j]

LEMMA NumbersAreFinite ==
    ASSUME NEW m \in Nat, NEW S \in SUBSET (1..m)
    PROVE  IsFiniteSet(S) /\ Cardinality(S) \in Nat
<1>1. \A v \in S : v <= m /\ v \in Nat
  OBVIOUS
<1>2. IsFiniteSet(S)
  BY <1>1, FS_BoundedSetOfNaturals
<1>3. QED
  BY <1>2, FS_CardinalityType

(* Every set of numbers can be counted in order: the largest one goes to the
   end of the others. *)
LEMMA CountExists ==
    ASSUME NEW m \in Nat, NEW S \in SUBSET (1..m)
    PROVE  \E s : Counts(s, Cardinality(S), S)
<1> DEFINE T == {n \in Nat : \E U \in SUBSET (1..n) : ~ \E s : Counts(s, Cardinality(U), U)}
<1>1. SUFFICES ASSUME T # {} PROVE FALSE
  OBVIOUS
<1>2. PICK n \in T : \A k \in T : n <= k
  <2>1. T \subseteq Nat
    OBVIOUS
  <2>2. QED
    BY <1>1, <2>1, LeastNatural, Zenon
<1>3. PICK U \in SUBSET (1..n) : ~ \E s : Counts(s, Cardinality(U), U)
  OBVIOUS
<1>4. n \in Nat /\ IsFiniteSet(U) /\ Cardinality(U) \in Nat
  BY NumbersAreFinite
<1>5. n # 0
  <2>1. SUFFICES ASSUME n = 0 PROVE FALSE
    OBVIOUS
  <2>2. U = {}
    BY <2>1
  <2>3. Cardinality(U) = 0
    BY <2>2, FS_EmptySet
  <2>4. Counts([i \in 1..0 |-> i], 0, {})
    BY DEF Counts
  <2>5. QED
    BY <1>3, <2>2, <2>3, <2>4
<1>6. n - 1 \in Nat /\ n - 1 \notin T
  BY <1>2, <1>4, <1>5
<1>7. \A V \in SUBSET (1..n - 1) : \E s : Counts(s, Cardinality(V), V)
  BY <1>6
<1> HIDE DEF T
<1>8. CASE n \notin U
  <2>1. U \in SUBSET (1..n - 1)
    BY <1>4, <1>8
  <2>2. QED
    BY <1>3, <1>7, <2>1
<1>9. CASE n \in U
  <2> DEFINE V == U \ {n}
  <2>1. V \in SUBSET (1..n - 1)
    BY <1>4
  <2>2. Cardinality(V) \in Nat /\ Cardinality(U) = Cardinality(V) + 1
    <3>1. Cardinality(U \ {n}) = Cardinality(U) - 1 /\ IsFiniteSet(U \ {n})
      BY <1>4, <1>9, FS_RemoveElement
    <3>2. Cardinality(U \ {n}) \in Nat
      BY <3>1, FS_CardinalityType
    <3>3. QED
      BY <1>4, <3>1, <3>2
  <2>3. PICK s : Counts(s, Cardinality(V), V)
    BY <1>7, <2>1
  <2> DEFINE c == Cardinality(V)
             t == [i \in 1..c + 1 |-> IF i = c + 1 THEN n ELSE s[i]]
  <2>4. c \in Nat /\ s \in [1..c -> V] /\ \A i, j \in 1..c : i < j => s[i] < s[j]
    BY <2>2, <2>3 DEF Counts
  <2>5. \A i \in 1..c : s[i] \in U /\ s[i] < n
    <3>1. \A v \in V : v \in U /\ v < n
      BY <1>4, <2>1
    <3>2. QED
      BY <2>4, <3>1
  <2> HIDE DEF c, V
  <2>6. t \in [1..c + 1 -> U]
    BY <1>9, <2>4, <2>5
  <2>7. ASSUME NEW i \in 1..c + 1, NEW j \in 1..c + 1, i < j PROVE t[i] < t[j]
    BY <2>4, <2>5, <2>7
  <2>8. Counts(t, c + 1, U)
    BY <2>6, <2>7 DEF Counts
  <2>9. QED
    BY <1>3, <2>2, <2>8 DEF c
<1>10. QED
  BY <1>8, <1>9

(* Cardinality is the same inside the instance. *)
LEMMA HistoryCardinality ==
    ASSUME NEW S
    PROVE  History!Cardinality(S) = Cardinality(S)
  BY Zenon DEF History!Cardinality, Cardinality

(* Ascending lists the elements, all of them, in their order. *)
LEMMA AscendingCounts ==
    ASSUME NEW m \in Nat, NEW S \in SUBSET (1..m)
    PROVE  /\ Cardinality(S) \in Nat
           /\ Counts(History!Ascending(S), Cardinality(S), S)
           /\ \A v \in S : \E i \in 1..Cardinality(S) : History!Ascending(S)[i] = v
<1> DEFINE n == Cardinality(S)
           a == History!Ascending(S)
<1>1. IsFiniteSet(S) /\ n \in Nat
  BY NumbersAreFinite
<1>2. \E s \in [1..n -> S] : \A i, j \in 1..n : i < j => s[i] < s[j]
  BY CountExists DEF Counts
<1>3. Counts(a, n, S)
  <2>1. a = CHOOSE s \in [1..n -> S] : \A i, j \in 1..n : i < j => s[i] < s[j]
    BY HistoryCardinality DEF History!Ascending
  <2> HIDE DEF a, n
  <2>2. QED
    BY <1>2, <2>1 DEF Counts
<1> HIDE DEF a, n
<1>4. a \in Injection(1..n, S)
  <2>1. a \in [1..n -> S] /\ \A i \in 1..n : a[i] \in Nat
    <3>1. a \in [1..n -> S] /\ \A v \in S : v \in Nat
      BY <1>3 DEF Counts
    <3>2. QED
      BY <3>1
  <2>2. ASSUME NEW i \in 1..n, NEW j \in 1..n, a[i] = a[j] PROVE i = j
    BY <1>1, <1>3, <2>1, <2>2 DEF Counts
  <2>3. QED
    BY <2>1, <2>2 DEF Injection, IsInjective
<1>5. Cardinality(1..n) = n
  BY <1>1, FS_Interval
<1>6. a \in Surjection(1..n, S)
  BY <1>1, <1>4, <1>5, FS_Injection DEF n
<1>7. QED
  BY <1>1, <1>3, <1>6 DEF Surjection, a, n

(* The numbers from 1 on are in order as they are. *)
LEMMA AscendingOfAll ==
    ASSUME NEW m \in Nat
    PROVE  History!Ascending(1..m) = [i \in 1..m |-> i]
<1> DEFINE a == History!Ascending(1..m)
<1>1. Cardinality(1..m) = m
  BY FS_Interval
<1>2. /\ a \in [1..m -> 1..m] /\ \A i, j \in 1..m : i < j => a[i] < a[j]
      /\ \A v \in 1..m : \E i \in 1..m : a[i] = v
  BY <1>1, AscendingCounts DEF Counts
<1> HIDE DEF a
<1>3. SUFFICES ASSUME NEW k \in 1..m, a[k] # k PROVE FALSE
  BY <1>2 DEF a
<1> DEFINE T == {i \in 1..m : a[i] # i}
<1>4. PICK n \in T : \A i \in T : n <= i
  <2>1. T \subseteq Nat /\ T # {}
    BY <1>3
  <2>2. QED
    BY <2>1, LeastNatural, Zenon
<1>5. n \in 1..m /\ a[n] # n /\ a[n] \in 1..m /\ \A i \in 1..n - 1 : a[i] = i
  BY <1>2, <1>4
<1> HIDE DEF T
<1>6. CASE a[n] < n
  <2>1. a[a[n]] = a[n]
    BY <1>5, <1>6
  <2>2. QED
    BY <1>2, <1>5, <1>6, <2>1
<1>7. CASE a[n] > n
  <2>1. PICK i \in 1..m : a[i] = n
    BY <1>2, <1>5
  <2>2. i > n
    BY <1>5, <2>1
  <2>3. a[n] < a[i]
    BY <1>2, <1>5, <2>2
  <2>4. QED
    BY <1>5, <1>7, <2>1, <2>3
<1>8. QED
  BY <1>5, <1>6, <1>7

(* A sequence that lists nothing twice is its own deduplication. *)
LEMMA NothingTwice ==
    ASSUME NEW S, NEW s \in Seq(S), \A i, j \in 1..Len(s) : i < j => s[i] # s[j]
    PROVE  History!deduplicateBookings(s) = s
<1>1. Len(s) \in Nat /\ s = [k \in 1..Len(s) |-> s[k]]
  OBVIOUS
<1>2. {i \in 1..Len(s) : \A j \in 1..i - 1 : s[j] # s[i]} = 1..Len(s)
  BY <1>1
<1>3. History!Ascending(1..Len(s)) = [i \in 1..Len(s) |-> i]
  BY <1>1, AscendingOfAll
<1>4. Len([i \in 1..Len(s) |-> i]) = Len(s)
  BY <1>1
<1> DEFINE first == [i \in 1..Len(s) |-> i]
<1>5. History!deduplicateBookings(s) = [k \in 1..Len(first) |-> s[first[k]]]
  BY <1>2, <1>3, Zenon DEF History!deduplicateBookings
<1>6. QED
  BY <1>1, <1>4, <1>5

(* A beginning of a sequence *)
LEMMA FirstOfIs ==
    ASSUME NEW S, NEW s \in Seq(S), NEW n \in Nat
    PROVE  /\ History!FirstOf(s, n) \in Seq(S)
           /\ Len(History!FirstOf(s, n)) = IF Len(s) < n THEN Len(s) ELSE n
           /\ \A i \in 1..Len(History!FirstOf(s, n)) : History!FirstOf(s, n)[i] = s[i]
  BY DEF History!FirstOf

(* The numbers of a set, the last one first *)
LEMMA DescendingFalls ==
    ASSUME NEW m \in Nat, NEW S \in SUBSET (1..m)
    PROVE  /\ History!Descending(S) \in Seq(S)
           /\ \A i, j \in 1..Len(History!Descending(S)) :
                 i < j => History!Descending(S)[i] > History!Descending(S)[j]
           /\ \A v \in S : \E i \in 1..Len(History!Descending(S)) : History!Descending(S)[i] = v
<1> DEFINE n == Cardinality(S)
           a == History!Ascending(S)
           d == History!Descending(S)
<1>1. /\ n \in Nat /\ a \in [1..n -> S] /\ \A i, j \in 1..n : i < j => a[i] < a[j]
      /\ \A v \in S : \E i \in 1..n : a[i] = v
  BY AscendingCounts DEF Counts
<1> HIDE DEF n, a
<1>2. a \in Seq(S) /\ Len(a) = n
  BY <1>1
<1>3. d = [i \in 1..n |-> a[(n - i) + 1]]
  BY <1>2, Zenon DEF History!Descending, History!Reverse, a
<1> HIDE DEF d
<1>4. \A i \in 1..n : (n - i) + 1 \in 1..n
  BY <1>1
<1>5. d \in [1..n -> S]
  BY <1>1, <1>3, <1>4
<1>6. d \in Seq(S) /\ Len(d) = n
  BY <1>1, <1>5
<1>7. ASSUME NEW i \in 1..n, NEW j \in 1..n, i < j PROVE d[i] > d[j]
  <2>1. (n - j) + 1 < (n - i) + 1
    BY <1>1, <1>7
  <2>2. a[(n - j) + 1] < a[(n - i) + 1]
    BY <1>1, <1>4, <2>1
  <2>3. d[i] \in Nat /\ d[j] \in Nat
    <3>1. \A v \in S : v \in Nat
      OBVIOUS
    <3>2. QED
      BY <1>5, <3>1
  <2>4. QED
    BY <1>3, <2>2, <2>3
<1>8. ASSUME NEW v \in S PROVE \E i \in 1..n : d[i] = v
  <2>1. PICK k \in 1..n : a[k] = v
    BY <1>1
  <2>2. (n - k) + 1 \in 1..n /\ (n - ((n - k) + 1)) + 1 = k
    BY <1>1
  <2>3. QED
    BY <1>3, <2>1, <2>2
<1>9. QED
  BY <1>6, <1>7, <1>8 DEF d

LEMMA HistoryBounds ==
    /\ Many \in Nat /\ Few \in Nat \ {0} /\ Idle \notin Nat
    /\ History!Booked = 1..Many
  BY PagesAssumption DEF History!HistoryAssumption, History!Booked

(* A page of the server: the last ones of what it looks at, in order, and
   after its cursor whatever it leaves out. *)
LEMMA PageIsCut ==
    ASSUME NEW rest \in SUBSET (1..Many)
    PROVE  LET found == History!FirstOf(History!Descending(rest), Few + 1)
               items == History!FirstOf(found, Few)
               next == History!NextCursor(found)
           IN  /\ History!EndsAt(items, next)
               /\ History!ToSet(items) \subseteq rest
               /\ History!Covers(items, next, rest)
<1> DEFINE d == History!Descending(rest)
           found == History!FirstOf(d, Few + 1)
           items == History!FirstOf(found, Few)
           next == History!NextCursor(found)
<1>0. Many \in Nat /\ Few \in Nat \ {0} /\ Idle \notin Nat /\ History!Booked = 1..Many
  BY HistoryBounds
<1>1. /\ d \in Seq(rest) /\ \A i, j \in 1..Len(d) : i < j => d[i] > d[j]
      /\ \A v \in rest : \E i \in 1..Len(d) : d[i] = v
  BY <1>0, DescendingFalls
<1> HIDE DEF d
<1>2. /\ found \in Seq(rest) /\ Len(found) = IF Len(d) < Few + 1 THEN Len(d) ELSE Few + 1
      /\ \A i \in 1..Len(found) : found[i] = d[i]
  BY <1>0, <1>1, FirstOfIs
<1>3. next = IF Len(found) > Few THEN found[Few] ELSE Idle
  BY DEF History!NextCursor
<1> HIDE DEF found
<1>4. /\ items \in Seq(rest) /\ Len(items) = IF Len(found) < Few THEN Len(found) ELSE Few
      /\ \A i \in 1..Len(items) : items[i] = found[i]
  BY <1>0, <1>2, FirstOfIs
<1> HIDE DEF items, next
<1>5. Len(d) \in Nat /\ Len(found) \in Nat /\ Len(items) \in Nat
  BY <1>1, <1>2, <1>4
<1>6. \A i \in 1..Len(items) : i \in 1..Len(d) /\ items[i] = d[i]
  BY <1>0, <1>2, <1>4, <1>5
<1>7. History!ToSet(items) = {items[i] : i \in 1..Len(items)}
  BY <1>4 DEF History!ToSet
<1>8. ASSUME Len(d) > Few
      PROVE  /\ next # Idle => Len(items) > 0 /\ next = items[Len(items)]
             /\ \A v \in rest : v \in History!ToSet(items) \/ (next # Idle /\ v < next)
  <2>1. Len(found) = Few + 1 /\ Len(items) = Few /\ next = d[Few] /\ items[Few] = d[Few]
    BY <1>0, <1>2, <1>3, <1>4, <1>5, <1>6, <1>8
  <2>2. \A i \in 1..Len(d) : i <= Few \/ d[i] < next
    BY <1>0, <1>1, <1>5, <1>8, <2>1
  <2>3. \A i \in 1..Len(d) : i <= Few => i \in 1..Len(items)
    BY <1>0, <1>5, <2>1
  <2>4. next # Idle
    <3>1. \A v \in rest : v \in Nat
      OBVIOUS
    <3>2. d[Few] \in rest
      BY <1>0, <1>1, <1>5, <1>8
    <3>3. QED
      BY <1>0, <2>1, <3>1, <3>2
  <2>5. \A v \in rest : (\E i \in 1..Len(items) : items[i] = v) \/ v < next
    BY <1>1, <1>6, <2>2, <2>3
  <2>6. next # Idle => Len(items) > 0 /\ next = items[Len(items)]
    BY <1>0, <2>1
  <2>7. \A v \in rest : v \in History!ToSet(items) \/ (next # Idle /\ v < next)
    BY <1>7, <2>4, <2>5
  <2>8. QED
    BY <2>6, <2>7
<1>9. ASSUME ~(Len(d) > Few)
      PROVE  /\ next # Idle => Len(items) > 0 /\ next = items[Len(items)]
             /\ \A v \in rest : v \in History!ToSet(items) \/ (next # Idle /\ v < next)
  <2>1. Len(found) = Len(d) /\ Len(items) = Len(d) /\ next = Idle
    BY <1>0, <1>2, <1>3, <1>4, <1>5, <1>9
  <2>2. \A v \in rest : \E i \in 1..Len(items) : items[i] = v
    BY <1>1, <1>6, <2>1
  <2>3. \A v \in rest : v \in History!ToSet(items)
    BY <1>7, <2>2
  <2>4. QED
    BY <2>1, <2>3
<1>10. items \in Seq(History!Booked) /\ History!Falls(items)
  <2>1. rest \subseteq History!Booked
    BY <1>0
  <2>2. items \in Seq(History!Booked)
    <3>1. items \in [1..Len(items) -> rest]
      BY <1>4
    <3>2. items \in [1..Len(items) -> History!Booked]
      BY <2>1, <3>1
    <3>3. QED
      BY <1>5, <3>2
  <2>3. DOMAIN items = 1..Len(items)
    BY <1>4
  <2>4. QED
    BY <1>1, <1>6, <2>2, <2>3 DEF History!Falls
<1>11. History!EndsAt(items, next) /\ History!Covers(items, next, rest)
  BY <1>8, <1>9, <1>10 DEF History!EndsAt, History!Covers
<1>12. History!ToSet(items) \subseteq rest
  BY <1>4, <1>7
<1>13. QED
  BY <1>11, <1>12 DEF items, next, found, d

(* A step that leaves the visits and the list of the history as they are, and
   starts no call for it. *)
LEMMA HistoryUntouched ==
    ASSUME History!HistoryInv, v1' = v1, v5' = v5,
           DOMAIN v2' = DOMAIN v2, v2'["history"] = v2["history"],
           \A c \in v4' : {"view", "cursor", "page"} \subseteq DOMAIN c,
           \A c \in v4' : c.view = "history" => c \in v4
    PROVE  History!HistoryInv'
<1> DEFINE list == v2["history"]
<1>1. \A c \in History!HistoryCalls' : c \in History!HistoryCalls
  BY DEF History!HistoryCalls
<1>2. \A c : History!PageOK(c)' <=> History!PageOK(c)
  BY DEF History!PageOK, History!Covers, History!EndsAt, History!ToSet, History!Booked, History!Falls
<1>3. \A c, d \in History!HistoryCalls' : c = d
  BY <1>1 DEF History!HistoryInv
<1>4. ASSUME NEW c \in History!HistoryCalls'
      PROVE  /\ list'.loading /\ ~list'.error
             /\ c.cursor \in {Idle, list'.cursor}
             /\ c.page # Idle => History!PageOK(c)'
  BY <1>1, <1>2, <1>4 DEF History!HistoryInv
<1>5. QED
  BY <1>3, <1>4 DEF History!HistoryInv, History!EndsAt, History!Covers, History!ToSet,
     History!Booked, History!Falls

(* A visit that is history stays there. *)
LEMMA VisitGoesOn ==
    ASSUME History!HistoryInv, NEW v \in History!Booked, History!VisitMovesOn(v)
    PROVE  History!HistoryInv'
<1>1. /\ v2' = v2 /\ v4' = v4 /\ v5' = v5 /\ DOMAIN v1' = DOMAIN v1
      /\ \A u \in History!Booked : v1[u] = "history" => v1'[u] = "history"
  BY DEF History!VisitMovesOn, History!HistoryInv
<1>2. ASSUME NEW c, History!PageOK(c) PROVE History!PageOK(c)'
  BY <1>1, <1>2 DEF History!PageOK, History!Covers, History!EndsAt, History!ToSet,
     History!Booked, History!Falls
<1>3. \A c \in History!HistoryCalls' : c \in History!HistoryCalls
  BY <1>1 DEF History!HistoryCalls
<1>4. \A c, d \in History!HistoryCalls' : c = d
  BY <1>3 DEF History!HistoryInv
<1>5. ASSUME NEW c \in History!HistoryCalls'
      PROVE  /\ v2'["history"].loading /\ ~v2'["history"].error
             /\ c.cursor \in {Idle, v2'["history"].cursor}
             /\ c.page # Idle => History!PageOK(c)'
  BY <1>1, <1>2, <1>3, <1>5 DEF History!HistoryInv
<1>6. \A u \in v5' : u \in History!Booked /\ v1'[u] = "history"
  BY <1>1 DEF History!HistoryInv
<1>7. QED
  BY <1>1, <1>4, <1>5, <1>6 DEF History!HistoryInv, History!EndsAt, History!Covers,
     History!ToSet, History!Booked, History!Falls

(* The page that answers a call for the history *)
LEMMA PageOfHistory ==
    ASSUME History!HistoryInv, NEW c \in History!HistoryCalls, NEW d,
           d = [c EXCEPT !.page = History!Listed("history", c.cursor)]
    PROVE  History!PageOK(d)
<1> DEFINE rows == {v \in History!Booked : v1[v] = "history"}
           rest == IF c.cursor = Idle THEN rows ELSE {v \in rows : v < c.cursor}
           found == History!FirstOf(History!Descending(rest), Few + 1)
           items == History!FirstOf(found, Few)
           next == History!NextCursor(found)
<1>1. {"view", "cursor", "page"} \subseteq DOMAIN c
  BY DEF History!HistoryInv, History!HistoryCalls
<1>2. d.cursor = c.cursor /\ d.page = History!Listed("history", c.cursor)
  BY <1>1
<1>3. History!Listed("history", c.cursor) = [items |-> items, next |-> next, rows |-> rows]
  BY Zenon DEF History!Listed
<1>4. rest \in SUBSET (1..Many)
  BY HistoryBounds
<1>5. History!EndsAt(items, next) /\ History!ToSet(items) \subseteq rest
      /\ History!Covers(items, next, rest)
  BY <1>4, PageIsCut
<1> HIDE DEF items, next
<1>6. /\ DOMAIN d.page = {"items", "next", "rows"}
      /\ d.page.items = items /\ d.page.next = next /\ d.page.rows = rows
  BY <1>2, <1>3
<1>7. ASSUME c.cursor = Idle
      PROVE  /\ History!Covers(items, next, rows)
             /\ \A v \in rows : v \in History!Booked /\ v1[v] = "history"
  BY <1>5, <1>7
<1>8. ASSUME c.cursor # Idle
      PROVE  /\ \A v \in History!ToSet(items) : v < c.cursor
             /\ History!Covers(items, next, {v \in v5 : v < c.cursor})
  <2>1. \A v \in v5 : v \in rows
    BY DEF History!HistoryInv
  <2>2. QED
    BY <1>5, <1>8, <2>1 DEF History!Covers
<1>9. QED
  BY <1>2, <1>5, <1>6, <1>7, <1>8 DEF History!PageOK

(* The server reads a page. *)
LEMMA PageIsRead ==
    ASSUME History!HistoryInv, NEW call \in v4, History!ListBookings(call)
    PROVE  History!HistoryInv'
<1>0. PICK d : d = [call EXCEPT !.page = History!Listed(call.view, call.cursor)]
  OBVIOUS
<1>1. {"view", "cursor", "page"} \subseteq DOMAIN call
  BY DEF History!HistoryInv
<1>2. /\ v4' = (v4 \ {call}) \cup {d}
      /\ v1' = v1 /\ v2' = v2 /\ v3' = v3 /\ v5' = v5
  BY <1>0 DEF History!ListBookings
<1>3. DOMAIN d = DOMAIN call /\ d.view = call.view /\ d.cursor = call.cursor
  BY <1>0, <1>1
<1>4. call.view = "history" => d = [call EXCEPT !.page = History!Listed("history", call.cursor)]
  BY <1>0
<1>5. \A c \in v4' : {"view", "cursor", "page"} \subseteq DOMAIN c
  BY <1>1, <1>2, <1>3 DEF History!HistoryInv
<1>6. CASE call.view # "history"
  <2>1. \A c \in v4' : c.view = "history" => c \in v4
    BY <1>2, <1>3, <1>6
  <2>2. QED
    BY <1>2, <1>5, <2>1, HistoryUntouched
<1>7. CASE call.view = "history"
  <2>1. call \in History!HistoryCalls
    BY <1>7 DEF History!HistoryCalls
  <2>2. History!PageOK(d)
    BY <1>4, <1>7, <2>1, PageOfHistory
  <2>3. History!PageOK(d)'
    BY <1>2, <2>2 DEF History!PageOK, History!Covers, History!EndsAt, History!ToSet,
       History!Booked, History!Falls
  <2>4. \A c \in History!HistoryCalls' : c = d
    BY <1>2, <2>1 DEF History!HistoryCalls, History!HistoryInv
  <2>5. v2["history"].loading /\ ~v2["history"].error /\ d.cursor \in {Idle, v2["history"].cursor}
    BY <1>3, <2>1 DEF History!HistoryInv
  <2>6. \A c \in History!HistoryCalls' :
          /\ v2'["history"].loading /\ ~v2'["history"].error
          /\ c.cursor \in {Idle, v2'["history"].cursor}
          /\ c.page # Idle => History!PageOK(c)'
    BY <1>2, <2>3, <2>4, <2>5
  <2>7. QED
    BY <1>2, <1>5, <2>4, <2>6 DEF History!HistoryInv, History!EndsAt, History!Covers,
       History!ToSet, History!Booked, History!Falls
<1>8. QED
  BY <1>6, <1>7

LEMMA SequenceIsFunction ==
    ASSUME NEW S, NEW s \in Seq(S)
    PROVE  Len(s) \in Nat /\ s \in [1..Len(s) -> S] /\ DOMAIN s = 1..Len(s)
OBVIOUS

(* The list goes on with what comes after its cursor. *)
LEMMA GoesOn ==
    ASSUME NEW s, NEW cursor, NEW t, NEW next, cursor # Idle,
           History!EndsAt(s, cursor), History!EndsAt(t, next),
           \A v \in History!ToSet(t) : v < cursor
    PROVE  /\ History!EndsAt(s \o t, next)
           /\ History!deduplicateBookings(s \o t) = s \o t
           /\ \A v : v \in History!ToSet(s) \/ v \in History!ToSet(t) => v \in History!ToSet(s \o t)
<1>1. /\ s \in Seq(1..Many) /\ \A i, j \in 1..Len(s) : i < j => s[i] > s[j]
      /\ Len(s) > 0 /\ cursor = s[Len(s)]
  BY HistoryBounds DEF History!EndsAt, History!Falls
<1>2. /\ t \in Seq(1..Many) /\ \A i, j \in 1..Len(t) : i < j => t[i] > t[j]
      /\ next # Idle => Len(t) > 0 /\ next = t[Len(t)]
  BY HistoryBounds DEF History!EndsAt, History!Falls
<1>3. /\ Len(s) \in Nat /\ Len(t) \in Nat
      /\ s \in [1..Len(s) -> 1..Many] /\ t \in [1..Len(t) -> 1..Many]
  BY <1>1, <1>2, SequenceIsFunction, Zenon
<1>4. \A i \in 1..Len(t) : t[i] < cursor
  <2>1. \A i \in DOMAIN t : t[i] \in History!ToSet(t)
    BY DEF History!ToSet
  <2>2. DOMAIN t = 1..Len(t)
    BY <1>3
  <2>3. QED
    BY <2>1, <2>2
<1>5. \A i \in 1..Len(s) : s[i] >= cursor
  BY <1>1, <1>3
<1>6. Many \in Nat /\ \A v \in 1..Many : v \in Int
  BY HistoryBounds
<1> DEFINE all == s \o t
<1>7. /\ all \in Seq(1..Many) /\ Len(all) = Len(s) + Len(t)
      /\ \A i \in 1..Len(all) : all[i] = IF i <= Len(s) THEN s[i] ELSE t[i - Len(s)]
  BY <1>1, <1>2
<1> HIDE DEF all
<1>8. ASSUME NEW i \in 1..Len(t)
      PROVE  Len(s) + i \in 1..Len(all) /\ all[Len(s) + i] = t[i]
  <2>1. Len(s) + i \in 1..Len(all) /\ Len(s) + i > Len(s) /\ (Len(s) + i) - Len(s) = i
    BY <1>3, <1>7
  <2>2. QED
    BY <1>7, <2>1
<1>9. \A i \in 1..Len(s) : i \in 1..Len(all) /\ all[i] = s[i]
  BY <1>3, <1>7
<1>10. ASSUME NEW i \in 1..Len(all), NEW j \in 1..Len(all), i < j PROVE all[i] > all[j]
  <2>1. CASE j <= Len(s)
    BY <1>1, <1>3, <1>7, <1>10, <2>1
  <2>2. CASE i > Len(s)
    <3>1. i - Len(s) \in 1..Len(t) /\ j - Len(s) \in 1..Len(t) /\ i - Len(s) < j - Len(s)
      BY <1>3, <1>7, <1>10, <2>2
    <3>2. t[i - Len(s)] > t[j - Len(s)]
      BY <1>2, <3>1
    <3>3. QED
      BY <1>3, <1>7, <1>10, <2>2, <3>2
  <2>3. CASE i <= Len(s) /\ j > Len(s)
    <3>1. i \in 1..Len(s) /\ j - Len(s) \in 1..Len(t)
      BY <1>3, <1>7, <2>3
    <3>2. s[i] >= cursor /\ t[j - Len(s)] < cursor
      BY <1>4, <1>5, <3>1
    <3>5. s[i] \in Int /\ t[j - Len(s)] \in Int /\ cursor \in Int
      <4>1. s[i] \in 1..Many /\ t[j - Len(s)] \in 1..Many
        BY <1>3, <3>1
      <4>3. Len(s) \in 1..Len(s)
        BY <1>1, <1>3
      <4>4. cursor \in 1..Many
        BY <1>1, <1>3, <4>3
      <4>2. QED
        BY <1>6, <4>1, <4>4
    <3>3. all[i] = s[i] /\ all[j] = t[j - Len(s)]
      BY <1>3, <1>7, <2>3
    <3>4. QED
      BY <3>2, <3>3, <3>5
  <2>4. QED
    BY <1>3, <1>7, <2>1, <2>2, <2>3
<1>11. History!deduplicateBookings(all) = all
  <2>1. \A i \in 1..Len(all) : all[i] \in Int
    BY <1>6, <1>7
  <2>2. \A i, j \in 1..Len(all) : i < j => all[i] # all[j]
    BY <1>10, <2>1
  <2>3. QED
    BY <1>7, <2>2, NothingTwice
<1>12. History!EndsAt(all, next)
  <2>1. all \in Seq(History!Booked) /\ History!Falls(all)
    BY <1>7, <1>10, HistoryBounds DEF History!Falls
  <2>2. next # Idle => Len(all) > 0 /\ next = all[Len(all)]
    BY <1>2, <1>3, <1>7, <1>8
  <2>3. QED
    BY <2>1, <2>2 DEF History!EndsAt
<1>13. \A v : v \in History!ToSet(s) \/ v \in History!ToSet(t) => v \in History!ToSet(all)
  <2>1. DOMAIN s = 1..Len(s) /\ DOMAIN t = 1..Len(t) /\ DOMAIN all = 1..Len(all)
    BY <1>3, <1>7
  <2>2. QED
    BY <1>8, <1>9, <2>1 DEF History!ToSet
<1>14. QED
  BY <1>11, <1>12, <1>13 DEF all

(* The list after an answer *)
ListAfter(call) ==
    [items |-> IF call.cursor # Idle
               THEN History!deduplicateBookings(v2["history"].items \o call.page.items)
               ELSE call.page.items,
     cursor |-> call.page.next, loading |-> FALSE, error |-> FALSE]

LEMMA HistoryPageArrives ==
    ASSUME History!HistoryInv, NEW call \in v4, call.view = "history",
           History!ListArrives(call)
    PROVE  History!HistoryInv'
<1>1. /\ DOMAIN v2 = {"upcoming", "history"}
      /\ {"view", "cursor", "page"} \subseteq DOMAIN call
      /\ call \in History!HistoryCalls
  BY DEF History!HistoryInv, History!HistoryCalls
<1>2. call.page # Idle /\ v4' = v4 \ {call} /\ v1' = v1
  BY DEF History!ListArrives
<1>3. v5' = IF call.cursor = Idle THEN call.page.rows ELSE v5
  BY DEF History!ListArrives
<1> DEFINE after == ListAfter(call)
<1>4. v2' = [v2 EXCEPT !["history"] = after]
  BY DEF History!ListArrives, ListAfter
<1>5. v2'["history"] = after /\ DOMAIN v2' = DOMAIN v2
  BY <1>1, <1>4
<1>6. History!PageOK(call) /\ call.cursor \in {Idle, v2["history"].cursor}
      /\ {"items", "next", "rows"} \subseteq DOMAIN call.page
      /\ History!EndsAt(call.page.items, call.page.next)
  BY <1>1, <1>2 DEF History!HistoryInv, History!PageOK
<1>7. /\ DOMAIN after = {"items", "cursor", "loading", "error"}
      /\ after.cursor = call.page.next /\ after.loading = FALSE /\ after.error = FALSE
      /\ call.cursor = Idle => after.items = call.page.items
      /\ call.cursor # Idle =>
            after.items = History!deduplicateBookings(v2["history"].items \o call.page.items)
  BY DEF ListAfter
<1> HIDE DEF after
<1>8. ASSUME call.cursor = Idle
      PROVE  /\ History!EndsAt(after.items, after.cursor)
             /\ History!Covers(after.items, after.cursor, v5')
             /\ \A v \in v5' : v \in History!Booked /\ v1[v] = "history"
  <2>1. History!EndsAt(after.items, after.cursor)
    BY <1>6, <1>7, <1>8
  <2>2. /\ History!Covers(after.items, after.cursor, v5')
        /\ \A v \in v5' : v \in History!Booked /\ v1[v] = "history"
    BY <1>3, <1>6, <1>7, <1>8 DEF History!PageOK
  <2>3. QED
    BY <2>1, <2>2
<1>9. ASSUME call.cursor # Idle
      PROVE  /\ History!EndsAt(after.items, after.cursor)
             /\ History!Covers(after.items, after.cursor, v5')
             /\ \A v \in v5' : v \in History!Booked /\ v1[v] = "history"
  <2> DEFINE s == v2["history"].items
             t == call.page.items
  <2>1. call.cursor = v2["history"].cursor /\ History!EndsAt(s, call.cursor)
    BY <1>6, <1>9 DEF History!HistoryInv
  <2>2. /\ \A v \in History!ToSet(t) : v < call.cursor
        /\ History!Covers(t, call.page.next, {v \in v5 : v < call.cursor})
    BY <1>6, <1>9 DEF History!PageOK
  <2>3. History!Covers(s, call.cursor, v5)
    BY <1>9, <2>1 DEF History!HistoryInv
  <2>4. /\ History!EndsAt(s \o t, call.page.next)
        /\ History!deduplicateBookings(s \o t) = s \o t
        /\ \A v : v \in History!ToSet(s) \/ v \in History!ToSet(t) => v \in History!ToSet(s \o t)
    BY <1>6, <1>9, <2>1, <2>2, GoesOn
  <2>5. History!Covers(s \o t, call.page.next, v5)
    BY <2>2, <2>3, <2>4 DEF History!Covers
  <2>6. after.items = s \o t
    BY <1>7, <1>9, <2>4
  <2>7. v5' = v5 /\ \A v \in v5 : v \in History!Booked /\ v1[v] = "history"
    BY <1>3, <1>9 DEF History!HistoryInv
  <2> HIDE DEF s, t
  <2>8. QED
    BY <1>7, <2>4, <2>5, <2>6, <2>7
<1>10. /\ History!EndsAt(after.items, after.cursor)
       /\ History!Covers(after.items, after.cursor, v5')
       /\ \A v \in v5' : v \in History!Booked /\ v1[v] = "history"
  BY <1>8, <1>9
<1>11. History!HistoryCalls' = {}
  BY <1>1, <1>2 DEF History!HistoryCalls, History!HistoryInv
<1>12. \A c \in v4' : {"view", "cursor", "page"} \subseteq DOMAIN c
  BY <1>2 DEF History!HistoryInv
<1>13. /\ DOMAIN v1' = History!Booked /\ DOMAIN v2' = {"upcoming", "history"}
       /\ \A v \in v5' : v \in History!Booked /\ v1'[v] = "history"
  BY <1>1, <1>2, <1>5, <1>10 DEF History!HistoryInv
<1>14. /\ History!EndsAt(v2["history"].items, v2["history"].cursor)'
       /\ History!Covers(v2["history"].items, v2["history"].cursor, v5)'
  BY <1>5, <1>10 DEF History!EndsAt, History!Covers, History!Falls, History!ToSet, History!Booked
<1>15. {"items", "cursor", "loading", "error"} \subseteq DOMAIN v2'["history"]
  BY <1>5, <1>7
<1>16. QED
  BY <1>11, <1>12, <1>13, <1>14, <1>15 DEF History!HistoryInv, History!Booked

(* A call that fails, for whichever list *)
LEMMA HistoryCallFails ==
    ASSUME History!HistoryInv, NEW call \in v4, History!ListFails(call)
    PROVE  History!HistoryInv'
<1>1. /\ DOMAIN v2 = {"upcoming", "history"}
      /\ {"items", "cursor", "loading", "error"} \subseteq DOMAIN v2["history"]
  BY DEF History!HistoryInv
<1>2. /\ v2' = [v2 EXCEPT ![call.view].loading = FALSE, ![call.view].error = TRUE]
      /\ v4' = v4 \ {call} /\ v1' = v1 /\ v5' = v5
  BY DEF History!ListFails
<1>3. \A c \in v4' : {"view", "cursor", "page"} \subseteq DOMAIN c
  BY <1>2 DEF History!HistoryInv
<1>4. CASE call.view # "history"
  <2>1. DOMAIN v2' = DOMAIN v2 /\ v2'["history"] = v2["history"]
    BY <1>1, <1>2, <1>4
  <2>2. \A c \in v4' : c.view = "history" => c \in v4
    BY <1>2
  <2>3. QED
    BY <1>2, <1>3, <2>1, <2>2, HistoryUntouched
<1>5. CASE call.view = "history"
  <2>1. DOMAIN v2' = DOMAIN v2
    BY <1>2
  <2>2. /\ v2'["history"].items = v2["history"].items /\ v2'["history"].cursor = v2["history"].cursor
        /\ v2'["history"].error = TRUE /\ DOMAIN v2'["history"] = DOMAIN v2["history"]
    BY <1>1, <1>2, <1>5
  <2>3. History!HistoryCalls' = {}
    BY <1>2, <1>5 DEF History!HistoryCalls, History!HistoryInv
  <2>4. /\ History!EndsAt(v2["history"].items, v2["history"].cursor)'
        /\ \/ History!Covers(v2["history"].items, v2["history"].cursor, v5)'
           \/ v2'["history"].items = <<>> /\ v2'["history"].cursor = Idle
    <3>1. /\ History!EndsAt(v2["history"].items, v2["history"].cursor)
          /\ \/ History!Covers(v2["history"].items, v2["history"].cursor, v5)
             \/ v2["history"].items = <<>> /\ v2["history"].cursor = Idle
      BY DEF History!HistoryInv
    <3>2. QED
      BY <1>2, <2>2, <3>1 DEF History!EndsAt, History!Covers, History!Falls,
         History!ToSet, History!Booked
  <2>5. /\ DOMAIN v1' = History!Booked /\ DOMAIN v2' = {"upcoming", "history"}
        /\ \A v \in v5' : v \in History!Booked /\ v1'[v] = "history"
    BY <1>1, <1>2, <2>1 DEF History!HistoryInv
  <2>6. QED
    BY <1>1, <1>3, <2>2, <2>3, <2>4, <2>5 DEF History!HistoryInv, History!Booked
<1>6. QED
  BY <1>4, <1>5

(* A list is asked for: its first page, or the one after its cursor. *)
LEMMA HistoryIsAsked ==
    ASSUME History!HistoryInv, NEW view \in {"upcoming", "history"}, NEW cursor,
           History!LoadView(view, cursor),
           view = "history" => /\ cursor \in {Idle, v2["history"].cursor}
                               /\ v2["history"].error \/ ~v2["history"].loading
    PROVE  History!HistoryInv'
<1>1. /\ DOMAIN v2 = {"upcoming", "history"}
      /\ {"items", "cursor", "loading", "error"} \subseteq DOMAIN v2["history"]
  BY DEF History!HistoryInv
<1>2. PICK c : c = [view |-> view, cursor |-> cursor, page |-> Idle]
  OBVIOUS
<1>3. /\ v2' = [v2 EXCEPT ![view].loading = TRUE, ![view].error = FALSE]
      /\ v4' = v4 \cup {c} /\ v1' = v1 /\ v5' = v5
  BY <1>2 DEF History!LoadView, History!Call
<1>4. \A d \in v4' : {"view", "cursor", "page"} \subseteq DOMAIN d
  BY <1>2, <1>3 DEF History!HistoryInv
<1>5. CASE view # "history"
  <2>1. DOMAIN v2' = DOMAIN v2 /\ v2'["history"] = v2["history"]
    BY <1>1, <1>3, <1>5
  <2>2. \A d \in v4' : d.view = "history" => d \in v4
    BY <1>2, <1>3, <1>5
  <2>3. QED
    BY <1>3, <1>4, <2>1, <2>2, HistoryUntouched
<1>6. CASE view = "history"
  <2>1. DOMAIN v2' = DOMAIN v2
    BY <1>3
  <2>2. /\ v2'["history"].items = v2["history"].items /\ v2'["history"].cursor = v2["history"].cursor
        /\ v2'["history"].error = FALSE /\ v2'["history"].loading = TRUE
        /\ DOMAIN v2'["history"] = DOMAIN v2["history"]
    BY <1>1, <1>3, <1>6
  <2>3. History!HistoryCalls = {}
    BY <1>6 DEF History!HistoryInv
  <2>4. \A d \in History!HistoryCalls' : d = c
    BY <1>3, <2>3 DEF History!HistoryCalls
  <2>5. \A d \in History!HistoryCalls' :
          /\ v2'["history"].loading /\ ~v2'["history"].error
          /\ d.cursor \in {Idle, v2'["history"].cursor}
          /\ d.page # Idle => History!PageOK(d)'
    BY <1>2, <1>6, <2>2, <2>4
  <2>6. /\ History!EndsAt(v2["history"].items, v2["history"].cursor)'
        /\ \/ History!Covers(v2["history"].items, v2["history"].cursor, v5)'
           \/ v2'["history"].items = <<>> /\ v2'["history"].cursor = Idle
    <3>1. /\ History!EndsAt(v2["history"].items, v2["history"].cursor)
          /\ \/ History!Covers(v2["history"].items, v2["history"].cursor, v5)
             \/ v2["history"].items = <<>> /\ v2["history"].cursor = Idle
      BY DEF History!HistoryInv
    <3>2. QED
      BY <1>3, <2>2, <3>1 DEF History!EndsAt, History!Covers, History!Falls,
         History!ToSet, History!Booked
  <2>7. /\ DOMAIN v1' = History!Booked /\ DOMAIN v2' = {"upcoming", "history"}
        /\ \A v \in v5' : v \in History!Booked /\ v1'[v] = "history"
    BY <1>1, <1>3, <2>1 DEF History!HistoryInv
  <2>8. QED
    BY <1>1, <1>4, <2>2, <2>4, <2>5, <2>6, <2>7 DEF History!HistoryInv, History!Booked
<1>7. QED
  BY <1>5, <1>6

(* The page is opened: every list is empty and asked for once. *)
LEMMA PageIsOpened ==
    ASSUME v2 = [v \in {"upcoming", "history"} |-> History!EmptyList],
           v4 = {History!Call(v, Idle) : v \in {"upcoming", "history"}},
           DOMAIN v1 = History!Booked, \A v \in v5 : v \in History!Booked /\ v1[v] = "history"
    PROVE  History!HistoryInv
<1> DEFINE list == v2["history"]
<1>1. /\ list.items = <<>> /\ list.cursor = Idle /\ list.loading = TRUE /\ list.error = FALSE
      /\ DOMAIN list = {"items", "cursor", "loading", "error"}
  BY DEF History!EmptyList
<1>2. History!EndsAt(list.items, list.cursor)
  <2>1. <<>> \in Seq(History!Booked) /\ DOMAIN <<>> = {}
    OBVIOUS
  <2>2. QED
    BY <1>1, <2>1 DEF History!EndsAt, History!Falls
<1>3. \A c \in v4 : \E v \in {"upcoming", "history"} :
          c = [view |-> v, cursor |-> Idle, page |-> Idle]
  BY DEF History!Call
<1>4. \A c \in v4 : {"view", "cursor", "page"} \subseteq DOMAIN c
  BY <1>3
<1>5. \A c \in History!HistoryCalls : c = [view |-> "history", cursor |-> Idle, page |-> Idle]
  BY <1>3 DEF History!HistoryCalls
<1>6. QED
  BY <1>1, <1>2, <1>4, <1>5 DEF History!HistoryInv

LEMMA HistoryStep == History!HistoryInv /\ History!HistoryNext => History!HistoryInv'
<1> SUFFICES ASSUME History!HistoryInv, History!HistoryNext PROVE History!HistoryInv'
  OBVIOUS
<1>1. ASSUME NEW call \in v4, History!ListArrives(call), call.view # "history"
      PROVE  History!HistoryInv'
  <2>1. DOMAIN v2' = DOMAIN v2 /\ v2'["history"] = v2["history"]
    BY <1>1 DEF History!ListArrives, History!HistoryInv
  <2>2. v1' = v1 /\ v5' = v5 /\ v4' = v4 \ {call}
    BY <1>1 DEF History!ListArrives
  <2>3. \A c \in v4' : {"view", "cursor", "page"} \subseteq DOMAIN c
    BY <2>2 DEF History!HistoryInv
  <2>4. QED
    BY <2>1, <2>2, <2>3, HistoryUntouched
<1>2. ASSUME NEW v \in History!Booked, History!VisitMovesOn(v) PROVE History!HistoryInv'
  BY <1>2, VisitGoesOn
<1>3. ASSUME NEW call \in v4,
             History!ListBookings(call) \/ History!ListArrives(call) \/ History!ListFails(call)
      PROVE  History!HistoryInv'
  BY <1>1, <1>3, PageIsRead, HistoryPageArrives, HistoryCallFails
<1>4. CASE History!OpenDashboard
  <2>1. (/\ v2 = [v \in {"upcoming", "history"} |-> History!EmptyList]
         /\ v4 = {History!Call(v, Idle) : v \in {"upcoming", "history"}}
         /\ DOMAIN v1 = History!Booked
         /\ \A v \in v5 : v \in History!Booked /\ v1[v] = "history")'
    BY <1>4 DEF History!OpenDashboard, History!HistoryInv, History!Booked, History!EmptyList,
       History!Call
  <2>2. QED
    BY <2>1, PageIsOpened, PTL
<1>5. ASSUME NEW view \in {"upcoming", "history"}, History!RetryView(view)
      PROVE  History!HistoryInv'
  BY <1>5, HistoryIsAsked DEF History!RetryView, History!OffersRetry
<1>6. CASE History!RevealHistory
  BY <1>6, HistoryUntouched DEF History!RevealHistory, History!HistoryInv
<1>7. CASE History!showMoreHistory
  BY <1>7, HistoryIsAsked DEF History!showMoreHistory
<1>8. QED
  BY <1>2, <1>3, <1>4, <1>5, <1>6, <1>7 DEF History!HistoryNext

LEMMA HistoryStays ==
    ASSUME History!HistoryInv, UNCHANGED <<v1, v2, v4, v5>>
    PROVE  History!HistoryInv'
BY HistoryUntouched DEF History!HistoryInv

(* Whatever fails and is tried again, and although visits become history
   meanwhile, the history is read whole and in order. *)
THEOREM HistoryIsReadWhole == MCSpec => []HistoryIsWhole
<1> DEFINE Inv == part = "history" => History!HistoryInv
<1>1. MCInit => Inv
  BY PageIsOpened DEF MCInit, History!HistoryInit, History!Booked
<1>2. Inv /\ [MCNext]_pageVars => Inv'
  <2> SUFFICES ASSUME Inv, [MCNext]_pageVars, part' = "history" PROVE History!HistoryInv'
    OBVIOUS
  <2>1. CASE UNCHANGED pageVars
    BY <2>1, HistoryStays DEF pageVars
  <2>2. CASE MCNext
    <3>1. part = "history" /\ History!HistoryNext
      BY <2>2 DEF MCNext
    <3>2. QED
      BY <3>1, HistoryStep
  <2>3. QED
    BY <2>1, <2>2
<1>3. Inv => HistoryIsWhole
  BY DEF HistoryIsWhole, History!HistoryIsWhole, History!HistoryInv, History!EndsAt,
     History!Falls, History!Covers
<1>4. QED
  BY <1>1, <1>2, <1>3, PTL DEF MCSpec
=============================================================================
