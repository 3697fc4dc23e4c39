------------------------------- MODULE MCHouse -------------------------------
(* What surrounds the bookings: the codes people prove a number with, the
   staff, the visits the customers review, the hours of the house, the slots
   of its calendar and its forms.  The six share no state, so a behaviour
   follows one of them, chosen in the initial state. *)
EXTENDS AccessCodes, TeamAccess, Reviews, OpeningHours, SlotEngine, FormTemplates, TLC

VARIABLE part

peopleVars == <<codeVars, teamVars, reviewVars>>
placeVars == <<hoursVars, slotVars, formVars>>
houseVars == <<peopleVars, placeVars, part>>

(* Two dates of the same weekday *)
MCWeekdayOf == <<"w1", "w1">>
MCStretch == {{1}, {2}, {1, 2}}
MCPlan == {{}, {{1}}, {{1, 2}}, {{1}, {2}}}

(* Services with and without buffers, a pause in the middle, a pause with a
   buffer before it; a day of eight minutes, whole, split, and closed; what
   is busy may stick out of the day. *)
MCService ==
    {[before |-> b, length |-> l, after |-> a, phase |-> p, pause |-> w] :
        <<b, l, a, p, w>> \in
            {<<0, 2, 0, 0, 0>>, <<1, 2, 1, 0, 0>>, <<0, 3, 0, 1, 1>>, <<0, 2, 1, 1, 2>>}}

MCBusy == {<<-1, 1>>, <<2, 3>>, <<3, 5>>, <<4, 5>>, <<6, 8>>, <<7, 10>>}

MCQuery ==
    [mode : {"public", "admin"},
     plan : {<<s>> : s \in MCService} \cup {<<s, u>> : s, u \in MCService},
     working : {{<<0, 8>>}, {<<1, 5>>, <<5, 8>>}, {<<0, 3>>, <<4, 8>>}, {}},
     busy : {b \in SUBSET MCBusy : Cardinality(b) <= 2},
     adminStep : {1}, granularity : {0, 3}, leastStep : {2},
     now : {-1}, notice : {0, 3}, cutoff : {0, 2}]

AnyPlan == CHOOSE plan \in MCPlan \ {{}} : TRUE
AnyQuery == CHOOSE q \in MCQuery : TRUE

MCInit ==
    /\ part \in {"codes", "team", "reviews", "hours", "slots", "forms"}
    /\ CodeInit /\ TeamInit /\ ReviewInit
    /\ HoursInit /\ FormInit
    /\ part # "hours" => \A w \in Weekday : weekly[w] = AnyPlan
    /\ \/ part = "slots" /\ SlotInit
       \/ part # "slots" /\ query = AnyQuery /\ answer = {} /\ answered = FALSE

MCNext ==
    \/ /\ part = "codes" /\ CodeNext
       /\ UNCHANGED <<teamVars, reviewVars, placeVars, part>>
    \/ /\ part = "team" /\ TeamNext
       /\ UNCHANGED <<codeVars, reviewVars, placeVars, part>>
    \/ /\ part = "reviews" /\ ReviewNext
       /\ UNCHANGED <<codeVars, teamVars, placeVars, part>>
    \/ /\ part = "hours" /\ HoursNext
       /\ UNCHANGED <<peopleVars, slotVars, formVars, part>>
    \/ /\ part = "slots" /\ SlotNext
       /\ UNCHANGED <<peopleVars, hoursVars, formVars, part>>
    \/ /\ part = "forms" /\ FormNext
       /\ UNCHANGED <<peopleVars, hoursVars, slotVars, part>>

MCSpec == MCInit /\ [][MCNext]_houseVars

(* One pair of values serves as rows and one as sessions and requests, so
   that the symmetry of all parts is that of the pairs. *)
MCSymmetry == Permutations(Code) \cup Permutations(Visitor)
=============================================================================
