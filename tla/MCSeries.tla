------------------------------- MODULE MCSeries -------------------------------
(* Series of bookings, and what a series is made of: BookingSeries on two
   weeks with one appointment each and a training on the day of the second
   one, CustomerRecords and Catalogue.  The three share no state, so a
   behaviour follows one of them, chosen in the initial state. *)
EXTENDS BookingSeries, CustomerRecords, Catalogue, TLC

VARIABLE part

-----------------------------------------------------------------------------
MCPlace == {"first", "second", "training"}

MCOpen == {"first", "second"}

MCBlockPlace == {"training"}

MCCell == 1..2

MCSpan == "first" :> {1} @@ "second" :> {2} @@ "training" :> {2}

MCStartAt == "first" :> 1 @@ "second" :> 2 @@ "training" :> 2

MCPlan == {<<"first", "second">>}

MCLength == {1, 2}

MCOffset == {1}

MCPause == {0, 1}

-----------------------------------------------------------------------------
MCVars == <<seriesVars, customerVars, catalogueVars, part>>

MCInit ==
    /\ part \in {"series", "customers", "catalogue"}
    /\ SeriesInit /\ CustomerInit /\ CatalogueInit

MCNext ==
    \/ /\ part = "series" /\ SeriesNext
       /\ UNCHANGED <<customerVars, catalogueVars, part>>
    \/ /\ part = "customers" /\ CustomerNext
       /\ UNCHANGED <<seriesVars, catalogueVars, part>>
    \/ /\ part = "catalogue" /\ CatalogueNext
       /\ UNCHANGED <<seriesVars, customerVars, part>>

MCSpec == MCInit /\ [][MCNext]_MCVars

(* The customers serve as editors of the catalogue too. *)
MCSymmetry == Permutations(Client) \cup Permutations(Customer)
=============================================================================
