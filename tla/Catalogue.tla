------------------------------- MODULE Catalogue -------------------------------
(***************************************************************************)
(* What the salon offers: AdminCatalogService edits services,              *)
(* professionals and what a professional offers; a hold takes a copy of    *)
(* the plan of its service (ProfessionalServiceResolver.resolveSelection). *)
(* Edits take no lock: each reads and validates first, and writes by id in *)
(* a transaction later.  The hold reads the professional with the offers   *)
(* and then the services, in one transaction at READ COMMITTED.            *)
(***************************************************************************)
EXTENDS Integers

CONSTANTS
    Service,       \* rows of "services"
    Professional,  \* rows of "professionals"
    BookedItem,   \* rows of "bookings" with their one item
    Editor,        \* requests the API serves at the same time
    Length,        \* durations of a service
    Offset,        \* where a processing phase begins
    Pause,         \* how long it is, 0 for none
    Nil            \* null, and no row

ASSUME CatalogueAssumption ==
    /\ Length \subseteq Nat \ {0}
    /\ Offset \subseteq Nat
    /\ Pause \subseteq Nat /\ 0 \in Pause
    /\ Nil \notin Service \cup Professional \cup BookedItem \cup Length \cup Offset

VARIABLES
    services,       \* the services
    professionals,  \* the professionals
    offered,        \* table "professional_services"
    items,          \* the plan each booking has copied
    edits           \* what every request in flight has read

catalogueVars == <<services, professionals, offered, items, edits>>

-----------------------------------------------------------------------------
ServiceRow == [active : BOOLEAN, length : Length]

ProfessionalRow == [active : BOOLEAN, online : BOOLEAN]

OfferedRow == [override : Length \cup {Nil}, phase : Offset \cup {Nil}, pause : Pause]

(* createMany gives the defaults of the columns. *)
PlainOffer == [override |-> Nil, phase |-> Nil, pause |-> 0]

ItemRow == [professional : Professional, length : Length, phase : Offset \cup {Nil}, pause : Pause]

EditRow == [op : {"none", "updateService", "updateProfessional",
                  "configure", "resolve"},
            row : Service \cup Professional \cup BookedItem \cup {Nil},
            of : Service \cup {Nil},
            had : SUBSET (Service \cup Professional),
            chosen : SUBSET Service,
            dto : ProfessionalRow \cup OfferedRow \cup {Nil}]

NoEdit == [op |-> "none", row |-> Nil, of |-> Nil, had |-> {},
           chosen |-> {}, dto |-> Nil]

Opens(e, row) == edits[e] = NoEdit /\ edits' = [edits EXCEPT ![e] = row]

Closes(e) == edits' = [edits EXCEPT ![e] = NoEdit]

ServiceIds == {s \in Service : services[s] # Nil}

ServicesOf(p) == {s \in Service : offered[p, s] # Nil}

ProfessionalsOf(s) == {p \in Professional : offered[p, s] # Nil}

-----------------------------------------------------------------------------
(* availableSlug and the unique key keep the short names apart; names are
   left out here.  Creation validates the professionals, who never go.  The
   id is new: no row is about it. *)
createService(s, active, length, chosen) ==
    /\ services[s] = Nil /\ ProfessionalsOf(s) = {}
    /\ services' = [services EXCEPT ![s] = [active |-> active, length |-> length]]
    /\ offered' = [o \in DOMAIN offered |->
          IF o[2] = s /\ o[1] \in chosen THEN PlainOffer ELSE offered[o]]
    /\ UNCHANGED <<professionals, items, edits>>

StartService(e, s) ==
    /\ s \in ServiceIds
    /\ Opens(e, [NoEdit EXCEPT !.op = "updateService", !.row = s, !.had = ProfessionalsOf(s)])
    /\ UNCHANGED <<services, professionals, offered, items>>

(* Mutant: the rows are upserted, those there are set to the defaults. *)
Upserted(old, chosen, had, x) ==
    IF x \notin chosen THEN Nil ELSE IF x \notin had THEN PlainOffer ELSE old

(* Whoever is not chosen goes; of the chosen, those who were not there at
   the first look are added with the defaults, skipDuplicates leaving alone
   who is there by now. *)
Reassigned(old, chosen, had, x) ==
    IF x \notin chosen THEN Nil
    ELSE IF old = Nil /\ x \notin had THEN PlainOffer ELSE old

updateService(e, active, length, chosen) ==
    LET s == edits[e].row
    IN  /\ edits[e].op = "updateService"
        /\ services' = [services EXCEPT ![s].active = active, ![s].length = length]
        /\ offered' = [o \in DOMAIN offered |->
              IF o[2] = s THEN Reassigned(offered[o], chosen, edits[e].had, o[1])
              ELSE offered[o]]
        /\ Closes(e)
        /\ UNCHANGED <<professionals, items>>

-----------------------------------------------------------------------------
ComingOf(p) == {b \in BookedItem : items[b] # Nil /\ items[b].professional = p}

(* Validates the services, and that who becomes inactive has no coming
   bookings; the write comes later and asks no more. *)
StartProfessional(e, p, dto, chosen) ==
    /\ \A s \in chosen : s \in ServiceIds /\ services[s].active
    /\ professionals[p].active /\ ~dto.active => ComingOf(p) = {}
    /\ Opens(e, [NoEdit EXCEPT !.op = "updateProfessional", !.row = p, !.dto = dto,
                               !.had = ServicesOf(p), !.chosen = chosen])
    /\ UNCHANGED <<services, professionals, offered, items>>

updateProfessional(e) ==
    LET p == edits[e].row
    IN  /\ edits[e].op = "updateProfessional"
        /\ professionals' = [professionals EXCEPT ![p] = edits[e].dto]
        /\ offered' = [o \in DOMAIN offered |->
              IF o[1] = p
              THEN Reassigned(offered[o], edits[e].chosen, edits[e].had, o[2])
              ELSE offered[o]]
        /\ Closes(e)
        /\ UNCHANGED <<services, items>>

-----------------------------------------------------------------------------
Effective(offer, length) == IF offer.override = Nil THEN length ELSE offer.override

(* validateProfessionalService: the processing phase has a beginning and
   lies inside the duration, as long as that is at this moment. *)
PhaseInside(offer, length) ==
    /\ offer.phase = Nil => offer.pause = 0
    /\ offer.phase # Nil => offer.phase + offer.pause <= length

StartConfigure(e, p, s, offer) ==
    /\ s \in ServiceIds
    /\ offer # Nil => PhaseInside(offer, Effective(offer, services[s].length))
    /\ Opens(e, [NoEdit EXCEPT !.op = "configure", !.row = p, !.of = s, !.dto = offer])
    /\ UNCHANGED <<services, professionals, offered, items>>

(* deleteMany or upsert *)
updateProfessionalService(e) ==
    /\ edits[e].op = "configure"
    /\ offered' = [offered EXCEPT ![<<edits[e].row, edits[e].of>>] = edits[e].dto]
    /\ Closes(e)
    /\ UNCHANGED <<services, professionals, items>>

-----------------------------------------------------------------------------
(* resolveSelection, first query: the professional and what is offered; an
   id without an offer is refused. *)
StartResolve(e, b, p, s) ==
    /\ items[b] = Nil
    /\ professionals[p].active /\ professionals[p].online
    /\ offered[p, s] # Nil
    /\ Opens(e, [NoEdit EXCEPT !.op = "resolve", !.row = b, !.of = s, !.had = {p},
                               !.dto = offered[p, s]])
    /\ UNCHANGED <<services, professionals, offered, items>>

(* assertConfiguration asks what validateProfessionalService asked. *)
assertConfiguration(offer, length) == PhaseInside(offer, length)

(* Second query: the services.  Then the check, and the copy. *)
resolveSelection(e) ==
    LET s == edits[e].of
        offer == edits[e].dto
        length == Effective(offer, services[s].length)
    IN  /\ edits[e].op = "resolve"
        /\ items[edits[e].row] = Nil
        /\ services[s].active
        /\ assertConfiguration(offer, length)
        /\ \E p \in edits[e].had :
              items' = [items EXCEPT ![edits[e].row] =
                 [professional |-> p, length |-> length, phase |-> offer.phase,
                  pause |-> offer.pause]]
        /\ Closes(e)
        /\ UNCHANGED <<services, professionals, offered>>

(* The booking is over, or cancelled. *)
Leaves(b) ==
    /\ items[b] # Nil
    /\ items' = [items EXCEPT ![b] = Nil]
    /\ UNCHANGED <<services, professionals, offered, edits>>

(* A refusal, an exception, a crash. *)
DropEdit(e) ==
    /\ edits[e] # NoEdit
    /\ Closes(e)
    /\ UNCHANGED <<services, professionals, offered, items>>

CatalogueInit ==
    /\ services = [s \in Service |-> Nil]
    /\ professionals = [p \in Professional |-> [active |-> TRUE, online |-> TRUE]]
    /\ offered = [o \in Professional \X Service |-> Nil]
    /\ items = [b \in BookedItem |-> Nil]
    /\ edits = [e \in Editor |-> NoEdit]

CatalogueNext ==
    \/ \E e \in Editor :
          \/ \E s \in Service : StartService(e, s)
          \/ \E active \in BOOLEAN, length \in Length, chosen \in SUBSET Professional :
                updateService(e, active, length, chosen)
          \/ \E p \in Professional, dto \in ProfessionalRow, chosen \in SUBSET Service :
                /\ dto.online => dto.active
                /\ StartProfessional(e, p, dto, chosen)
          \/ updateProfessional(e)
          \/ \E p \in Professional, s \in Service, offer \in OfferedRow \cup {Nil} :
                StartConfigure(e, p, s, offer)
          \/ updateProfessionalService(e)
          \/ \E b \in BookedItem, p \in Professional, s \in Service : StartResolve(e, b, p, s)
          \/ resolveSelection(e)
          \/ DropEdit(e)
    \/ \E s \in Service, active \in BOOLEAN, length \in Length,
          chosen \in SUBSET Professional : createService(s, active, length, chosen)
    \/ \E b \in BookedItem : Leaves(b)

CatalogueSpec == CatalogueInit /\ [][CatalogueNext]_catalogueVars

-----------------------------------------------------------------------------
(* Properties *)

CatalogueTypeOK ==
    /\ services \in [Service -> ServiceRow \cup {Nil}]
    /\ professionals \in [Professional -> ProfessionalRow]
    /\ offered \in [Professional \X Service -> OfferedRow \cup {Nil}]
    /\ items \in [BookedItem -> ItemRow \cup {Nil}]
    /\ edits \in [Editor -> EditRow]

(* What was configured for a professional and a service is changed by who
   configures it and by nobody else: whoever edits the list of a service or
   of a professional, from a look at the list that is long past, may take an
   offer away or add one, and never sets back one he did not know of. *)
SettingsAreKept ==
    [][\A o \in Professional \X Service :
          offered[o] # Nil /\ offered'[o] \notin {Nil, offered[o]} =>
              \E e \in Editor : /\ edits[e].op = "configure" /\ edits'[e] = NoEdit
                               /\ o = <<edits[e].row, edits[e].of>>
                               /\ offered'[o] = edits[e].dto]_catalogueVars

(* "Uzmanın gelecekte aktif randevuları bulunuyor.  Önce bu randevuları
   taşıyın veya iptal edin": refuted, a hold between the look and the write
   is not seen. *)
InactiveHasNoBookings ==
    \A p \in Professional : ~professionals[p].active => ComingOf(p) = {}

(* The processing phase of what is offered lies inside the service: refuted,
   updateService shortens a service without a look at the offers. *)
OfferedPlanIsSound ==
    \A p \in Professional, s \in ServiceIds :
        offered[p, s] # Nil =>
            PhaseInside(offered[p, s], Effective(offered[p, s], services[s].length))

(* The plan a hold copies is on offer when it is copied: refuted, the offer
   is read before the service, and no edit waits for the branch lock. *)
BookedPlanIsOffered ==
    [][\A e \in Editor : resolveSelection(e) =>
          \E p \in edits[e].had : offered[p, edits[e].of] = edits[e].dto]_catalogueVars
=============================================================================
