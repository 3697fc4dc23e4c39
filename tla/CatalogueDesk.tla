------------------------------ MODULE CatalogueDesk ------------------------------
(***************************************************************************)
(* The salon's pages of services and professionals, CatalogPage: lists,    *)
(* an editor over them, and in the editor of a professional a part that    *)
(* saves the settings of each service by itself.  AdminCatalogService      *)
(* answers in one step here; what it validates and how its reads and       *)
(* writes interleave is the business of Catalogue.                         *)
(***************************************************************************)
EXTENDS Integers, FiniteSets

CONSTANTS
    Professional, Service,
    Detail,     \* what an editor edits: names, prices, flags, order
    Setting,    \* a professional's own duration, price, buffers of a service
    Plain,      \* the setting of an offer that has none
    MaxCalls,   \* bound on calls without an answer
    Nobody      \* no row, nothing yet

DeskAssumption ==
    /\ Plain \in Setting /\ MaxCalls \in Nat
    /\ Professional \cap Service = {}
    /\ Nobody \notin Professional \cup Service \cup Detail \cup Setting

VARIABLES
    mode,       \* mode: the page of services or the page of professionals
    details,    \* rows of "services" and "professionals"
    offers,     \* rows of "professional_services"
    listed,     \* services and professionals of the page
    loading,    \* loading
    failed,     \* error of the page
    editor,     \* editingService or editingProfessional, with its form
    items,      \* items of ProfessionalServiceSettings, once loaded
    savingId,   \* its savingId
    calls       \* calls without an answer

deskVars == <<mode, details, offers, listed, loading, failed, editor, items, savingId, calls>>

-----------------------------------------------------------------------------
Entity == Professional \cup Service

Partners(x) ==
    {y \in Entity : \/ <<x, y>> \in DOMAIN offers /\ offers[x, y] # Nobody
                    \/ <<y, x>> \in DOMAIN offers /\ offers[y, x] # Nobody}

(* listServices, listProfessionals *)
List(rows) ==
    [x \in rows |-> IF details[x] = Nobody THEN Nobody
                    ELSE [detail |-> details[x], partners |-> Partners(x)]]

(* listProfessionalServices: all services, the ones not offered too *)
SettingsOf(p, now) ==
    [s \in Service |->
        IF details[s] = Nobody THEN Nobody
        ELSE [assigned |-> now[p, s] # Nobody,
              setting |-> IF now[p, s] = Nobody THEN Plain ELSE now[p, s]]]

Edited == IF mode = "services" THEN Service ELSE Professional
Others == Entity \ Edited

Fresh == [detail |-> Nobody, partners |-> {}]

Call(kind, of, input, chosen) ==
    [kind |-> kind, of |-> of, input |-> input, chosen |-> chosen, mine |-> TRUE,
     done |-> FALSE, result |-> Nobody]

Load == [Call("load", Nobody, Nobody, {}) EXCEPT !.result = [x \in {"own", "other"} |-> Nobody]]

Page == <<mode, listed, loading, failed>>
Store == <<details, offers>>
Settings == <<items, savingId>>

-----------------------------------------------------------------------------
(* AdminCatalogService; a refusal leaves the call to a failure. *)

list(c, which) ==
    /\ c.kind = "load" /\ c.result[which] = Nobody
    /\ LET d == [c EXCEPT !.result[which] = List(IF which = "own" THEN Edited ELSE Others)]
       IN  calls' = (calls \ {c}) \cup
                        {[d EXCEPT !.done = Nobody \notin {d.result["own"], d.result["other"]}]}
    /\ UNCHANGED <<Store, Page, editor, Settings>>

(* Mutant: the offers of the row are written anew. *)
Rewritten(old, kept) == IF kept THEN Plain ELSE Nobody

(* Whoever is not chosen goes, whoever is new gets the defaults. *)
Reassigned(old, kept) == IF ~kept THEN Nobody ELSE IF old = Nobody THEN Plain ELSE old

(* createService, updateService, createProfessional, updateProfessional *)
save(c, x) ==
    /\ c.kind = "save" /\ ~c.done
    /\ IF c.of = "new" THEN details[x] = Nobody ELSE x = c.of
    /\ details' = [details EXCEPT ![x] = c.input]
    /\ offers' = [o \in DOMAIN offers |->
          CASE o[1] = x -> Reassigned(offers[o], o[2] \in c.chosen)
            [] o[2] = x -> Reassigned(offers[o], o[1] \in c.chosen)
            [] OTHER -> offers[o]]
    /\ calls' = (calls \ {c}) \cup {[c EXCEPT !.done = TRUE]}
    /\ UNCHANGED <<Page, editor, Settings>>

listProfessionalServices(c) ==
    /\ c.kind = "settings" /\ ~c.done
    /\ calls' = (calls \ {c}) \cup
                    {[c EXCEPT !.done = TRUE, !.result = SettingsOf(c.of, offers)]}
    /\ UNCHANGED <<Store, Page, editor, Settings>>

(* One relation is written; the answer lists all. *)
updateProfessionalService(c) ==
    /\ c.kind = "row" /\ ~c.done
    /\ \E s \in c.chosen :
          offers' = [offers EXCEPT ![<<c.of, s>>] = IF c.input.assigned THEN c.input.setting
                                                 ELSE Nobody]
    /\ calls' = (calls \ {c}) \cup
                    {[c EXCEPT !.done = TRUE, !.result = SettingsOf(c.of, offers')]}
    /\ UNCHANGED <<details, Page, editor, Settings>>

-----------------------------------------------------------------------------
(* CatalogPage *)

Loaded(c) ==
    /\ c.kind = "load" /\ c.done
    /\ listed' = c.result
    /\ loading' = FALSE
    /\ calls' = calls \ {c}
    /\ UNCHANGED <<Store, mode, failed, editor, Settings>>

(* The lists stay as they are. *)
LoadFails(c) ==
    /\ c.kind = "load"
    /\ loading' = FALSE /\ failed' = TRUE
    /\ calls' = calls \ {c}
    /\ UNCHANGED <<Store, mode, listed, editor, Settings>>

retry ==
    /\ failed /\ editor = Nobody
    /\ Cardinality(calls) < MaxCalls /\ Load \notin calls
    /\ calls' = calls \cup {Load}
    /\ loading' = TRUE /\ failed' = FALSE
    /\ UNCHANGED <<Store, mode, listed, editor, Settings>>

Opened(of, was, asked) ==
    /\ editor = Nobody
    /\ editor' = [of |-> of, was |-> was, input |-> was.detail, chosen |-> was.partners,
                  submitting |-> FALSE]
    /\ calls' = calls \cup asked
    /\ UNCHANGED <<Store, Page, Settings>>

(* "Ekle" in the header is there while the page loads. *)
openNew == Opened("new", Fresh, {})

(* The lists are there when nothing loads. *)
InList(x) == ~loading /\ listed["own"] # Nobody /\ listed["own"][x] # Nobody

openServiceEditor(s) ==
    /\ mode = "services" /\ InList(s)
    /\ Opened(s, listed["own"][s], {})

(* The settings are loaded with the editor. *)
openProfessionalEditor(p) ==
    /\ mode = "professionals" /\ InList(p)
    /\ Cardinality(calls) < MaxCalls
    /\ Opened(p, listed["own"][p], {Call("settings", p, Nobody, {})})

Types(input) ==
    /\ editor # Nobody
    /\ editor' = [editor EXCEPT !.input = input]
    /\ UNCHANGED <<Store, Page, Settings, calls>>

editService(input) == mode = "services" /\ Types(input)

editProfessional(input) == mode = "professionals" /\ Types(input)

Toggles(y) ==
    /\ editor # Nobody
    /\ listed["other"] # Nobody /\ listed["other"][y] # Nobody
    /\ editor' = [editor EXCEPT !.chosen = IF y \in @ THEN @ \ {y} ELSE @ \cup {y}]
    /\ UNCHANGED <<Store, Page, Settings, calls>>

toggleProfessional(p) == mode = "services" /\ Toggles(p)

(* A professional who is there has the settings instead. *)
toggleService(s) == mode = "professionals" /\ editor # Nobody /\ editor.of = "new" /\ Toggles(s)

Retyped == editor.input # editor.was.detail

serviceDirty == Retyped \/ editor.chosen # editor.was.partners

(* The settings do not count. *)
professionalDirty == Retyped \/ (editor.of = "new" /\ editor.chosen # {})

dirty == IF mode = "services" THEN serviceDirty ELSE professionalDirty

serviceValid == editor.input # Nobody

professionalValid == editor.input # Nobody /\ (editor.of = "new" => editor.chosen # {})

valid == IF mode = "services" THEN serviceValid ELSE professionalValid

(* What the editor waited for finds it gone. *)
Orphaned(rest) == {[c EXCEPT !.mine = FALSE] : c \in {d \in rest : d.kind \in {"save", "row"}}}
                     \cup {c \in rest : c.kind = "load"}

Closed(rest) ==
    /\ editor' = Nobody
    /\ items' = Nobody /\ savingId' = Nobody
    /\ calls' = Orphaned(rest)

(* At once, or "Kaydetmeden kapat"; a save under way does not matter. *)
close ==
    /\ editor # Nobody
    /\ Closed(calls)
    /\ UNCHANGED <<Store, Page>>

submit ==
    /\ editor # Nobody
    /\ ~editor.submitting /\ dirty /\ valid
    /\ Cardinality(calls) < MaxCalls
    /\ editor' = [editor EXCEPT !.submitting = TRUE]
    /\ calls' = calls \cup {Call("save", editor.of, editor.input, editor.chosen)}
    /\ UNCHANGED <<Store, Page, Settings>>

(* onSaved closes the editor that is open, and loads. *)
Saved(c) ==
    /\ c.kind = "save" /\ c.done
    /\ Closed((calls \ {c}) \cup {Load})
    /\ loading' = TRUE /\ failed' = FALSE
    /\ UNCHANGED <<Store, mode, listed>>

SaveFails(c) ==
    /\ c.kind = "save"
    /\ editor' = IF c.mine THEN [editor EXCEPT !.submitting = FALSE] ELSE editor
    /\ calls' = calls \ {c}
    /\ UNCHANGED <<Store, Page, Settings>>

-----------------------------------------------------------------------------
(* ProfessionalServiceSettings *)

InRows(s) == items # Nobody /\ items[s] # Nobody

change(s, item) ==
    /\ items' = [items EXCEPT ![s] = item]
    /\ UNCHANGED <<Store, Page, editor, savingId, calls>>

assign(s, assigned) == InRows(s) /\ change(s, [items[s] EXCEPT !.assigned = assigned])

(* The fields are there for a service that is assigned. *)
configure(s, setting) ==
    /\ InRows(s) /\ items[s].assigned
    /\ change(s, [items[s] EXCEPT !.setting = setting])

(* Only the row that was saved last waits. *)
saveRow(s) ==
    /\ InRows(s) /\ savingId # s
    /\ LET c == Call("row", editor.of, items[s], {s})
       IN  /\ c \notin calls /\ Cardinality(calls) < MaxCalls
           /\ calls' = calls \cup {c}
    /\ savingId' = s
    /\ UNCHANGED <<Store, Page, editor, items>>

(* An answer sets all rows and frees whichever waits. *)
SettingsCome(c) ==
    /\ c.kind \in {"settings", "row"} /\ c.done
    /\ items' = IF c.mine THEN c.result ELSE items
    /\ savingId' = IF c.mine /\ c.kind = "row" THEN Nobody ELSE savingId
    /\ calls' = calls \ {c}
    /\ UNCHANGED <<Store, Page, editor>>

(* Without settings the part stays empty. *)
SettingsFail(c) ==
    /\ c.kind \in {"settings", "row"}
    /\ savingId' = IF c.mine /\ c.kind = "row" THEN Nobody ELSE savingId
    /\ calls' = calls \ {c}
    /\ UNCHANGED <<Store, Page, editor, items>>

-----------------------------------------------------------------------------
DeskInit ==
    /\ mode \in {"services", "professionals"}
    /\ \E d \in Detail : details \in [Entity -> {d, Nobody}]
    /\ offers \in [Professional \X Service -> Setting \cup {Nobody}]
    /\ \A o \in DOMAIN offers : Nobody \in {details[o[1]], details[o[2]]} => offers[o] = Nobody
    /\ listed = [x \in {"own", "other"} |-> Nobody]
    /\ loading = TRUE /\ failed = FALSE
    /\ editor = Nobody /\ items = Nobody /\ savingId = Nobody
    /\ calls = {Load}

Serves(c) ==
    \/ \E which \in {"own", "other"} : list(c, which)
    \/ \E x \in Edited : save(c, x)
    \/ listProfessionalServices(c) \/ updateProfessionalService(c)

Arrives(c) ==
    \/ Loaded(c) \/ LoadFails(c) \/ Saved(c) \/ SaveFails(c)
    \/ SettingsCome(c) \/ SettingsFail(c)

DeskNext ==
    \/ \E c \in calls : Serves(c) \/ Arrives(c)
    \/ retry \/ openNew \/ close \/ submit
    \/ \E input \in Detail : editService(input) \/ editProfessional(input)
    \/ \E p \in Professional : openProfessionalEditor(p) \/ toggleProfessional(p)
    \/ \E s \in Service : openServiceEditor(s) \/ toggleService(s) \/ saveRow(s)
    \/ \E s \in Service, assigned \in BOOLEAN : assign(s, assigned)
    \/ \E s \in Service, setting \in Setting : configure(s, setting)

DeskSpec == DeskInit /\ [][DeskNext]_deskVars

-----------------------------------------------------------------------------
(* Properties *)

DeskTypeOK ==
    /\ details \in [Entity -> Detail \cup {Nobody}]
    /\ offers \in [Professional \X Service -> Setting \cup {Nobody}]
    /\ {loading, failed} \subseteq BOOLEAN
    /\ savingId \in Service \cup {Nobody}
    /\ items # Nobody => editor # Nobody

(* Both editors send the whole list of partners, and updateService and
   updateProfessional write it over relations that carry a professional's
   own duration, price and buffers.  Whatever saves cross: an offer that is
   there before and after changes its settings only by a save of its row,
   and to what that row says. *)
KeepsSettings ==
    \A o \in DOMAIN offers :
        offers[o] # Nobody /\ offers'[o] \notin {offers[o], Nobody} =>
            \E c \in calls : /\ c.kind = "row" /\ c.of = o[1] /\ c.chosen = {o[2]}
                             /\ c.input.setting = offers'[o]

OffersKeepSettings == [][KeepsSettings]_deskVars

(* Why: the call of a row is for one service. *)
OfOneRow(c) ==
    /\ {"kind", "of", "input", "chosen", "mine", "done", "result"} \subseteq DOMAIN c
    /\ c.kind = "row" => \E s \in Service : c.chosen = {s}

RowsAreOne ==
    /\ offers = [o \in DOMAIN offers |-> offers[o]]
    /\ \A c \in calls : OfOneRow(c)

(* What the code does not promise; each is refuted by DeskNext. *)

(* What a row of the settings assigned stays: "Uzmanı kaydet" sends the
   list of services from before. *)
AssignmentStays ==
    [][\A c \in calls : ~c.done /\ c.kind = "save" /\ c.of \in Professional =>
          \A s \in Service : items # Nobody /\ c.mine /\ savingId = Nobody
                /\ {d \in calls : d.kind = "row"} = {} /\ items[s] # Nobody
                /\ offers'[c.of, s] # offers[c.of, s]
             => items[s].assigned = (offers'[c.of, s] # Nobody)]_deskVars

(* A change of a row that is not saved yet survives the save of another. *)
UnsavedSettingStays ==
    [][\A c \in calls : c.kind = "row" /\ SettingsCome(c) /\ c.mine =>
          \A s \in Service \ c.chosen : items'[s] = items[s]]_deskVars

(* The answer of a save closes the editor that sent it. *)
ClosesOwnEditor == [][\A c \in calls : Saved(c) => c.mine \/ editor = Nobody]_deskVars
=============================================================================
