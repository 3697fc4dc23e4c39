---------------------------- MODULE FormTemplates ----------------------------
(***************************************************************************)
(* The forms customers fill in before a visit: FormsService.  A template   *)
(* has versions, drafted and then published; a booking of a service that   *)
(* requires the form gets a submission of the latest published version.    *)
(* Every operation reads the template or the submission first and writes   *)
(* by id in a transaction later.                                           *)
(***************************************************************************)
EXTENDS Integers, FiniteSets

CONSTANTS
    Template,    \* rows of "form_templates"
    Submission,  \* rows of "booking_form_submissions", one per booking
    Writer,      \* requests the API serves at the same time
    NoForm,      \* no template, no submission
    MaxVersion   \* bound on the versions of a template

ASSUME FormAssumption ==
    /\ NoForm \notin Template \cup Submission
    /\ MaxVersion \in Nat \ {0}

VARIABLES
    templates,    \* the templates
    versions,     \* table "form_template_versions": a bag with a unique key
    submissions,  \* the submissions
    writers       \* what every request in flight has read

formVars == <<templates, versions, submissions, writers>>

-----------------------------------------------------------------------------
Status == {"NONE", "DRAFT", "PUBLISHED", "ARCHIVED"}

(* copy tells rows of one version apart; the unique key leaves only one. *)
Version == [template : Template, version : 1..MaxVersion, copy : 1..2, published : BOOLEAN]

SubmissionRow == [template : Template \cup {NoForm}, version : 0..MaxVersion,
                  status : {"NONE", "PENDING", "SUBMITTED", "REVIEWED"}]

NoSubmission == [template |-> NoForm, version |-> 0, status |-> "NONE"]

WriterRow == [op : {"none", "updateDraft", "publish", "submit", "review"},
              form : Template \cup Submission \cup {NoForm},
              version : 0..MaxVersion, copy : 1..2, fresh : BOOLEAN]

NoWriter == [op |-> "none", form |-> NoForm, version |-> 0, copy |-> 1, fresh |-> FALSE]

VersionsOf(t) == {v \in versions : v.template = t}

Draft(t) == {v \in VersionsOf(t) : ~v.published}

NewestVersion(vs) == CHOOSE v \in vs : \A w \in vs : w.version <= v.version

Reads(e, row) == writers[e] = NoWriter /\ writers' = [writers EXCEPT ![e] = row]

Ends(e) == writers' = [writers EXCEPT ![e] = NoWriter]

Publishes(t, version) ==
    {IF v.template = t /\ v.version = version THEN [v EXCEPT !.published = TRUE] ELSE v :
        v \in versions}

-----------------------------------------------------------------------------
createTemplate(t) ==
    /\ templates[t] = "NONE"
    /\ templates' = [templates EXCEPT ![t] = "DRAFT"]
    /\ versions' = versions \cup
          {[template |-> t, version |-> 1, copy |-> 1, published |-> FALSE]}
    /\ UNCHANGED <<submissions, writers>>

(* fresh: the latest version is published, a new one has to be made. *)
StartDraft(e, t) ==
    LET latest == NewestVersion(VersionsOf(t))
    IN  /\ templates[t] \in {"DRAFT", "PUBLISHED"}
        /\ latest.published => latest.version < MaxVersion
        /\ Reads(e, [NoWriter EXCEPT
              !.op = "updateDraft", !.form = t, !.fresh = latest.published,
              !.version = IF latest.published THEN latest.version + 1 ELSE latest.version])
        /\ UNCHANGED <<templates, versions, submissions>>

(* Mutant: without the unique key on (template, version). *)
MayRepeat(t, version) == TRUE

VersionIsFree(t, version) == \A v \in VersionsOf(t) : v.version # version

(* The draft is written by its id, whatever became of it; the template is a
   draft again. *)
updateDraft(e) ==
    LET t == writers[e].form
        version == writers[e].version
        copy == IF \E v \in VersionsOf(t) : v.version = version THEN 2 ELSE 1
    IN  /\ writers[e].op = "updateDraft"
        /\ IF writers[e].fresh
           THEN /\ VersionIsFree(t, version)
                /\ versions' = versions \cup
                      {[template |-> t, version |-> version, copy |-> copy, published |-> FALSE]}
           ELSE UNCHANGED versions
        /\ templates' = [templates EXCEPT ![t] = "DRAFT"]
        /\ Ends(e)
        /\ UNCHANGED submissions

(* An archived template with a draft is published like any other. *)
StartPublish(e, t) ==
    /\ templates[t] # "NONE"
    /\ Draft(t) # {}
    /\ Reads(e, [NoWriter EXCEPT !.op = "publish", !.form = t, !.version = NewestVersion(Draft(t)).version])
    /\ UNCHANGED <<templates, versions, submissions>>

publish(e) ==
    LET t == writers[e].form
    IN  /\ writers[e].op = "publish"
        /\ versions' = Publishes(t, writers[e].version)
        /\ templates' = [templates EXCEPT ![t] = "PUBLISHED"]
        /\ Ends(e)
        /\ UNCHANGED submissions

archive(t) ==
    /\ templates[t] # "NONE"
    /\ templates' = [templates EXCEPT ![t] = "ARCHIVED"]
    /\ UNCHANGED <<versions, submissions, writers>>

-----------------------------------------------------------------------------
(* assignRequiredForms, in the transaction that creates the booking *)

PublishedVersions(t) == {v \in VersionsOf(t) : v.published}

assignRequiredForms(s, t) ==
    /\ submissions[s] = NoSubmission
    /\ templates[t] = "PUBLISHED"
    /\ PublishedVersions(t) # {}
    /\ submissions' = [submissions EXCEPT ![s] =
          [template |-> t, version |-> NewestVersion(PublishedVersions(t)).version, status |-> "PENDING"]]
    /\ UNCHANGED <<templates, versions, writers>>

StartSubmission(e, s) ==
    /\ submissions[s].status = "PENDING"
    /\ Reads(e, [NoWriter EXCEPT !.op = "submit", !.form = s])
    /\ UNCHANGED <<templates, versions, submissions>>

submitForCustomer(e) ==
    /\ writers[e].op = "submit"
    /\ submissions' = [submissions EXCEPT ![writers[e].form].status = "SUBMITTED"]
    /\ Ends(e)
    /\ UNCHANGED <<templates, versions>>

StartReview(e, s) ==
    /\ submissions[s].status \in {"SUBMITTED", "REVIEWED"}
    /\ Reads(e, [NoWriter EXCEPT !.op = "review", !.form = s])
    /\ UNCHANGED <<templates, versions, submissions>>

review(e) ==
    /\ writers[e].op = "review"
    /\ submissions' = [submissions EXCEPT ![writers[e].form].status = "REVIEWED"]
    /\ Ends(e)
    /\ UNCHANGED <<templates, versions>>

(* A conflict, an exception, a crash. *)
DropWriter(e) ==
    /\ writers[e] # NoWriter
    /\ Ends(e)
    /\ UNCHANGED <<templates, versions, submissions>>

FormInit ==
    /\ templates = [t \in Template |-> "NONE"]
    /\ versions = {}
    /\ submissions = [s \in Submission |-> NoSubmission]
    /\ writers = [e \in Writer |-> NoWriter]

FormNext ==
    \/ \E t \in Template :
          \/ createTemplate(t) \/ archive(t)
          \/ \E s \in Submission : assignRequiredForms(s, t)
          \/ \E e \in Writer : StartDraft(e, t) \/ StartPublish(e, t)
    \/ \E e \in Writer :
          \/ updateDraft(e) \/ publish(e) \/ submitForCustomer(e) \/ review(e)
          \/ DropWriter(e)
          \/ \E s \in Submission : StartSubmission(e, s) \/ StartReview(e, s)

FormSpec == FormInit /\ [][FormNext]_formVars

-----------------------------------------------------------------------------
(* Properties *)

FormTypeOK ==
    /\ templates \in [Template -> Status]
    /\ versions \subseteq Version
    /\ submissions \in [Submission -> SubmissionRow]
    /\ writers \in [Writer -> WriterRow]

(* Two writers who open a new draft at the same time, or one who publishes
   what the other edits, never leave two drafts, two rows of a version or a
   hole in the numbers: the draft, if there is one, is the last version. *)
OneDraft ==
    \A t \in Template :
        /\ {v.version : v \in VersionsOf(t)} = 1..Cardinality(VersionsOf(t))
        /\ \A v \in Draft(t) : v.version = Cardinality(VersionsOf(t))
=============================================================================
