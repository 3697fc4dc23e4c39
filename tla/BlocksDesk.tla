------------------------------- MODULE BlocksDesk -------------------------------
(***************************************************************************)
(* The salon's page of breaks and absences: the part of SchedulePage that  *)
(* lists the blocks of a date, its editor, and the dialog that takes a     *)
(* block away with a reason that is kept.  ScheduleBlocksService answers   *)
(* in one step here; its lock and its constraints are the business of      *)
(* SalonSchedule.                                                          *)
(***************************************************************************)
EXTENDS Integers, FiniteSets

CONSTANTS
    TimeBlock,  \* rows of "schedule_blocks"
    BlockDate,  \* dates
    Text,       \* what else the form holds
    Default,    \* what a new form holds
    MaxCalls,   \* bound on calls without an answer
    Naught      \* no row, no list, nothing typed

BlocksAssumption ==
    /\ Default \in Text /\ MaxCalls \in Nat
    /\ Naught \notin TimeBlock \cup BlockDate \cup Text

VARIABLES
    blocks,     \* the rows
    blockDate,  \* blockDate of the page
    listed,     \* blocks of the page
    form,       \* editing, and the form of BlockEditor
    target,     \* cancelTarget
    reason,     \* reason of CancelBlockDialog: the block that it was typed for
    cancelling, \* its submitting
    calls       \* calls without an answer

blocksVars == <<blocks, blockDate, listed, form, target, reason, cancelling, calls>>

-----------------------------------------------------------------------------
(* over: the reason a block was taken away with *)
BlockRow == [day : BlockDate, text : Text, over : TimeBlock \cup {Naught}]

Live == {b \in TimeBlock : blocks[b] # Naught /\ blocks[b].over = Naught}

(* day: blockDate when the call was made; at: whether the editor that made
   it is still there, or at least the panel *)
Call(kind, of, input) ==
    [kind |-> kind, of |-> of, input |-> input, day |-> blockDate, at |-> "editor",
     done |-> FALSE, result |-> Naught]

Lists(date) == [Call("list", date, Naught) EXCEPT !.day = date]

Done(c, result) == (calls \ {c}) \cup {[c EXCEPT !.done = TRUE, !.result = result]}

Panel == <<form, target, reason, cancelling>>
Page == <<blockDate, listed>>

-----------------------------------------------------------------------------
(* ScheduleBlocksService; a refusal leaves the call to a failure. *)

list(c) ==
    /\ c.kind = "list" /\ ~c.done
    /\ calls' = Done(c, [b \in {x \in Live : blocks[x].day = c.of} |-> blocks[b]])
    /\ UNCHANGED <<blocks, Page, Panel>>

(* create, and update of a block that is there *)
saveBlock(c, b) ==
    /\ c.kind = "save" /\ ~c.done
    /\ IF c.of = "new" THEN blocks[b] = Naught ELSE b = c.of /\ b \in Live
    /\ blocks' = [blocks EXCEPT ![b] =
                     [day |-> c.input.day, text |-> c.input.text, over |-> Naught]]
    /\ calls' = Done(c, Naught)
    /\ UNCHANGED <<Page, Panel>>

cancelBlock(c) ==
    /\ c.kind = "cancel" /\ ~c.done
    /\ c.of \in Live
    /\ blocks' = [blocks EXCEPT ![c.of].over = c.input]
    /\ calls' = Done(c, Naught)
    /\ UNCHANGED <<Page, Panel>>

-----------------------------------------------------------------------------
(* SchedulePage *)

(* The effect of blockDate; nothing tells which list was asked for last. *)
changeDate(date) ==
    /\ form = Naught /\ target = Naught
    /\ date # blockDate
    /\ Lists(date) \notin calls /\ Cardinality(calls) < MaxCalls
    /\ blockDate' = date
    /\ calls' = calls \cup {Lists(date)}
    /\ UNCHANGED <<blocks, listed, Panel>>

Listed(c) ==
    /\ c.kind = "list" /\ c.done
    /\ listed' = c.result
    /\ calls' = calls \ {c}
    /\ UNCHANGED <<blocks, blockDate, Panel>>

(* An error is shown over the list there was. *)
ListFails(c) ==
    /\ c.kind = "list"
    /\ calls' = calls \ {c}
    /\ UNCHANGED <<blocks, Page, Panel>>

(* load puts a skeleton in the place of the panel, and so does the choice of
   the other section: what is open there is gone. *)
Unmounted ==
    /\ form' = Naught /\ target' = Naught /\ reason' = Naught /\ cancelling' = FALSE
    /\ calls' = {IF c.kind = "list" THEN c ELSE [c EXCEPT !.at = "gone"] : c \in calls}
    /\ UNCHANGED <<blocks, Page>>

-----------------------------------------------------------------------------
(* BlockPanel and BlockEditor *)

Opened(of, was) ==
    /\ form = Naught /\ target = Naught
    /\ form' = [of |-> of, was |-> was, input |-> was, sending |-> FALSE]
    /\ UNCHANGED <<blocks, Page, target, reason, cancelling, calls>>

openNew == Opened("new", [day |-> blockDate, text |-> Default])

openEditor(b) ==
    /\ b \in DOMAIN listed
    /\ Opened(b, [day |-> listed[b].day, text |-> listed[b].text])

edit(input) ==
    /\ form # Naught
    /\ form' = [form EXCEPT !.input = input]
    /\ UNCHANGED <<blocks, Page, target, reason, cancelling, calls>>

(* The form as it opens cannot be saved: a new block, too, must be changed. *)
submit ==
    /\ form # Naught
    /\ ~form.sending /\ form.input # form.was
    /\ LET c == Call("save", form.of, form.input)
       IN  /\ c \notin calls /\ Cardinality(calls) < MaxCalls
           /\ calls' = calls \cup {c}
    /\ form' = [form EXCEPT !.sending = TRUE]
    /\ UNCHANGED <<blocks, Page, target, reason, cancelling>>

LeavesEditor(rest) ==
    {IF c.kind = "save" /\ c.at = "editor" THEN [c EXCEPT !.at = "panel"] ELSE c : c \in rest}

(* At once, or "Kaydetmeden kapat"; a save under way does not matter. *)
close ==
    /\ form # Naught
    /\ form' = Naught
    /\ calls' = LeavesEditor(calls)
    /\ UNCHANGED <<blocks, Page, target, reason, cancelling>>

(* onSaved closes the editor that is open, and lists the date that was
   chosen when the save began. *)
Saved(c) ==
    /\ c.kind = "save" /\ c.done
    /\ form' = IF c.at = "gone" THEN form ELSE Naught
    /\ calls' = (IF c.at = "gone" THEN calls \ {c} ELSE LeavesEditor(calls \ {c}))
                    \cup {Lists(c.day)}
    /\ UNCHANGED <<blocks, Page, target, reason, cancelling>>

SaveFails(c) ==
    /\ c.kind = "save"
    /\ form' = IF c.at = "editor" THEN [form EXCEPT !.sending = FALSE] ELSE form
    /\ calls' = calls \ {c}
    /\ UNCHANGED <<blocks, Page, target, reason, cancelling>>

-----------------------------------------------------------------------------
(* CancelBlockDialog, which is there with the panel, open or not *)

(* Mutant: the text of the time before is still there. *)
KeepsReason(b) == reason

(* The effect of the block *)
ReasonFor(b) == Naught

openCancel(b) ==
    /\ form = Naught /\ target = Naught
    /\ b \in DOMAIN listed
    /\ target' = b
    /\ reason' = ReasonFor(b)
    /\ UNCHANGED <<blocks, Page, form, cancelling, calls>>

typeReason ==
    /\ target # Naught
    /\ reason' = target
    /\ UNCHANGED <<blocks, Page, form, target, cancelling, calls>>

dismiss ==
    /\ target # Naught
    /\ target' = Naught
    /\ UNCHANGED <<blocks, Page, form, reason, cancelling, calls>>

(* The button of an AlertDialog closes it; the text stays until a block is
   chosen again. *)
confirm ==
    /\ target # Naught
    /\ reason # Naught /\ ~cancelling
    /\ Cardinality(calls) < MaxCalls
    /\ calls' = calls \cup {Call("cancel", target, reason)}
    /\ target' = Naught
    /\ cancelling' = TRUE
    /\ UNCHANGED <<blocks, Page, form, reason>>

(* onCancelled closes the dialog of whatever block is open since. *)
Cancelled(c) ==
    /\ c.kind = "cancel" /\ c.done
    /\ target' = IF c.at = "gone" THEN target ELSE Naught
    /\ cancelling' = (cancelling /\ c.at = "gone")
    /\ calls' = (calls \ {c}) \cup {Lists(c.day)}
    /\ UNCHANGED <<blocks, Page, form, reason>>

CancelFails(c) ==
    /\ c.kind = "cancel"
    /\ cancelling' = (cancelling /\ c.at = "gone")
    /\ calls' = calls \ {c}
    /\ UNCHANGED <<blocks, Page, form, target, reason>>

-----------------------------------------------------------------------------
BlocksInit ==
    /\ blocks \in [TimeBlock -> [day : BlockDate, text : {Default}, over : {Naught}]
                                    \cup {Naught}]
    /\ blockDate \in BlockDate
    /\ listed = [b \in {} |-> Naught]
    /\ form = Naught /\ target = Naught /\ reason = Naught /\ cancelling = FALSE
    /\ calls = {Lists(blockDate)}

Serves(c) == list(c) \/ (\E b \in TimeBlock : saveBlock(c, b)) \/ cancelBlock(c)

Arrives(c) ==
    \/ Listed(c) \/ ListFails(c) \/ Saved(c) \/ SaveFails(c) \/ Cancelled(c) \/ CancelFails(c)

BlocksNext ==
    \/ \E c \in calls : Serves(c) \/ Arrives(c)
    \/ \E date \in BlockDate : changeDate(date)
    \/ Unmounted
    \/ openNew \/ submit \/ close
    \/ \E b \in TimeBlock : openEditor(b) \/ openCancel(b)
    \/ \E date \in BlockDate, text \in Text : edit([day |-> date, text |-> text])
    \/ typeReason \/ dismiss \/ confirm

BlocksSpec == BlocksInit /\ [][BlocksNext]_blocksVars

-----------------------------------------------------------------------------
(* Properties *)

BlocksTypeOK ==
    /\ blocks \in [TimeBlock -> BlockRow \cup {Naught}]
    /\ blockDate \in BlockDate
    /\ DOMAIN listed \subseteq TimeBlock
    /\ target \in TimeBlock \cup {Naught} /\ reason \in TimeBlock \cup {Naught}
    /\ cancelling \in BOOLEAN
    /\ form = Naught \/ target = Naught

(* "Kaldirma nedeni ekip gecmisinde saklanir": the reason kept with a block
   was typed for that block.  The dialog is one component for all blocks and
   keeps its text when it closes, a removal under way leaves it free to be
   opened for another block, and that one's answer closes it again. *)
ReasonIsForBlock ==
    \A b \in TimeBlock : blocks[b] # Naught => blocks[b].over \in {b, Naught}

(* Why: a block is chosen with nothing typed, and a removal goes out with
   the block whose dialog is open. *)
BlockRows ==
    /\ blocks = [b \in TimeBlock |-> blocks[b]]
    /\ \A b \in TimeBlock : blocks[b] # Naught => "over" \in DOMAIN blocks[b]

CallsAreRecords == \A c \in calls : {"kind", "of", "input"} \subseteq DOMAIN c

TypedForTarget == target # Naught => reason \in {target, Naught}

RemovalsAreOwn == \A c \in calls : c.kind = "cancel" => c.input = c.of

ReasonInv ==
    BlockRows /\ CallsAreRecords /\ TypedForTarget /\ RemovalsAreOwn /\ ReasonIsForBlock

(* What the code does not promise; each is refuted by BlocksNext. *)

(* The list is of the date beside it, once everything has been answered. *)
BlocksAreOfDate ==
    calls = {} => \A b \in DOMAIN listed : listed[b].day = blockDate

(* The answer of a save closes the editor that sent it. *)
ClosesOwnEditor ==
    [][\A c \in calls : Saved(c) /\ form # Naught /\ form' = Naught
            => c.at = "editor"]_blocksVars

(* An editor is left by its own buttons or its own answer. *)
EditorStays == [][Unmounted => form = Naught]_blocksVars
=============================================================================
