------------------------------ MODULE Dashboard ------------------------------
(***************************************************************************)
(* The pages of the web dashboard over an API that answers late, out of    *)
(* order or not at all: usePolling, the list pages with their page and     *)
(* filters, and the forms of ModulesPage, while other clients change the   *)
(* same settings.  One module's settings, a threshold and a mode; numbers  *)
(* are in units of which the API shows only multiples of a step.           *)
(***************************************************************************)
EXTENDS Naturals

CONSTANTS
    Selections,   \* pages and filters a user may choose on a list page
    Typed,        \* [field, value] a user may type
    Others,       \* settings other clients may store
    FirstRow,     \* the settings stored at first
    DisplayStep,  \* the API formats with two decimals
    None,
    Slots,        \* bound: requests on their way
    MaxActs,      \* bound: what users and other clients do
    MaxFaults     \* bound: requests that fail

Fields == {"threshold", "mode"}
Modes == {"AVERAGE", "FIRST", "SECOND", "LAST"}
Rows == [threshold : Nat, mode : Modes]

ASSUME DashboardAssumption ==
    /\ Selections # {}
    /\ \A t \in Typed : IF t.field = "mode" THEN t.value \in Modes
                        ELSE t.field = "threshold" /\ t.value \in Nat
    /\ FirstRow \in Rows /\ Others \subseteq Rows
    /\ DisplayStep \in Nat \ {0} /\ MaxActs \in Nat /\ MaxFaults \in Nat

VARIABLES
    row,        \* module_configs
    page,       \* the mounted page, "list" or "modules"
    gets,       \* the GETs on their way: what was asked, and the answer
    selection,  \* the page and the filters that are chosen
    shown,      \* the selection whose rows a list page shows
    form,       \* the form of the module
    put,        \* the PUT the form waits for
    late,       \* PUTs given up by the client that the API has yet to handle
    edits,      \* per field, what was typed and not saved, unless typed during a save
    asked,      \* per field, the values that somebody has typed or stored
    acts, faults

forms == <<form, put, late, edits, asked>>
lists == <<selection, shown>>
counters == <<acts, faults>>
vars == <<row, page, gets, lists, forms, counters>>

Free == [what |-> "nothing", answer |-> None]
NoForm == [values |-> FirstRow, there |-> FALSE, dirty |-> FALSE, saving |-> FALSE]
NoPut == [state |-> "none", values |-> FirstRow]
NoEdits == [f \in Fields |-> None]

Init ==
    /\ row = FirstRow
    /\ page \in {"list", "modules"}
    /\ gets = [n \in Slots |-> Free]
    /\ selection \in Selections
    /\ shown = "nothing"
    /\ form = NoForm /\ put = NoPut /\ late = {} /\ edits = NoEdits
    /\ asked = [f \in Fields |-> {FirstRow[f]}]
    /\ acts = 0 /\ faults = 0

Act == acts < MaxActs /\ acts' = acts + 1 /\ UNCHANGED faults
Fault == faults < MaxFaults /\ faults' = faults + 1 /\ UNCHANGED acts

\* A number as the API formats it: half a step is rounded to an even multiple.
ShownNumber(x) ==
    LET low == x \div DisplayStep
        double == 2 * (x % DisplayStep)
    IN DisplayStep * (IF double > DisplayStep \/ (double = DisplayStep /\ low % 2 = 1)
                      THEN low + 1 ELSE low)

ShownRow == [row EXCEPT !.threshold = ShownNumber(@)]

-----------------------------------------------------------------------------
(* usePolling *)

\* Mutant: the timer keeps calling the function of the first render.
FirstSelection == IF shown = "nothing" THEN selection ELSE shown

\* fnRef.current is the function of the last render.
Wanted == IF page = "modules" THEN "modules" ELSE selection

Request(n) ==
    /\ gets[n] = Free
    /\ gets' = [gets EXCEPT ![n] = [what |-> Wanted, answer |-> None]]

\* On mount, by the timer, or by the refresh button; nothing keeps a request from
\* overlapping with another.
Poll(n) ==
    /\ Request(n)
    /\ UNCHANGED <<row, page, lists, forms, counters>>

\* The API reads the table.
ApiReads(n) ==
    /\ gets[n] # Free /\ gets[n].answer = None
    /\ gets' = [gets EXCEPT ![n].answer = ShownRow]
    /\ UNCHANGED <<row, page, lists, forms, counters>>

\* Mutant: the form is filled by the first answer only.
SyncNewForm(values) ==
    IF form.there THEN UNCHANGED form
    ELSE form' = [values |-> values, there |-> TRUE, dirty |-> FALSE, saving |-> FALSE]

\* The effect on [modules]: a form with unsaved changes is left alone.
SyncForm(values) ==
    IF form.there /\ form.dirty THEN UNCHANGED form
    ELSE form' = [values |-> values, there |-> TRUE, dirty |-> FALSE, saving |-> FALSE]

\* setData, whatever was answered before.  A request of a page that was left
\* meanwhile changes nothing.
Deliver(n) ==
    /\ gets[n].answer # None
    /\ gets' = [gets EXCEPT ![n] = Free]
    /\ IF page = "modules" THEN SyncForm(gets[n].answer) /\ UNCHANGED shown
                           ELSE shown' = gets[n].what /\ UNCHANGED form
    /\ UNCHANGED <<row, page, selection, put, late, edits, asked, counters>>

\* An error, or the timeout of eight seconds.
GetFails(n) ==
    /\ gets[n] # Free
    /\ Fault
    /\ gets' = [gets EXCEPT ![n] = Free]
    /\ UNCHANGED <<row, page, lists, forms>>

-----------------------------------------------------------------------------
(* The user *)

\* Another page or filter: the next tick asks for it.
Select(s) ==
    /\ page = "list" /\ s # selection
    /\ Act
    /\ selection' = s
    /\ UNCHANGED <<row, page, gets, shown, forms>>

\* The page is unmounted with its state, and another one is mounted.
Navigate ==
    /\ Act
    /\ page' = IF page = "list" THEN "modules" ELSE "list"
    /\ gets' = [n \in Slots |-> Free]
    /\ shown' = "nothing"
    /\ form' = NoForm /\ edits' = NoEdits
    /\ late' = IF put.state = "sent" THEN late \cup {put.values} ELSE late
    /\ put' = NoPut
    /\ UNCHANGED <<row, selection, asked>>

\* handleFieldChange, which is not disabled during a save.
Type(t) ==
    /\ page = "modules" /\ form.there
    /\ Act
    /\ form' = [form EXCEPT !.values = [@ EXCEPT ![t.field] = t.value], !.dirty = TRUE]
    /\ edits' = [edits EXCEPT ![t.field] = IF form.saving THEN None ELSE t.value]
    /\ asked' = [asked EXCEPT ![t.field] = @ \cup {t.value}]
    /\ UNCHANGED <<row, page, gets, lists, put, late>>

\* Mutant: a field the user did not change is sent with its default.
DefaultPayload ==
    [f \in Fields |-> IF edits[f] # None THEN form.values[f]
                      ELSE IF f = "mode" THEN "FIRST" ELSE form.values[f]]

\* The request holds every field of the form, changed or not.
Payload == form.values

\* handleSaveModule up to its await; the button is disabled for a clean form and
\* during a save, and a threshold of zero is refused.
Save ==
    /\ page = "modules" /\ form.dirty /\ ~form.saving
    /\ form.values.threshold > 0
    /\ form' = [form EXCEPT !.saving = TRUE]
    /\ put' = [state |-> "sent", values |-> Payload]
    /\ UNCHANGED <<row, page, gets, lists, late, edits, asked, counters>>

-----------------------------------------------------------------------------
(* The API and other clients *)

PutApplied ==
    /\ put.state = "sent"
    /\ row' = put.values
    /\ put' = [put EXCEPT !.state = "applied"]
    /\ UNCHANGED <<page, gets, lists, form, late, edits, asked, counters>>

\* The answer makes the form clean, also what was typed meanwhile, and the modules
\* are fetched again.
PutAnswered(n) ==
    /\ put.state = "applied"
    /\ put' = NoPut
    /\ form' = [form EXCEPT !.dirty = FALSE, !.saving = FALSE]
    /\ edits' = NoEdits
    /\ Request(n)
    /\ UNCHANGED <<row, page, lists, late, asked, counters>>

\* Mutant: a failed save makes the form clean.
Unsaved == [form EXCEPT !.dirty = FALSE, !.saving = FALSE]

\* The form after a save that failed.
StillDirty == [form EXCEPT !.saving = FALSE]

\* An error or a timeout, before or after the API has stored the settings, or
\* while it has yet to.
PutFails ==
    /\ put.state # "none"
    /\ Fault
    /\ form' = StillDirty
    /\ put' = NoPut
    /\ late' = IF put.state = "sent" THEN late \cup {put.values} ELSE late
    /\ UNCHANGED <<row, page, gets, lists, edits, asked>>

\* A request that its client has given up is handled, or refused, or was lost.
LateApplied(p) ==
    /\ late' = late \ {p}
    /\ row' = p
    /\ UNCHANGED <<page, gets, lists, form, put, edits, asked, counters>>

LateLost(p) ==
    /\ late' = late \ {p}
    /\ UNCHANGED <<row, page, gets, lists, form, put, edits, asked, counters>>

\* The settings are changed by another client.
OtherClient(r) ==
    /\ r # row
    /\ Act
    /\ row' = r
    /\ asked' = [f \in Fields |-> asked[f] \cup {r[f]}]
    /\ UNCHANGED <<page, gets, lists, form, put, late, edits>>

-----------------------------------------------------------------------------
Browser ==
    \/ \E n \in Slots : Poll(n) \/ Deliver(n) \/ PutAnswered(n)
    \/ Save

Api ==
    \/ \E n \in Slots : ApiReads(n)
    \/ PutApplied
    \/ \E p \in late : LateApplied(p) \/ LateLost(p)

Next ==
    \/ Browser \/ Api
    \/ \E n \in Slots : GetFails(n)
    \/ PutFails
    \/ Navigate
    \/ \E s \in Selections : Select(s)
    \/ \E t \in Typed : Type(t)
    \/ \E r \in Others : OtherClient(r)

Spec == Init /\ [][Next]_vars

\* The timer ticks, requests are answered in the end; nobody has to save.
FairSpec ==
    /\ Spec
    /\ WF_vars(\E n \in Slots : Poll(n))
    /\ \A n \in Slots : WF_vars(ApiReads(n)) /\ WF_vars(Deliver(n))
    /\ WF_vars(PutApplied) /\ WF_vars(\E n \in Slots : PutAnswered(n))
    /\ WF_vars(\E p \in late : LateApplied(p) \/ LateLost(p))

-----------------------------------------------------------------------------
(* Properties *)

\* What was typed outside of a save stays in the form, and the form stays dirty,
\* until a save that carried it has been answered (handleFieldChange, the effect on
\* [modules], both ends of handleSaveModule), whatever is polled meanwhile and
\* however a save fails.
UnsavedEditsKept ==
    \A f \in Fields : edits[f] # None =>
        form.there /\ form.dirty /\ form.values[f] = edits[f]

\* Fields that a save carries along unchanged (handleSaveModule sends all of them)
\* do no more than repeat, as the API showed it, a value that somebody had typed or
\* stored.
NothingInvented ==
    \A f \in Fields : \E v \in asked[f] :
        row[f] = IF f = "threshold" /\ row[f] # v THEN ShownNumber(v) ELSE v

\* Once nobody changes anything any more, a form without unsaved changes shows what
\* is stored, whatever order answers came in.
CleanFormCatchesUp ==
    <>[](page = "modules" /\ ~form.dirty => form.there /\ form.values = ShownRow)

\* Once the user has chosen, a list page shows the rows of the page and the filters
\* that are chosen.
ListCatchesUp ==
    <>[](page = "list" => shown = selection)
=============================================================================
