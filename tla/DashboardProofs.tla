--------------------------- MODULE DashboardProofs ---------------------------
(***************************************************************************)
(* What a user of the dashboard may rely on, for any number of overlapping *)
(* requests, users' acts and failures: an edit stays until a save that     *)
(* carried it is answered, and no save stores a value that nobody chose.   *)
(***************************************************************************)
EXTENDS Dashboard, TLAPS

Gets == [what : Selections \cup {"modules", "nothing"}, answer : Rows \cup {None}]
Forms == [values : Rows, there : BOOLEAN, dirty : BOOLEAN, saving : BOOLEAN]
Puts == [state : {"none", "sent", "applied"}, values : Rows]

DashboardTypes ==
    /\ row \in Rows
    /\ gets \in [Slots -> Gets]
    /\ selection \in Selections
    /\ form \in Forms /\ put \in Puts /\ late \subseteq Rows
    /\ DOMAIN edits = Fields /\ edits = [f \in Fields |-> edits[f]]
    /\ asked \in [Fields -> SUBSET (Nat \cup Modes)]
    /\ asked["threshold"] \subseteq Nat /\ asked["mode"] \subseteq Modes

\* Each setting of r is one that was asked for, or what the API shows of it.
Known(known, r) ==
    /\ \E v \in known["threshold"] : r.threshold = v \/ r.threshold = ShownNumber(v)
    /\ r.mode \in known["mode"]

\* So are all the settings that are stored, shown or on their way.
AllKnown ==
    /\ Known(asked, FirstRow) /\ Known(asked, row) /\ Known(asked, form.values) /\ Known(asked, put.values)
    /\ \A p \in late : Known(asked, p)
    /\ \A n \in Slots : gets[n].answer # None => Known(asked, gets[n].answer)

DashboardInv == DashboardTypes /\ UnsavedEditsKept /\ AllKnown

-----------------------------------------------------------------------------
(* What the API shows *)

LEMMA Constants ==
    /\ FirstRow \in Rows /\ Others \subseteq Rows /\ DisplayStep \in Nat \ {0}
    /\ \A t \in Typed : \/ t.field = "mode" /\ t.value \in Modes
                        \/ t.field = "threshold" /\ t.value \in Nat
BY DashboardAssumption

\* A number that is shown is a multiple of the step.
LEMMA ShownIsMultiple ==
    ASSUME NEW x \in Nat
    PROVE  \E k \in Nat : ShownNumber(x) = DisplayStep * k
<1>. DEFINE low == x \div DisplayStep
            k == IF 2 * (x % DisplayStep) > DisplayStep
                    \/ (2 * (x % DisplayStep) = DisplayStep /\ low % 2 = 1)
                 THEN low + 1 ELSE low
<1>1. low \in Nat
  BY Constants
<1>2. k \in Nat
  <2>. HIDE DEF low
  <2> QED
    BY <1>1
<1>3. ShownNumber(x) = DisplayStep * k
  BY DEF ShownNumber
<1> QED
  BY <1>2, <1>3

\* And a multiple of the step is shown as it is.
LEMMA ShownTwice ==
    ASSUME NEW x \in Nat
    PROVE  /\ ShownNumber(x) \in Nat
           /\ ShownNumber(ShownNumber(x)) = ShownNumber(x)
<1>1. PICK k \in Nat : ShownNumber(x) = DisplayStep * k
  BY ShownIsMultiple
<1>. DEFINE y == DisplayStep * k
<1>2. y \in Nat /\ y \div DisplayStep = k /\ y % DisplayStep = 0
  BY Constants
<1>3. ShownNumber(y) = DisplayStep * k
  <2>. HIDE DEF y
  <2> QED
    BY <1>2, Constants DEF ShownNumber
<1> QED
  BY <1>1, <1>2, <1>3

\* What the API shows of settings that are known is known.
LEMMA ShownRowKnown ==
    ASSUME DashboardTypes, Known(asked, row)
    PROVE  ShownRow \in Rows /\ Known(asked, ShownRow)
<1>1. PICK v \in asked["threshold"] :
         row.threshold = v \/ row.threshold = ShownNumber(v)
  BY DEF Known
<1>2. v \in Nat /\ row.threshold \in Nat /\ row.mode \in Modes
  BY DEF DashboardTypes, Rows
<1>3. /\ ShownRow = [threshold |-> ShownNumber(row.threshold), mode |-> row.mode]
      /\ ShownNumber(row.threshold) = ShownNumber(v)
  BY <1>1, <1>2, ShownTwice DEF ShownRow, DashboardTypes, Rows
<1>4. ShownNumber(row.threshold) \in Nat
  BY <1>2, ShownTwice
<1> QED
  BY <1>1, <1>2, <1>3, <1>4 DEF Known, Rows

-----------------------------------------------------------------------------
(* The steps *)

\* Nobody forgets what was asked for.
LEMMA KnownStays ==
    ASSUME NEW a, NEW b, NEW r, Known(a, r),
           a["threshold"] \subseteq b["threshold"], a["mode"] \subseteq b["mode"]
    PROVE  Known(b, r)
BY DEF Known

LEMMA InitInv == Init => DashboardInv
<1>. SUFFICES ASSUME Init PROVE DashboardInv
  OBVIOUS
<1>1. FirstRow \in Rows /\ Known(asked, FirstRow)
  BY Constants DEF Init, Known, Fields, Rows
<1>2. DashboardTypes
  BY <1>1, Constants DEF Init, DashboardTypes, Fields, Rows, Gets, Forms, Puts, Free,
     NoForm, NoPut, NoEdits
<1> QED
  BY <1>1, <1>2 DEF Init, DashboardInv, AllKnown, UnsavedEditsKept, Free, NoForm, NoPut,
     NoEdits

\* The steps that keep the form, or fill one that has no unsaved changes.
LEMMA PollSteps ==
    ASSUME DashboardInv, NEW n \in Slots, Poll(n) \/ ApiReads(n) \/ Deliver(n) \/ GetFails(n)
    PROVE  DashboardInv'
<1>. USE DEF DashboardInv, DashboardTypes, AllKnown, UnsavedEditsKept
<1>1. CASE Poll(n)
  <2>1. Wanted \in Selections \cup {"modules"}
    BY DEF Wanted
  <2>2. [what |-> Wanted, answer |-> None] \in Gets
    BY <2>1 DEF Gets
  <2> QED
    BY <1>1, <2>2 DEF Poll, Request, lists, forms, counters
<1>2. CASE ApiReads(n)
  <2>1. ShownRow \in Rows /\ Known(asked, ShownRow)
    BY ShownRowKnown
  <2>2. [gets[n] EXCEPT !.answer = ShownRow] \in Gets
    BY <2>1 DEF Gets
  <2>3. gets' = [gets EXCEPT ![n] = [gets[n] EXCEPT !.answer = ShownRow]]
    BY <1>2 DEF ApiReads
  <2>4. gets'[n].answer = ShownRow
    BY <2>3 DEF Gets
  <2> QED
    BY <1>2, <2>1, <2>2, <2>3, <2>4 DEF ApiReads, lists, forms, counters
<1>3. CASE Deliver(n)
  <2>1. Free \in Gets /\ Free.answer = None
    BY DEF Free, Gets
  <2>2. gets[n].answer \in Rows /\ Known(asked, gets[n].answer)
    BY <1>3 DEF Deliver, Gets
  <2>3. \/ UNCHANGED form
        \/ /\ ~(form.there /\ form.dirty)
           /\ form' = [values |-> gets[n].answer, there |-> TRUE, dirty |-> FALSE,
                       saving |-> FALSE]
    BY <1>3 DEF Deliver, SyncForm
  <2>4. form' \in Forms /\ Known(asked, form'.values)
    <3>1. CASE UNCHANGED form
      BY <3>1
    <3>2. CASE form' = [values |-> gets[n].answer, there |-> TRUE, dirty |-> FALSE,
                        saving |-> FALSE]
      <4>1. form' \in Forms /\ form'.values = gets[n].answer
        BY <2>2, <3>2 DEF Forms
      <4> QED
        BY <2>2, <4>1
    <3> QED
      BY <2>3, <3>1, <3>2
  <2>5. UnsavedEditsKept'
    BY <1>3, <2>3 DEF Deliver
  <2> QED
    BY <1>3, <2>1, <2>4, <2>5 DEF Deliver, counters
<1>4. CASE GetFails(n)
  <2>1. Free \in Gets /\ Free.answer = None
    BY DEF Free, Gets
  <2> QED
    BY <1>4, <2>1 DEF GetFails, lists, forms, Fault
<1> QED
  BY <1>1, <1>2, <1>3, <1>4

LEMMA TypeStep ==
    ASSUME DashboardInv, NEW t \in Typed, Type(t)
    PROVE  DashboardInv'
<1>. USE DEF DashboardInv, DashboardTypes, AllKnown, UnsavedEditsKept
<1>1. t.field \in Fields
  BY Constants DEF Fields
<1>2. /\ form' = [form EXCEPT !.values = [form.values EXCEPT ![t.field] = t.value],
                             !.dirty = TRUE]
      /\ edits' = [edits EXCEPT ![t.field] = IF form.saving THEN None ELSE t.value]
      /\ asked' = [asked EXCEPT ![t.field] = asked[t.field] \cup {t.value}]
      /\ form.there
  BY DEF Type
<1>3. /\ asked' \in [Fields -> SUBSET (Nat \cup Modes)]
      /\ asked'["threshold"] \subseteq Nat /\ asked'["mode"] \subseteq Modes
      /\ \A f \in Fields : asked[f] \subseteq asked'[f]
      /\ t.value \in asked'[t.field]
  BY <1>1, <1>2, Constants DEF Fields
<1>4. form.values \in Rows /\ Known(asked', form.values)
  BY <1>3, KnownStays DEF Forms, Fields
<1>5. form'.values \in Rows /\ Known(asked', form'.values) /\ form'.values[t.field] = t.value
  <2>1. CASE t.field = "mode"
    <3>1. form'.values = [threshold |-> form.values.threshold, mode |-> t.value]
      BY <1>2, <1>4, <2>1 DEF Forms, Rows
    <3> QED
      BY <1>3, <1>4, <2>1, <3>1, Constants DEF Rows, Known
  <2>2. CASE t.field = "threshold"
    <3>1. form'.values = [threshold |-> t.value, mode |-> form.values.mode]
      BY <1>2, <1>4, <2>2 DEF Forms, Rows
    <3> QED
      BY <1>3, <1>4, <2>2, <3>1, Constants DEF Rows, Known
  <2> QED
    BY <1>1, <2>1, <2>2 DEF Fields
<1>6. form' \in Forms
  BY <1>2, <1>5 DEF Forms
<1>7. UnsavedEditsKept'
  <2>1. form'.there /\ form'.dirty
    BY <1>2 DEF Forms
  <2>2. ASSUME NEW f \in Fields, f # t.field
        PROVE  edits'[f] = edits[f] /\ form'.values[f] = form.values[f]
    BY <1>2, <2>2 DEF Forms, Rows, Fields
  <2>3. edits'[t.field] = None \/ edits'[t.field] = t.value
    BY <1>1, <1>2
  <2> QED
    BY <1>5, <2>1, <2>2, <2>3
<1>8. \A r : Known(asked, r) => Known(asked', r)
  BY <1>3, KnownStays DEF Fields
<1>9. AllKnown'
  BY <1>5, <1>8 DEF Type, lists
<1>10. DashboardTypes'
  BY <1>2, <1>3, <1>6 DEF Type, lists
<1> QED
  BY <1>7, <1>9, <1>10

LEMMA SaveSteps ==
    ASSUME DashboardInv,
           \/ Save \/ PutApplied \/ PutFails \/ Navigate
           \/ \E n \in Slots : PutAnswered(n)
           \/ \E p \in late : LateApplied(p) \/ LateLost(p)
    PROVE  DashboardInv'
<1>. USE DEF DashboardInv, DashboardTypes, AllKnown, UnsavedEditsKept
<1>1. CASE Save
  <2>1. form' \in Forms /\ form'.values = form.values /\ form'.there = form.there
        /\ form'.dirty = form.dirty
    BY <1>1 DEF Save, Forms
  <2>2. put' \in Puts /\ put'.values = form.values
    BY <1>1 DEF Save, Payload, Puts, Forms
  <2> QED
    BY <1>1, <2>1, <2>2 DEF Save, lists, counters
<1>2. CASE PutApplied
  <2>1. put' \in Puts /\ put'.values = put.values /\ row' = put.values /\ row' \in Rows
    BY <1>2 DEF PutApplied, Puts
  <2> QED
    BY <1>2, <2>1 DEF PutApplied, lists, counters
<1>3. NoPut \in Puts /\ NoPut.values = FirstRow /\ NoForm \in Forms
      /\ NoForm.values = FirstRow
  BY Constants DEF NoPut, Puts, NoForm, Forms
<1>4. CASE PutFails
  <2>1. form' \in Forms /\ form'.values = form.values /\ form'.there = form.there
        /\ form'.dirty = form.dirty
    BY <1>4 DEF PutFails, StillDirty, Forms
  <2>2. late' \subseteq Rows /\ \A p \in late' : Known(asked, p)
    BY <1>4 DEF PutFails, Puts
  <2> QED
    BY <1>3, <1>4, <2>1, <2>2 DEF PutFails, lists, Fault
<1>5. CASE Navigate
  <2>1. late' \subseteq Rows /\ \A p \in late' : Known(asked, p)
    BY <1>5 DEF Navigate, Puts
  <2>2. gets' = [n \in Slots |-> Free] /\ Free \in Gets /\ Free.answer = None
    BY <1>5 DEF Navigate, Free, Gets
  <2>3. edits' = [f \in Fields |-> None]
    BY <1>5 DEF Navigate, NoEdits
  <2> QED
    BY <1>3, <1>5, <2>1, <2>2, <2>3 DEF Navigate
<1>6. ASSUME NEW n \in Slots, PutAnswered(n) PROVE DashboardInv'
  <2>1. form' \in Forms /\ form'.values = form.values
    BY <1>6 DEF PutAnswered, Forms
  <2>2. edits' = [f \in Fields |-> None]
    BY <1>6 DEF PutAnswered, NoEdits
  <2>3. [what |-> Wanted, answer |-> None] \in Gets
    BY DEF Gets, Wanted
  <2>4. gets' = [gets EXCEPT ![n] = [what |-> Wanted, answer |-> None]]
    BY <1>6 DEF PutAnswered, Request
  <2> QED
    BY <1>3, <1>6, <2>1, <2>2, <2>3, <2>4 DEF PutAnswered, lists, counters
<1>7. ASSUME NEW p \in late, LateApplied(p) \/ LateLost(p) PROVE DashboardInv'
  BY <1>7 DEF LateApplied, LateLost, lists, counters
<1> QED
  BY <1>1, <1>2, <1>4, <1>5, <1>6, <1>7

LEMMA StepInv == DashboardInv /\ [Next]_vars => DashboardInv'
<1>. SUFFICES ASSUME DashboardInv, [Next]_vars PROVE DashboardInv'
  OBVIOUS
<1>1. ASSUME NEW s \in Selections, Select(s) PROVE DashboardInv'
  BY <1>1 DEF Select, forms, DashboardInv, DashboardTypes, AllKnown, UnsavedEditsKept
<1>2. ASSUME NEW r \in Others, OtherClient(r) PROVE DashboardInv'
  <2>. USE DEF DashboardInv, DashboardTypes, AllKnown, UnsavedEditsKept
  <2>1. r \in Rows /\ r.threshold \in Nat /\ r.mode \in Modes
    BY Constants DEF Rows
  <2>2. asked' = [f \in Fields |-> asked[f] \cup {r[f]}]
    BY <1>2 DEF OtherClient
  <2>3. /\ asked'["threshold"] = asked["threshold"] \cup {r.threshold}
        /\ asked'["mode"] = asked["mode"] \cup {r.mode}
        /\ asked' \in [Fields -> SUBSET (Nat \cup Modes)]
    <3>1. \A f \in Fields : r[f] \in Nat \cup Modes
      BY <2>1 DEF Fields
    <3> QED
      BY <2>2, <3>1 DEF Fields
  <2>4. \A x : Known(asked, x) => Known(asked', x)
    BY <2>3, KnownStays
  <2>5. Known(asked', r)
    BY <2>3 DEF Known
  <2> QED
    BY <1>2, <2>1, <2>3, <2>4, <2>5 DEF OtherClient, lists
<1>3. CASE UNCHANGED vars
  BY <1>3 DEF vars, lists, forms, counters, DashboardInv, DashboardTypes, AllKnown,
     UnsavedEditsKept
<1> QED
  BY <1>1, <1>2, <1>3, PollSteps, TypeStep, SaveSteps DEF Next, Browser, Api

LEMMA DashboardInvariant == Spec => []DashboardInv
BY InitInv, StepInv, PTL DEF Spec

-----------------------------------------------------------------------------

\* What a user typed outside of a save stays in the form, and the form dirty, until a
\* save that carried it is answered, whatever is polled and however a save fails.
THEOREM EditsKept == Spec => []UnsavedEditsKept
BY DashboardInvariant, PTL DEF DashboardInv

\* A save sends every field, rounded and perhaps stale; still nothing is ever stored
\* but a value that somebody typed or stored, or that value as the API shows it:
\* showing it again and again does not let it drift.
THEOREM NothingIsInvented == Spec => []NothingInvented
<1>1. DashboardInv => NothingInvented
  <2>. SUFFICES ASSUME DashboardInv PROVE NothingInvented
    OBVIOUS
  <2>1. PICK v \in asked["threshold"] : row.threshold = v \/ row.threshold = ShownNumber(v)
    BY DEF DashboardInv, AllKnown, Known
  <2>2. row.mode \in asked["mode"]
    BY DEF DashboardInv, AllKnown, Known
  <2> QED
    BY <2>1, <2>2 DEF NothingInvented, Fields
<1> QED
  BY <1>1, DashboardInvariant, PTL
=============================================================================
