---------------------------- MODULE GroupDialog ----------------------------
(***************************************************************************)
(* The two dialogs of the administrator's timetable page: the group dialog *)
(* (GroupDetailModal.tsx) and the student dialog (ReservationDetailModal), *)
(* opened by useReservationModals on ids that are looked up in the lists.  *)
(*                                                                         *)
(* The group dialog is mounted once and for good: what is typed in it      *)
(* outlives closing and opening it.  The student dialog is keyed by the    *)
(* reservation: its form lives as long as the dialog shows that student.   *)
(* A draft remembers in "of" where it was typed, for the properties only.  *)
(* The lists are up to date; every request may also be refused or lost.    *)
(***************************************************************************)
EXTENDS ReservationGroups

CONSTANT DialogStart   \* states [rsv, grp, slot] the page may be opened on

ASSUME DialogStartsAreTyped ==
  DialogStart \subseteq
    [rsv: [RIds -> Row], grp: [GIds -> GroupRow],
     slot: SUBSET [group: GIds, owner: RIds \cup {Null}, range: Ranges]]

VARIABLES
  opened,    \* detailGroupId
  info,      \* infoDraft: [capacity, minAge, maxAge, of]
  sched,     \* scheduleDraft: [range, of]
  times,     \* editingSlotsFor and slotDraft: [who, slots]
  detail,    \* detailReservationId
  form,      \* the student form under edit: [status, prefs, of]
  saving     \* updateReservation under way: [who, status, prefs, mounted]

groupDraft == <<info, sched, times>>
dialogVars == <<vars, opened, groupDraft, detail, form, saving>>

Shown(g) == opened = g /\ Live(g)
NoDialog == ~(\E g \in GIds : Shown(g)) /\ ~(detail # Null /\ Exists(detail))
Refused == UNCHANGED vars

-----------------------------------------------------------------------------
(* GroupDetailModal                                                         *)

OpenGroup(g) ==
  /\ NoDialog
  /\ Live(g)
  /\ opened' = g
  /\ UNCHANGED <<vars, groupDraft, detail, form, saving>>

\* closeGroupDetail: the drafts stay.
CloseGroup ==
  /\ \E g \in GIds : Shown(g)
  /\ opened' = Null
  /\ UNCHANGED <<vars, groupDraft, detail, form, saving>>

\* Typed drafts, or the group's own values.
Info(g) ==
  IF info # Null THEN info
  ELSE [capacity |-> grp[g].capacity, minAge |-> grp[g].minAge,
        maxAge |-> grp[g].maxAge, of |-> g]

ChangeInfo(g) ==
  /\ Shown(g)
  /\ \/ \E c \in Capacities : info' = [Info(g) EXCEPT !.capacity = c]
     \/ \E a \in AgeLimits : info' = [Info(g) EXCEPT !.minAge = a]
     \/ \E a \in AgeLimits : info' = [Info(g) EXCEPT !.maxAge = a]
  /\ UNCHANGED <<vars, opened, sched, times, detail, form, saving>>

\* Each of the three selects changes one part of the draft, or of the default.
ChangeSchedule(g, x) ==
  /\ Shown(g)
  /\ sched' = [range |-> x, of |-> IF sched = Null THEN g ELSE sched.of]
  /\ UNCHANGED <<vars, opened, info, times, detail, form, saving>>

DropInfo(g) ==
  /\ Shown(g)
  /\ info # Null \/ sched # Null
  /\ info' = Null /\ sched' = Null
  /\ UNCHANGED <<vars, opened, times, detail, form, saving>>

\* Every field is sent, an emptied one as the group has it; the drafts are dropped before the answer is known.
SaveInfo(g) ==
  /\ Shown(g)
  /\ info # Null \/ sched # Null
  /\ LET to == Info(g) IN
     \/ UpdateGroup(g, to.capacity, to.minAge, to.maxAge,
                    IF sched = Null THEN Null ELSE sched.range)
     \/ Refused
  /\ info' = Null /\ sched' = Null
  /\ UNCHANGED <<opened, times, detail, form, saving>>

EditTimes(g, r) ==
  /\ Shown(g) /\ r \in Members(g)
  /\ times' = [who |-> r, slots |-> {s.range : s \in OwnedBy(g, r)}]
  /\ UNCHANGED <<vars, opened, info, sched, detail, form, saving>>

\* The picker and its buttons are drawn inside the member's own row.
TimesShown(g) == Shown(g) /\ times # Null /\ times.who \in Members(g)

PickTimes(g, x) ==
  /\ TimesShown(g)
  /\ times' = [times EXCEPT !.slots = IF x \in @ THEN @ \ {x} ELSE @ \cup {x}]
  /\ UNCHANGED <<vars, opened, info, sched, detail, form, saving>>

DropTimes(g) ==
  /\ TimesShown(g)
  /\ times' = Null
  /\ UNCHANGED <<vars, opened, info, sched, detail, form, saving>>

SaveTimes(g) ==
  /\ TimesShown(g)
  /\ times.slots # {}
  /\ ReplaceMemberSlots(g, times.who, times.slots) \/ Refused
  /\ times' = Null
  /\ UNCHANGED <<opened, info, sched, detail, form, saving>>

TakeOut(g, r) ==
  /\ Shown(g)
  /\ RemoveMember(g, r)
  /\ UNCHANGED <<opened, groupDraft, detail, form, saving>>

MoveTo(g, r, to) ==
  /\ Shown(g) /\ Live(to)
  /\ MoveMember(g, to, r, IF Occupied(to) # {} THEN Occupied(to) ELSE rsv[r].prefs)
  /\ UNCHANGED <<opened, groupDraft, detail, form, saving>>

\* A student who asked for the group, or any waiting one of the right age.
Approve(g, r, slots) ==
  /\ Shown(g)
  /\ rsv[r].status = "WAITING"
  /\ rsv[r].wants = g \/ rsv[r].age \in grp[g].minAge..grp[g].maxAge
  /\ slots \subseteq Occupied(g)
  /\ AddMember(g, r, slots)
  /\ UNCHANGED <<opened, groupDraft, detail, form, saving>>

\* The dialog closes whether the confirmation, or the server, says no.
CancelGroup(g) ==
  /\ Shown(g)
  /\ RemoveGroup(g) \/ Refused
  /\ opened' = Null
  /\ UNCHANGED <<groupDraft, detail, form, saving>>

-----------------------------------------------------------------------------
(* ReservationDetailModal                                                   *)

\* An unmounted form takes no answer.
Unmounted == IF saving = Null THEN Null ELSE [saving EXCEPT !.mounted = FALSE]

OpenStudent(r) ==
  /\ NoDialog
  /\ Exists(r)
  /\ detail' = r
  /\ UNCHANGED <<vars, opened, groupDraft, form, saving>>

\* A form kept by the dialog itself, as the group dialog keeps its drafts.
CloseStudentKeeping ==
  /\ detail # Null /\ Exists(detail)
  /\ detail' = Null
  /\ UNCHANGED <<vars, opened, groupDraft, form, saving>>

\* Button, backdrop or Escape.
CloseStudent ==
  /\ detail # Null /\ Exists(detail)
  /\ detail' = Null
  /\ form' = Null
  /\ saving' = Unmounted
  /\ UNCHANGED <<vars, opened, groupDraft>>

Editing(r) == detail = r /\ Exists(r) /\ form # Null

StartEdit(r) ==
  /\ detail = r /\ Exists(r) /\ form = Null
  /\ form' = [status |-> rsv[r].status, prefs |-> rsv[r].prefs, of |-> r]
  /\ UNCHANGED <<vars, opened, groupDraft, detail, saving>>

ChangeForm(r) ==
  /\ Editing(r)
  /\ \/ \E st \in StatusEdits : form' = [form EXCEPT !.status = st]
     \/ \E p \in PrefChoices : form' = [form EXCEPT !.prefs = p]
  /\ UNCHANGED <<vars, opened, groupDraft, detail, saving>>

\* Cancel and save wait for a save under way, whichever form sent it.
DropForm(r) ==
  /\ Editing(r) /\ saving = Null
  /\ form' = Null
  /\ UNCHANGED <<vars, opened, groupDraft, detail, saving>>

HandleSubmit(r) ==
  /\ Editing(r) /\ saving = Null
  /\ saving' = [who |-> r, status |-> form.status, prefs |-> form.prefs, mounted |-> TRUE]
  /\ UNCHANGED <<vars, opened, groupDraft, detail, form>>

SaveAnswered ==
  /\ saving # Null
  /\ \/ /\ UpdateReservation(saving.who, saving.status, Null, saving.prefs, Null, Null)
        /\ form' = IF saving.mounted THEN Null ELSE form
     \/ Refused /\ UNCHANGED form
  /\ saving' = Null
  /\ UNCHANGED <<opened, groupDraft, detail>>

-----------------------------------------------------------------------------

\* Other sessions.  A student taken off the list unmounts its dialog.
OtherSession ==
  /\ \/ \E r \in RIds, g, to \in GIds : \/ MoveMember(g, to, r, Occupied(to))
                                        \/ RemoveMember(g, r)
                                        \/ RemoveReservation(r)
     \/ \E g \in GIds : RemoveGroup(g)
  /\ IF detail # Null /\ rsv'[detail].status = "NONE"
     THEN form' = Null /\ saving' = Unmounted
     ELSE UNCHANGED <<form, saving>>
  /\ UNCHANGED <<opened, groupDraft, detail>>

DialogInit ==
  /\ \E s \in DialogStart : rsv = s.rsv /\ grp = s.grp /\ slot = s.slot
  /\ opened = Null /\ detail = Null /\ form = Null /\ saving = Null
  /\ info = Null /\ sched = Null /\ times = Null

DialogNext ==
  \/ \E g \in GIds :
       \/ OpenGroup(g) \/ ChangeInfo(g) \/ DropInfo(g) \/ SaveInfo(g)
       \/ DropTimes(g) \/ SaveTimes(g) \/ CancelGroup(g)
       \/ \E x \in Ranges : ChangeSchedule(g, x) \/ PickTimes(g, x)
       \/ \E r \in RIds :
            \/ EditTimes(g, r) \/ TakeOut(g, r)
            \/ \E to \in GIds : MoveTo(g, r, to)
            \/ \E slots \in SUBSET Ranges : Approve(g, r, slots)
  \/ CloseGroup
  \/ \E r \in RIds : \/ OpenStudent(r) \/ StartEdit(r) \/ ChangeForm(r)
                     \/ DropForm(r) \/ HandleSubmit(r)
  \/ CloseStudent \/ SaveAnswered
  \/ OtherSession

DialogSpec == DialogInit /\ [][DialogNext]_dialogVars

-----------------------------------------------------------------------------
(* Properties.                                                              *)

\* The tables, the ids looked up and the drafts keep their types.
DialogTypeOK ==
  /\ TypeOK
  /\ opened \in GIds \cup {Null} /\ detail \in RIds \cup {Null}
  /\ info # Null => info.of \in GIds
  /\ sched # Null => sched.range \in Ranges
  /\ times # Null => times.who \in RIds /\ times.slots \subseteq Ranges
  /\ form # Null => form.status \in ReservationStatus /\ form.of \in RIds
  /\ saving # Null => saving.who \in RIds

\* A student form on the screen was filled from the student it is shown for and
\* will be saved to, through every closing, reopening, late answer and removal.
FormStaysWithStudent ==
  form # Null /\ detail # Null /\ Exists(detail) => form.of = detail

\* The drafts a save sends were typed on the group it changes (the dialog's
\* heading and its question name one group).
DraftsReachTheirGroup ==
  [][info' = Null /\ sched' = Null /\ grp' # grp =>
       \A draft \in {info, sched} \ {Null} : opened = draft.of]_dialogVars
=============================================================================
