------------------------------- MODULE Console ------------------------------
(***************************************************************************)
(* The administration pages.  A list page (orders, merchants, notifications, *)
(* reconciliation, audit log): its filters and page, the requests for the    *)
(* list, which may be answered in any order, and the deeds it offers, some    *)
(* confirmed in a dialog and some at the press of a button.  And the settings *)
(* page in the browsers of several administrators.                          *)
(***************************************************************************)
EXTENDS Naturals, FiniteSets

CONSTANTS
  Filters, Turns,     \* the filters and the pages of the list, which are 1..Turns
  Modal, Inline,      \* submissions of a dialog, presses of a button
  MaxLoads,           \* bound on the requests for the list
  MaxRevision,         \* bound on the changes of what is listed
  MaxErrors,          \* bound on the errors one dialog shows
  Editors,            \* administrators at the settings page
  Fields, GroupOf,    \* the settings, and the group of each
  Typed,              \* the values they may type
  MaxMail             \* bound on their requests under way

ASSUME ConsoleAssumption ==
  /\ Turns \in Nat \ {0} /\ MaxLoads \in Nat \ {0} /\ MaxRevision \in Nat /\ MaxMail \in Nat
  /\ MaxErrors \in Nat
  /\ Modal \intersect Inline = {}

VARIABLES
  screen,    \* view, whether its effect is due, dialog, its request, its errors
  loads,     \* the requests for the list, by number
  shown,     \* the number, view and revision of the answer on the screen
  revision,   \* counts the changes at the server
  deed,      \* where each deed stands, and the view it was begun in
  heard,      \* the newest revision the administrator was told of
  done,      \* how often the server did what the dialog asks
  settings,  \* the table site_settings
  sheet,     \* each editor's settings, draft, the group being saved, ...
  mail       \* the requests of the settings pages, and their answers

screenVars == <<screen, loads, shown, revision, deed, heard, done>>
sheetVars == <<settings, sheet, mail>>

Views == [filter : Filters, page : 1..Turns]
Deeds == Modal \union Inline
Idle == [at |-> "idle"]
FirstPage(v) == [v EXCEPT !.page = 1]
Groups == {GroupOf[k] : k \in Fields}

ConsoleTypeOK ==
  /\ screen.view \in Views /\ screen.due \in BOOLEAN
  /\ screen.dialog \in {"closed", "open"} /\ screen.submitting \in BOOLEAN
  /\ screen.errors \in Nat
  /\ DOMAIN loads \subseteq 1..MaxLoads
  /\ \A n \in DOMAIN loads :
       \/ loads[n].at = "over"
       \/ loads[n].at \in {"sent", "served"} /\ loads[n].view \in Views
  /\ shown.number \in DOMAIN loads \union {0} /\ shown.revision \in 0..revision
  /\ heard \in 0..revision /\ revision \in 0..MaxRevision /\ done \in 0..revision
  /\ \A d \in Deeds : deed[d].at \in {"idle", "sent", "done", "refused"}
  /\ \A x \in Editors : sheet[x].saving \in Groups \union {"none"}
  /\ \A m \in mail : m.by \in Editors /\ DOMAIN m.entries \subseteq Fields

ConsoleInit ==
  /\ \E v \in Views :
       /\ v.page = 1
       /\ screen = [view |-> v, due |-> TRUE, dialog |-> "closed",
                     submitting |-> FALSE, errors |-> 0]
       /\ shown = [number |-> 0, view |-> v, revision |-> 0]
       /\ deed = [d \in Deeds |-> Idle]
  /\ loads = <<>> /\ revision = 0 /\ heard = 0 /\ done = 0
  /\ \E v \in Typed : settings = [k \in Fields |-> v]
  /\ sheet = [x \in Editors |->
       [base |-> settings, draft |-> settings, saving |-> "none", edited |-> {}]]
  /\ mail = {}
-----------------------------------------------------------------------------
Issued == Cardinality(DOMAIN loads)

(* load, as the rendering for view v closed over it.                         *)
LoadList(v, kind) ==
  /\ Issued < MaxLoads
  /\ loads' = [n \in 1..Issued + 1 |->
       IF n <= Issued THEN loads[n]
       ELSE [view |-> v, at |-> "sent", revision |-> 0, kind |-> kind]]

ViewChangedUnseen(v) == screen' = [screen EXCEPT !.view = v]   \* mutant: no effect is due

(* A new view: React runs the effect again, whose timer calls load.           *)
ViewChanged(v) == screen' = [screen EXCEPT !.view = v, !.due = @ \/ v # screen.view]

(* A filter is chosen, or all are cleared: back to the first page.            *)
ChooseFilter(f) ==
  /\ screen.dialog = "closed"
  /\ ViewChanged([filter |-> f, page |-> 1])
  /\ UNCHANGED <<loads, shown, revision, deed, heard, done>>

(* The keyword is typed: the page stays.                                     *)
TypeKeyword(f) ==
  /\ screen.dialog = "closed"
  /\ ViewChanged([screen.view EXCEPT !.filter = f])
  /\ UNCHANGED <<loads, shown, revision, deed, heard, done>>

TurnPage(p) ==
  /\ screen.dialog = "closed"
  /\ ViewChanged([screen.view EXCEPT !.page = p])
  /\ UNCHANGED <<loads, shown, revision, deed, heard, done>>

Effect ==
  /\ screen.due
  /\ LoadList(screen.view, "plain")
  /\ screen' = [screen EXCEPT !.due = FALSE]
  /\ UNCHANGED <<shown, revision, deed, heard, done>>

(* handleSearch: the first page, and the load of the page shown so far.       *)
Search ==
  /\ screen.dialog = "closed"
  /\ LoadList(screen.view, "plain")
  /\ ViewChanged(FirstPage(screen.view))
  /\ UNCHANGED <<shown, revision, deed, heard, done>>

(* The button, which is disabled for a while, and no longer.                 *)
RefreshList ==
  /\ screen.dialog = "closed"
  /\ LoadList(screen.view, "plain")
  /\ UNCHANGED <<screen, shown, revision, deed, heard, done>>

ServeList(n) ==
  /\ loads[n].at = "sent"
  /\ loads' = [loads EXCEPT ![n].at = "served", ![n].revision = revision]
  /\ UNCHANGED <<screen, shown, revision, deed, heard, done>>

Over(n) == loads' = [loads EXCEPT ![n] = [at |-> "over", kind |-> loads[n].kind]]

(* Whichever answer arrives last is shown.                                   *)
ReceiveList(n) ==
  /\ loads[n].at = "served"
  /\ Over(n)
  /\ shown' = [number |-> n, view |-> loads[n].view, revision |-> loads[n].revision]
  /\ UNCHANGED <<screen, revision, deed, heard, done>>

ListFails(n) ==
  /\ loads[n].at # "over"
  /\ Over(n)
  /\ UNCHANGED <<screen, shown, revision, deed, heard, done>>
-----------------------------------------------------------------------------
OpenDialog ==
  /\ screen.dialog = "closed"
  /\ screen' = [screen EXCEPT !.dialog = "open", !.errors = 0]
  /\ done' = 0
  /\ UNCHANGED <<loads, shown, revision, deed, heard>>

(* The orders page refuses it while a request is under way; the merchants     *)
(* page does not, and its dialog can be opened anew meanwhile.              *)
CloseDialog ==
  /\ screen.dialog = "open"
  /\ screen' = [screen EXCEPT !.dialog = "closed"]
  /\ UNCHANGED <<loads, shown, revision, deed, heard, done>>

Begin(d) ==
  /\ deed[d].at = "idle"
  /\ deed' = [deed EXCEPT ![d] = [at |-> "sent", view |-> screen.view, revision |-> 0]]

SubmitTwice(d) ==   \* mutant: the button is not disabled
  /\ d \in Modal /\ screen.dialog = "open" /\ screen.errors < MaxErrors /\ Begin(d)
  /\ screen' = [screen EXCEPT !.submitting = TRUE]
  /\ UNCHANGED <<loads, shown, revision, heard, done>>

(* submitRefund, submitDelete, handleCreate, handleEdit.                     *)
Submit(d) ==
  /\ d \in Modal /\ screen.dialog = "open" /\ ~ screen.submitting
  /\ screen.errors < MaxErrors /\ Begin(d)
  /\ screen' = [screen EXCEPT !.submitting = TRUE]
  /\ UNCHANGED <<loads, shown, revision, heard, done>>

(* handleConfirmNative, handleToggle, handleReplay, handleUpload: the page     *)
(* can be used on, and another row's button pressed.                        *)
Press(d) ==
  /\ d \in Inline /\ screen.dialog = "closed" /\ Begin(d)
  /\ UNCHANGED <<screen, loads, shown, revision, heard, done>>

Execute(d) ==
  /\ deed[d].at = "sent" /\ revision < MaxRevision
  /\ revision' = revision + 1
  /\ deed' = [deed EXCEPT ![d].at = "done", ![d].revision = revision']
  /\ done' = IF d \in Modal THEN done + 1 ELSE done
  /\ UNCHANGED <<screen, loads, shown, heard>>

Refuse(d) ==
  /\ deed[d].at = "sent"
  /\ deed' = [deed EXCEPT ![d].at = "refused"]
  /\ UNCHANGED <<screen, loads, shown, revision, heard, done>>

(* The dialog is closed, and the list loaded for the view the deed was begun  *)
(* in; a list of other filters is asked for if they were changed meanwhile.   *)
Succeed(d) ==
  /\ deed[d].at = "done"
  /\ LoadList(deed[d].view, "deed")
  /\ deed' = [deed EXCEPT ![d] = Idle]
  /\ heard' = IF deed[d].revision > heard THEN deed[d].revision ELSE heard
  /\ screen' = IF d \in Modal THEN [screen EXCEPT !.dialog = "closed", !.submitting = FALSE]
                              ELSE screen
  /\ UNCHANGED <<shown, revision, done>>

(* An error is shown, and the dialog stays as it is: also when the answer to   *)
(* what the server has done is lost.                                        *)
Err(d) ==
  /\ deed[d].at \in {"sent", "done", "refused"}
  /\ deed' = [deed EXCEPT ![d] = Idle]
  /\ screen' = IF d \in Modal THEN [screen EXCEPT !.submitting = FALSE, !.errors = @ + 1]
                              ELSE screen
  /\ UNCHANGED <<loads, shown, revision, heard, done>>

(* Another administrator, a customer or a job.                               *)
Elsewhere ==
  /\ revision < MaxRevision
  /\ revision' = revision + 1
  /\ UNCHANGED <<screen, loads, shown, deed, heard, done>>

Deed(d) == Submit(d) \/ Press(d) \/ Execute(d) \/ Refuse(d) \/ Succeed(d) \/ Err(d)

Look(f, p) == ChooseFilter(f) \/ TypeKeyword(f) \/ TurnPage(p)

Again == Search \/ RefreshList

List ==
  \/ Effect
  \/ \E n \in DOMAIN loads : ServeList(n) \/ ReceiveList(n) \/ ListFails(n)

ScreenNext ==
  \/ \E f \in Filters, p \in 1..Turns : Look(f, p)
  \/ Again
  \/ List
  \/ OpenDialog
  \/ CloseDialog
  \/ \E d \in Deeds : Deed(d)
  \/ Elsewhere
-----------------------------------------------------------------------------
(* SettingsPage.  A request posts some settings, none of them when it only     *)
(* loads; "typed" remembers which fields its editor had typed into.           *)
Post(x, entries) ==
  /\ Cardinality(mail) < MaxMail
  /\ mail' = mail \union {[by |-> x, at |-> "sent", entries |-> entries,
                        typed |-> sheet[x].edited, answer |-> <<>>]}

(* The refresh button, and the page's first load.                            *)
LoadSettings(x) ==
  /\ Post(x, <<>>)
  /\ UNCHANGED <<settings, sheet>>

(* updateDraft                                                              *)
UpdateDraft(x, k, v) ==
  /\ sheet' = [sheet EXCEPT ![x].draft[k] = v, ![x].edited = @ \union {k}]
  /\ UNCHANGED <<settings, mail>>

ChangesAll(x, g) == {k \in Fields : GroupOf[k] = g}   \* mutant: the whole group

(* handleSaveGroup: the fields of the group that differ from what was loaded.  *)
Changes(x, g) == {k \in Fields : GroupOf[k] = g /\ sheet[x].draft[k] # sheet[x].base[k]}

SaveGroup(x, g) ==
  /\ Changes(x, g) # {} /\ sheet[x].saving # g
  /\ Post(x, [k \in Changes(x, g) |-> sheet[x].draft[k]])
  /\ sheet' = [sheet EXCEPT ![x].saving = g]
  /\ UNCHANGED <<settings>>

(* updateSettings answers all settings, as getSettings does.                 *)
ServeSettings(m) ==
  /\ m.at = "sent"
  /\ settings' = [k \in Fields |-> IF k \in DOMAIN m.entries THEN m.entries[k] ELSE settings[k]]
  /\ mail' = (mail \ {m}) \union {[m EXCEPT !.at = "served", !.answer = settings']}
  /\ UNCHANGED <<sheet>>

Saved(m) == IF m.entries = <<>> THEN sheet[m.by].saving ELSE "none"

(* The answer replaces every draft, those of other groups and those typed      *)
(* while it was under way included.                                         *)
ReceiveSettings(m) ==
  /\ m.at = "served"
  /\ mail' = mail \ {m}
  /\ sheet' = [sheet EXCEPT ![m.by] =
       [base |-> m.answer, draft |-> m.answer, saving |-> Saved(m), edited |-> {}]]
  /\ UNCHANGED <<settings>>

SettingsFail(m) ==
  /\ mail' = mail \ {m}
  /\ sheet' = [sheet EXCEPT ![m.by].saving = Saved(m)]
  /\ UNCHANGED <<settings>>

Edit(x, k) == \E v \in Typed : v # sheet[x].draft[k] /\ UpdateDraft(x, k, v)

Settings(x) ==
  \/ LoadSettings(x)
  \/ \E g \in Groups : SaveGroup(x, g)
  \/ \E m \in {n \in mail : n.by = x} :
       ServeSettings(m) \/ ReceiveSettings(m) \/ SettingsFail(m)

SheetNext == \E x \in Editors : Settings(x) \/ \E k \in Fields : Edit(x, k)

ConsoleNext ==
  \/ ScreenNext /\ UNCHANGED sheetVars
  \/ SheetNext /\ UNCHANGED screenVars

ConsoleSpec == ConsoleInit /\ [][ConsoleNext]_<<screenVars, sheetVars>>
-----------------------------------------------------------------------------
Settled ==
  /\ ~ screen.due
  /\ \A n \in DOMAIN loads : loads[n].at = "over"
  /\ \A d \in Deeds : deed[d].at = "idle"

(* When nothing is under way, and the answer of the newest request is on the   *)
(* screen, it has the effects of all deeds the administrator was told of, and *)
(* it is the list of the filters and page shown, unless that request was a    *)
(* deed's, whose view may have been left since.                              *)
SettledShowsView ==
  (Settled /\ shown.number = Issued) =>
    /\ shown.revision >= heard
    /\ loads[Issued].kind = "plain" => shown.view = screen.view

(* A dialog makes the server do its deed once, and once more only for each    *)
(* error that it has shown.                                                 *)
DoneOncePerError == done <= 1 + screen.errors

(* A setting changes only by the hand of an administrator who typed into it:   *)
(* nobody's save puts back what another has changed meanwhile.               *)
OnlyTypedChanges ==
  [][\A k \in Fields : settings'[k] # settings[k] =>
       \E m \in mail : m.at = "sent" /\ k \in m.typed]_settings
=============================================================================
