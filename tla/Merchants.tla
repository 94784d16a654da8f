----------------------------- MODULE Merchants ------------------------------
(***************************************************************************)
(* MerchantService: the rows of the merchants table, and the requests of    *)
(* administrators and starting instances that read one, edit the copy and   *)
(* save it.  Requests interleave at their awaits.  save() of a loaded copy  *)
(* reads the row again and writes the columns that differ from the copy,    *)
(* whoever made them differ.                                                *)
(***************************************************************************)
EXTENDS Naturals, FiniteSets

CONSTANTS
  Ids,         \* the ids the table can give out
  Clerks,      \* requests, each a process that runs once
  Edits,       \* the requests there may be, of EditKinds
  MaxSecrets   \* bound on the secrets generated

EditKinds == {"toggle", "rename", "reset", "create", "ensure"}

ASSUME IdAssumption     == Ids \subseteq Nat \ {0} /\ Ids # {}
ASSUME EditAssumption   == Edits \subseteq EditKinds
ASSUME SecretAssumption == MaxSecrets \in Nat

VARIABLES
  merchants,  \* the table: the rows inserted so far
  clerk,      \* where each request stands, with its copy of a row
  issued,     \* the secrets generated so far, numbered from 1
  flips,      \* how many toggles of each row were answered
  told,       \* the secret last told to an administrator, or given to a new row
  version,    \* how often each row was written
  blind       \* the rows on which a save wrote without having read the last write

merchantVars == <<merchants, clerk, issued, flips, told, version, blind>>
answered == <<flips, told>>

Columns == {"name", "active", "secret"}
Merchant == [name: {0, 1}, active: BOOLEAN, secret: 0..MaxSecrets]
Unread == [name |-> 0, active |-> FALSE, secret |-> 0]

Known == DOMAIN merchants
NewRow(s) == [name |-> 0, active |-> TRUE, secret |-> s]

ClerkStates == {"idle", "select", "write", "insert", "done"}

MerchantsTypeOK ==
  /\ Known \subseteq Ids
  /\ merchants \in [Known -> Merchant]
  /\ flips \in [Ids -> Nat] /\ told \in [Ids -> 0..MaxSecrets]
  /\ version \in [Ids -> Nat] /\ blind \subseteq Ids /\ issued \in 0..MaxSecrets
  /\ clerk \in [Clerks -> [at: ClerkStates, edit: EditKinds, id: Ids, copy: Merchant,
                          columns: SUBSET Columns, read: Nat]]

NoEdit == [at |-> "idle", edit |-> "ensure", id |-> CHOOSE i \in Ids : TRUE,
           copy |-> Unread, columns |-> {}, read |-> 0]

MerchantsInit ==
  /\ merchants = <<>>
  /\ clerk = [t \in Clerks |-> NoEdit]
  /\ issued = 0
  /\ version = [i \in Ids |-> 0] /\ flips = [i \in Ids |-> 0]
  /\ told = [i \in Ids |-> 0]
  /\ blind = {}

Store(f, i, row) == [j \in DOMAIN f \union {i} |-> IF j = i THEN row ELSE f[j]]
-----------------------------------------------------------------------------
Finish(t) == clerk' = [clerk EXCEPT ![t] = [NoEdit EXCEPT !.at = "done"]]

(* Mutant: the toggle always deactivates.                                   *)
EditedOff(edit, row, s) ==
  CASE edit = "toggle" -> [row EXCEPT !.active = FALSE]
    [] edit = "rename" -> [row EXCEPT !.name = 1 - @]
    [] edit = "reset"  -> [row EXCEPT !.secret = s]
    [] OTHER           -> row

(* What an edit does to the row it was given.                               *)
Edited(edit, row, s) ==
  CASE edit = "toggle" -> [row EXCEPT !.active = ~ @]
    [] edit = "rename" -> [row EXCEPT !.name = 1 - @]
    [] edit = "reset"  -> [row EXCEPT !.secret = s]
    [] OTHER           -> row

(* findOne, and the edit of the entity it returned.  toggle and rename name  *)
(* the merchant; reset takes whichever row the table returns first.  One    *)
(* that names no row ends with NotFound and leaves no trace.                *)
LoadMerchant(t, edit, i) ==
  /\ clerk[t].at = "idle" /\ edit \in {"toggle", "rename", "reset"} /\ i \in Known
  /\ edit = "reset" => issued < MaxSecrets
  /\ issued' = IF edit = "reset" THEN issued + 1 ELSE issued
  /\ clerk' = [clerk EXCEPT ![t] =
       [at |-> "select", edit |-> edit, id |-> i,
        copy |-> Edited(edit, merchants[i], issued + 1),
        columns |-> {}, read |-> version[i]]]
  /\ UNCHANGED <<merchants, answered, version, blind>>

(* save, its first query: which columns of the row differ from the copy.     *)
SelectMerchant(t) ==
  /\ clerk[t].at = "select"
  /\ clerk' = [clerk EXCEPT ![t].at = "write",
       ![t].columns = {c \in Columns : clerk[t].copy[c] # merchants[clerk[t].id][c]}]
  /\ UNCHANGED <<merchants, issued, answered, version, blind>>

(* The columns found to differ are written, the others left.                  *)
Overwrite(row, copy, columns) ==
  [c \in Columns |-> IF c \in columns THEN copy[c] ELSE row[c]]

(* save, its UPDATE; then the audit entry, whose failure is swallowed, and    *)
(* the answer.                                                              *)
WriteMerchant(t) ==
  LET i == clerk[t].id  copy == clerk[t].copy IN
  /\ clerk[t].at = "write"
  /\ merchants' = [merchants EXCEPT ![i] = Overwrite(@, copy, clerk[t].columns)]
  /\ flips' = IF clerk[t].edit = "toggle" THEN [flips EXCEPT ![i] = @ + 1] ELSE flips
  /\ told' = IF clerk[t].edit = "reset" THEN [told EXCEPT ![i] = copy.secret] ELSE told
  /\ version' = [version EXCEPT ![i] = @ + 1]
  /\ blind' = IF clerk[t].read = version[i] THEN blind ELSE blind \union {i}
  /\ Finish(t)
  /\ UNCHANGED issued

(* createMerchant inserts at once; ensureMerchant, and resetSecret on an      *)
(* empty table, only when they find no merchant.                            *)
FindNoMerchant(t) ==
  /\ clerk[t].at = "idle" /\ Known = {}
  /\ clerk' = [clerk EXCEPT ![t].at = "insert", ![t].edit = "ensure"]
  /\ UNCHANGED <<merchants, issued, answered, version, blind>>

InsertMerchant(t, i) ==
  /\ i \in Ids \ Known /\ \A j \in Ids \ Known : i <= j
  /\ issued < MaxSecrets
  /\ issued' = issued + 1
  /\ merchants' = Store(merchants, i, NewRow(issued'))
  /\ told' = [told EXCEPT ![i] = issued']
  /\ \/ clerk[t].at = "insert"
     \/ clerk[t].at = "idle" /\ "create" \in Edits
  /\ Finish(t)
  /\ UNCHANGED <<flips, version, blind>>

Clerk(t) ==
  \/ \E edit \in Edits, i \in Ids : LoadMerchant(t, edit, i)
  \/ SelectMerchant(t)
  \/ WriteMerchant(t)
  \/ FindNoMerchant(t)
  \/ \E i \in Ids : InsertMerchant(t, i)

MerchantsNext == \E t \in Clerks : Clerk(t)

MerchantsSpec == MerchantsInit /\ [][MerchantsNext]_merchantVars
-----------------------------------------------------------------------------
(* On every row that no save wrote blindly, a merchant is active exactly when *)
(* its toggles were answered an even number of times, and its secret is the  *)
(* one resetSecret told last: an edit of updateMerchant between them undoes  *)
(* neither.                                                                 *)
EditsHold ==
  \A i \in Known \ blind :
    /\ merchants[i].active = (flips[i] % 2 = 0)
    /\ merchants[i].secret = told[i]
=============================================================================
