--------------------------- MODULE MerchantsProofs --------------------------
(* Theorems about Merchants for every set of requests and of ids, and every    *)
(* number of secrets.                                                       *)
EXTENDS Merchants, TLAPS

(* What a request under way knows.  As long as nobody has written its row     *)
(* since it read it, its copy differs from the row only by its edit, and save *)
(* has found exactly the columns in which it differs.  It is what makes      *)
(* EditsHold inductive: a write that is not blind does only its own edit.    *)
CopyHolds(t) ==
  LET i == clerk[t].id  copy == clerk[t].copy  edit == clerk[t].edit IN
  clerk[t].at \in {"select", "write"} =>
    /\ i \in Known /\ clerk[t].read <= version[i]
    /\ clerk[t].read = version[i] =>
         /\ copy.active = IF edit = "toggle" THEN ~ merchants[i].active
                                             ELSE merchants[i].active
         /\ edit # "reset" => copy.secret = merchants[i].secret
         /\ clerk[t].at = "write" =>
              \A c \in Columns : c \in clerk[t].columns <=> copy[c] # merchants[i][c]

Unborn == \A i \in Ids \ Known : flips[i] = 0

MInv == MerchantsTypeOK /\ Unborn /\ EditsHold /\ \A t \in Clerks : CopyHolds(t)

(* MerchantsInitInv: the invariant holds of the empty table.                  *)
LEMMA MerchantsInitInv == MerchantsInit => MInv
  <1> SUFFICES ASSUME MerchantsInit PROVE MInv
    OBVIOUS
  <1> USE IdAssumption, SecretAssumption DEF MerchantsInit, Known
  <1>1. NoEdit.id \in Ids
    BY DEF NoEdit
  <1>2. Known = {}
    OBVIOUS
  <1>3. merchants \in [Known -> Merchant]
    BY <1>2
  <1>4. Unread \in Merchant
    BY DEF Unread, Merchant
  <1>5. NoEdit \in [at: ClerkStates, edit: EditKinds, id: Ids, copy: Merchant,
                   columns: SUBSET Columns, read: Nat]
    BY <1>1, <1>4 DEF NoEdit, ClerkStates, EditKinds
  <1>6. MerchantsTypeOK
    BY <1>2, <1>3, <1>5 DEF MerchantsTypeOK
  <1>7. \A t \in Clerks : CopyHolds(t)
    BY DEF CopyHolds, NoEdit
  <1> QED
    BY <1>2, <1>6, <1>7 DEF MInv, Unborn, EditsHold

(* Overwritten: columns of a copy over those of a row make a row.              *)
LEMMA Overwritten ==
  ASSUME NEW row \in Merchant, NEW copy \in Merchant, NEW S
  PROVE  Overwrite(row, copy, S) \in Merchant
  BY DEF Overwrite, Merchant, Columns

(* EditedIsRow: an edit makes a row of a row.                                 *)
LEMMA EditedIsRow ==
  ASSUME NEW row \in Merchant, NEW edit \in {"toggle", "rename", "reset"}, NEW s,
         edit = "reset" => s \in 0..MaxSecrets
  PROVE  Edited(edit, row, s) \in Merchant
  <1>1. CASE edit = "toggle"
    BY <1>1 DEF Edited, Merchant
  <1>2. CASE edit = "rename"
    <2>1. 1 - row.name \in {0, 1}
      BY DEF Merchant
    <2> QED
      BY <1>2, <2>1 DEF Edited, Merchant
  <1>3. CASE edit = "reset"
    BY <1>3 DEF Edited, Merchant
  <1> QED
    BY <1>1, <1>2, <1>3

(* MerchantsTypeStep: every step keeps the types.                             *)
LEMMA MerchantsTypeStep == MInv /\ [MerchantsNext]_merchantVars => MerchantsTypeOK'
  <1> DEFINE Goal == MerchantsTypeOK'
  <1> SUFFICES ASSUME MInv, [MerchantsNext]_merchantVars PROVE Goal
    OBVIOUS
  <1> USE SecretAssumption DEF MInv, MerchantsTypeOK, Known, answered
  <1>1. NoEdit \in [at: ClerkStates, edit: EditKinds, id: Ids, copy: Merchant,
                    columns: SUBSET Columns, read: Nat]
    <2>1. Unread \in Merchant
      BY DEF Unread, Merchant
    <2>2. NoEdit.id \in Ids
      BY IdAssumption DEF NoEdit
    <2> QED
      BY <2>1, <2>2 DEF NoEdit, ClerkStates, EditKinds
  <1>2. ASSUME NEW t \in Clerks, NEW edit \in Edits, NEW i \in Ids, LoadMerchant(t, edit, i)
        PROVE  Goal
    <2>1. issued + 1 \in Nat
      OBVIOUS
    <2>2. edit = "reset" => issued + 1 \in 0..MaxSecrets
      BY <1>2 DEF LoadMerchant
    <2>3. Edited(edit, merchants[i], issued + 1) \in Merchant
      BY <1>2, <2>2, EditedIsRow DEF LoadMerchant
    <2> QED
      BY <1>2, <2>2, <2>3 DEF LoadMerchant, ClerkStates, EditKinds
  <1>3. ASSUME NEW t \in Clerks, SelectMerchant(t)
        PROVE  Goal
    BY <1>3 DEF SelectMerchant, ClerkStates
  <1>4. ASSUME NEW t \in Clerks, WriteMerchant(t)
        PROVE  Goal
    <2> DEFINE row == Overwrite(merchants[clerk[t].id], clerk[t].copy, clerk[t].columns)
    <2>1. clerk[t].id \in Known /\ clerk[t].copy \in Merchant
      BY <1>4 DEF WriteMerchant, CopyHolds
    <2>2. row \in Merchant
      BY <2>1, Overwritten
    <2>3. merchants' = [merchants EXCEPT ![clerk[t].id] = row]
      BY <1>4 DEF WriteMerchant
    <2>4. merchants' \in [Known -> Merchant] /\ Known' = Known
      BY <2>2, <2>3
    <2>5. clerk[t].copy.secret \in 0..MaxSecrets
      BY DEF Merchant
    <2>6. clerk' = [clerk EXCEPT ![t] = [NoEdit EXCEPT !.at = "done"]]
      BY <1>4 DEF WriteMerchant, Finish
    <2>7. [NoEdit EXCEPT !.at = "done"] \in [at: ClerkStates, edit: EditKinds, id: Ids,
                                copy: Merchant, columns: SUBSET Columns, read: Nat]
      BY <1>1 DEF ClerkStates
    <2> QED
      BY <1>4, <2>4, <2>5, <2>6, <2>7 DEF WriteMerchant
  <1>5. ASSUME NEW t \in Clerks, FindNoMerchant(t)
        PROVE  Goal
    <2>1. [clerk[t] EXCEPT !.at = "insert", !.edit = "ensure"] \in [at: ClerkStates,
             edit: EditKinds, id: Ids, copy: Merchant, columns: SUBSET Columns, read: Nat]
      BY DEF ClerkStates, EditKinds
    <2>2. clerk' = [clerk EXCEPT ![t] = [clerk[t] EXCEPT !.at = "insert", !.edit = "ensure"]]
      BY <1>5 DEF FindNoMerchant
    <2> QED
      BY <1>5, <2>1, <2>2 DEF FindNoMerchant
  <1>6. ASSUME NEW t \in Clerks, NEW i \in Ids, InsertMerchant(t, i)
        PROVE  Goal
    <2>1. NewRow(issued') \in Merchant
      BY <1>6 DEF InsertMerchant, NewRow, Merchant
    <2>2. merchants' \in [Known' -> Merchant] /\ Known' = Known \union {i}
      BY <1>6, <2>1 DEF InsertMerchant, Store
    <2>3. [NoEdit EXCEPT !.at = "done"] \in [at: ClerkStates, edit: EditKinds, id: Ids,
                                copy: Merchant, columns: SUBSET Columns, read: Nat]
      BY <1>1 DEF ClerkStates
    <2> QED
      BY <1>6, <2>2, <2>3 DEF InsertMerchant, Finish
  <1>7. CASE UNCHANGED merchantVars
    BY <1>7 DEF merchantVars
  <1> HIDE DEF Goal
  <1> QED
    BY <1>2, <1>3, <1>4, <1>5, <1>6, <1>7 DEF MerchantsNext, Clerk

(* Parity: of a number and the next one, exactly one is even.                 *)
LEMMA Parity ==
  ASSUME NEW n \in Nat
  PROVE  0 % 2 = 0 /\ ((n + 1) % 2 = 0 <=> n % 2 # 0)
  OBVIOUS

(* EditsStep: a write that is not blind does only its own edit, so what was   *)
(* answered keeps describing the row.                                       *)
LEMMA EditsStep == MInv /\ [MerchantsNext]_merchantVars => EditsHold' /\ Unborn'
  <1> DEFINE Goal == EditsHold' /\ Unborn'
  <1> SUFFICES ASSUME MInv, [MerchantsNext]_merchantVars PROVE Goal
    OBVIOUS
  <1> USE DEF MInv, MerchantsTypeOK, EditsHold, Unborn, Known, answered
  <1>1. ASSUME NEW t \in Clerks, NEW edit \in Edits, NEW i \in Ids, LoadMerchant(t, edit, i)
        PROVE  Goal
    BY <1>1 DEF LoadMerchant
  <1>2. ASSUME NEW t \in Clerks, SelectMerchant(t)
        PROVE  Goal
    BY <1>2 DEF SelectMerchant
  <1>3. ASSUME NEW t \in Clerks, WriteMerchant(t)
        PROVE  Goal
    <2> DEFINE i == clerk[t].id
               copy == clerk[t].copy
               edit == clerk[t].edit
    <2>1. /\ i \in Known /\ i \in Ids
          /\ merchants' = [merchants EXCEPT ![i] = Overwrite(@, copy, clerk[t].columns)]
          /\ flips' = IF edit = "toggle" THEN [flips EXCEPT ![i] = @ + 1] ELSE flips
          /\ told' = IF edit = "reset" THEN [told EXCEPT ![i] = copy.secret] ELSE told
          /\ blind' = IF clerk[t].read = version[i] THEN blind ELSE blind \union {i}
          /\ clerk[t].at = "write"
      BY <1>3 DEF WriteMerchant, CopyHolds
    <2>2. Known' = Known
      BY <2>1
    <2>3. Unborn'
      BY <2>1, <2>2
    <2>4. ASSUME NEW j \in Known, j \notin blind', j # i
          PROVE  merchants'[j].active = (flips'[j] % 2 = 0) /\ merchants'[j].secret = told'[j]
      <3>1. merchants'[j] = merchants[j] /\ flips'[j] = flips[j] /\ told'[j] = told[j]
        BY <2>1, <2>4
      <3>2. j \notin blind
        BY <2>1, <2>4
      <3> QED
        BY <3>1, <3>2
    <2>5. ASSUME i \notin blind'
          PROVE  merchants'[i].active = (flips'[i] % 2 = 0) /\ merchants'[i].secret = told'[i]
      <3>1. i \notin blind /\ clerk[t].read = version[i]
        BY <2>1, <2>5
      <3>2. merchants[i].active = (flips[i] % 2 = 0) /\ merchants[i].secret = told[i]
        BY <2>1, <3>1
      <3>3. CopyHolds(t)
        OBVIOUS
      <3>4. merchants'[i] = Overwrite(merchants[i], copy, clerk[t].columns)
        BY <2>1
      <3>5. merchants'[i].active = copy.active /\ merchants'[i].secret = copy.secret
        BY <2>1, <3>1, <3>3, <3>4 DEF CopyHolds, Overwrite, Columns
      <3>6. /\ copy.active = IF edit = "toggle" THEN ~ merchants[i].active
                                               ELSE merchants[i].active
            /\ edit # "reset" => copy.secret = merchants[i].secret
        BY <2>1, <3>1, <3>3 DEF CopyHolds
      <3>7. flips[i] \in Nat /\ merchants[i].active \in BOOLEAN
        BY <2>1 DEF Merchant
      <3>8. flips'[i] = IF edit = "toggle" THEN flips[i] + 1 ELSE flips[i]
        BY <2>1
      <3>9. told'[i] = IF edit = "reset" THEN copy.secret ELSE told[i]
        BY <2>1
      <3>10. (flips[i] + 1) % 2 = 0 <=> flips[i] % 2 # 0
        BY <3>7, Parity
      <3>11. (flips'[i] % 2 = 0) <=> IF edit = "toggle" THEN flips[i] % 2 # 0
                                                       ELSE flips[i] % 2 = 0
        BY <3>8, <3>10
      <3> HIDE DEF i, copy, edit
      <3>12. merchants'[i].active = (flips'[i] % 2 = 0)
        BY <3>2, <3>5, <3>6, <3>7, <3>11
      <3>13. merchants'[i].secret = told'[i]
        BY <3>2, <3>5, <3>6, <3>9
      <3> QED
        BY <3>12, <3>13
    <2> HIDE DEF i
    <2> QED
      BY <2>2, <2>3, <2>4, <2>5
  <1>4. ASSUME NEW t \in Clerks, FindNoMerchant(t)
        PROVE  Goal
    BY <1>4 DEF FindNoMerchant
  <1>5. ASSUME NEW t \in Clerks, NEW i \in Ids, InsertMerchant(t, i)
        PROVE  Goal
    <2>1. Known' = Known \union {i} /\ i \notin Known
      BY <1>5 DEF InsertMerchant, Store
    <2>2. merchants'[i] = NewRow(issued') /\ \A j \in Known : merchants'[j] = merchants[j]
      BY <1>5, <2>1 DEF InsertMerchant, Store
    <2>3. told'[i] = issued' /\ \A j \in Known : told'[j] = told[j]
      BY <1>5, <2>1 DEF InsertMerchant
    <2>4. flips' = flips /\ blind' = blind /\ flips[i] = 0
      BY <1>5, <2>1 DEF InsertMerchant
    <2>5. NewRow(issued').active = TRUE /\ NewRow(issued').secret = issued'
      BY DEF NewRow
    <2>6. merchants'[i].active = (flips'[i] % 2 = 0) /\ merchants'[i].secret = told'[i]
      BY <2>2, <2>3, <2>4, <2>5, Parity
    <2>7. ASSUME NEW j \in Known, j \notin blind
          PROVE  merchants'[j].active = (flips'[j] % 2 = 0) /\ merchants'[j].secret = told'[j]
      BY <2>2, <2>3, <2>4, <2>7
    <2> QED
      BY <2>1, <2>4, <2>6, <2>7
  <1>6. CASE UNCHANGED merchantVars
    BY <1>6 DEF merchantVars
  <1> HIDE DEF Goal
  <1> QED
    BY <1>1, <1>2, <1>3, <1>4, <1>5, <1>6 DEF MerchantsNext, Clerk

(* CopyStep: what a request knows of its row stays true until it is done; a   *)
(* write of another request puts the row's version past what it read.       *)
LEMMA CopyStep ==
  MInv /\ [MerchantsNext]_merchantVars => \A u \in Clerks : CopyHolds(u)'
  <1> SUFFICES ASSUME MInv, [MerchantsNext]_merchantVars, NEW u \in Clerks
               PROVE  CopyHolds(u)'
    OBVIOUS
  <1> USE DEF MInv, MerchantsTypeOK, Known, answered
  <1>0. CopyHolds(u)
    OBVIOUS
  <1>1. ASSUME NEW t \in Clerks, NEW edit \in Edits, NEW i \in Ids, LoadMerchant(t, edit, i)
        PROVE  CopyHolds(u)'
    <2>1. CASE u = t
      <3> DEFINE copy == Edited(edit, merchants[i], issued + 1)
      <3>1. /\ copy.active = IF edit = "toggle" THEN ~ merchants[i].active
                                                ELSE merchants[i].active
            /\ edit # "reset" => copy.secret = merchants[i].secret
        BY <1>1 DEF Edited, Merchant, LoadMerchant
      <3>2. /\ clerk'[u].at = "select" /\ clerk'[u].id = i /\ clerk'[u].edit = edit
            /\ clerk'[u].copy = copy /\ clerk'[u].read = version[i]
            /\ i \in Known /\ merchants' = merchants /\ version' = version
        BY <1>1, <2>1 DEF LoadMerchant
      <3>3. version[i] \in Nat
        OBVIOUS
      <3> HIDE DEF copy
      <3> QED
        BY <3>1, <3>2, <3>3 DEF CopyHolds
    <2>2. CASE u # t
      BY <1>0, <1>1, <2>2 DEF CopyHolds, LoadMerchant
    <2> QED
      BY <2>1, <2>2
  <1>2. ASSUME NEW t \in Clerks, SelectMerchant(t)
        PROVE  CopyHolds(u)'
    <2>1. merchants' = merchants /\ version' = version
      BY <1>2 DEF SelectMerchant
    <2>2. CASE u = t
      <3>1. /\ clerk[u].at = "select" /\ clerk'[u].at = "write"
            /\ clerk'[u].id = clerk[u].id /\ clerk'[u].edit = clerk[u].edit
            /\ clerk'[u].copy = clerk[u].copy /\ clerk'[u].read = clerk[u].read
            /\ clerk'[u].columns =
                 {c \in Columns : clerk[u].copy[c] # merchants[clerk[u].id][c]}
        BY <1>2, <2>2 DEF SelectMerchant
      <3> QED
        BY <1>0, <2>1, <3>1 DEF CopyHolds
    <2>3. CASE u # t
      BY <1>0, <1>2, <2>3 DEF CopyHolds, SelectMerchant
    <2> QED
      BY <2>2, <2>3
  <1>3. ASSUME NEW t \in Clerks, WriteMerchant(t)
        PROVE  CopyHolds(u)'
    <2>1. CASE u = t
      BY <1>3, <2>1 DEF CopyHolds, WriteMerchant, Finish
    <2>2. CASE u # t
      <3> DEFINE i == clerk[t].id
      <3>1. /\ i \in Known /\ clerk'[u] = clerk[u]
            /\ version' = [version EXCEPT ![i] = @ + 1]
            /\ \E row : merchants' = [merchants EXCEPT ![i] = row]
        BY <1>3, <2>2 DEF WriteMerchant, CopyHolds, Finish
      <3>2. Known' = Known /\ \A j \in Known : j # i => merchants'[j] = merchants[j]
        BY <3>1
      <3>3. version[i] \in Nat /\ version'[i] = version[i] + 1
        BY <3>1
      <3>4. \A j \in Known : j # i => version'[j] = version[j]
        BY <3>1
      <3>5. clerk[u].read \in Nat
        OBVIOUS
      <3> HIDE DEF i
      <3>6. CASE clerk[u].id = i
        BY <1>0, <3>1, <3>2, <3>3, <3>5, <3>6 DEF CopyHolds
      <3>7. CASE clerk[u].id # i
        BY <1>0, <3>1, <3>2, <3>4, <3>7 DEF CopyHolds
      <3> QED
        BY <3>6, <3>7
    <2> QED
      BY <2>1, <2>2
  <1>4. ASSUME NEW t \in Clerks, FindNoMerchant(t)
        PROVE  CopyHolds(u)'
    BY <1>0, <1>4 DEF CopyHolds, FindNoMerchant
  <1>5. ASSUME NEW t \in Clerks, NEW i \in Ids, InsertMerchant(t, i)
        PROVE  CopyHolds(u)'
    <2>1. CASE u = t
      BY <1>5, <2>1 DEF CopyHolds, InsertMerchant, Finish
    <2>2. CASE u # t
      <3>1. clerk'[u] = clerk[u] /\ version' = version /\ i \notin Known
        BY <1>5, <2>2 DEF InsertMerchant, Finish
      <3>2. Known' = Known \union {i} /\ \A j \in Known : merchants'[j] = merchants[j]
        BY <1>5, <3>1 DEF InsertMerchant, Store
      <3> QED
        BY <1>0, <3>1, <3>2 DEF CopyHolds
    <2> QED
      BY <2>1, <2>2
  <1>6. CASE UNCHANGED merchantVars
    BY <1>0, <1>6 DEF merchantVars, CopyHolds
  <1> QED
    BY <1>1, <1>2, <1>3, <1>4, <1>5, <1>6 DEF MerchantsNext, Clerk

(* MerchantsStep: every step keeps the invariant.                             *)
LEMMA MerchantsStep == MInv /\ [MerchantsNext]_merchantVars => MInv'
  BY MerchantsTypeStep, EditsStep, CopyStep DEF MInv

(* MerchantsAlways: the invariant holds in every state.                       *)
LEMMA MerchantsAlways == MerchantsSpec => []MInv
  BY MerchantsInitInv, MerchantsStep, PTL DEF MerchantsSpec

(* MerchantRowsHold: rows, copies and counters keep their types, and no edit   *)
(* that read the last write of its row undoes what another was answered.     *)
THEOREM MerchantRowsHold == MerchantsSpec => [](MerchantsTypeOK /\ EditsHold)
  <1>1. MInv => MerchantsTypeOK /\ EditsHold
    BY DEF MInv
  <1> QED
    BY <1>1, MerchantsAlways, PTL
=============================================================================
