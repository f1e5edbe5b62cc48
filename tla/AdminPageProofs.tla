-------------------------- MODULE AdminPageProofs --------------------------
(***************************************************************************)
(* The custom-client page for any presets, uploads, builds, edits and      *)
(* requests in flight.  The form: the errors it shows, the preset values   *)
(* it keeps and the edits it never loses.  The history: the order of what  *)
(* it shows and the builds it must show.                                   *)
(***************************************************************************)
EXTENDS AdminPage, TLAPS

(* The build form *)

\* explicitPresetFields are the fields of the selected preset, once it is loaded.
ExplicitIsStored == preset \in Presets \ Unreadable => explicit = DOMAIN PresetConfig[preset]

\* The inductive invariant.
FormInv ==
    /\ FormTypeOK
    /\ ErrorsMatchForm
    /\ ExplicitIsStored
    /\ PresetValuesKept

-----------------------------------------------------------------------------
LEMMA FieldsExist ==
    /\ "platform" \in Fields /\ "hide_cm" \in Fields /\ "pass_approve_mode" \in Fields
    /\ "server_ip" \in Fields /\ "app_logo_url" \in Fields
    /\ UploadFields \subseteq Fields /\ DefaultFields \subseteq Fields
    /\ "create" \in Calls /\ "save" \in Calls
<1> QED BY DEF Fields, UploadFields, DefaultFields, Calls

LEMMA TypedAreValues == \A f \in Fields : Typed[f] \subseteq Values
<1>1. /\ Typed["platform"] \subseteq Values /\ Typed["hide_cm"] \subseteq Values
      /\ Typed["pass_approve_mode"] \subseteq Values
      /\ Typed["server_ip"] \subseteq Values /\ Typed["app_logo_url"] \subseteq Values
    BY DEF Typed, Values
<1> QED BY <1>1 DEF Fields

LEMMA DefaultsAreTyped == FORM_DEFAULTS \in [Fields -> Values]
<1>1. DOMAIN FORM_DEFAULTS = Fields
    BY DEF FORM_DEFAULTS, Fields
<1>2. FORM_DEFAULTS = [f \in Fields |-> FORM_DEFAULTS[f]]
    BY <1>1 DEF FORM_DEFAULTS
<1>3. /\ FORM_DEFAULTS["platform"] \in Values /\ FORM_DEFAULTS["hide_cm"] \in Values
      /\ FORM_DEFAULTS["pass_approve_mode"] \in Values
      /\ FORM_DEFAULTS["server_ip"] \in Values /\ FORM_DEFAULTS["app_logo_url"] \in Values
    BY DEF FORM_DEFAULTS, Values
<1>4. \A f \in Fields : FORM_DEFAULTS[f] \in Values
    BY <1>3 DEF Fields
<1> QED BY <1>2, <1>4

LEMMA EditsBounded == ASSUME edits \in 0..MaxEdits, UserActs PROVE edits' \in 0..MaxEdits
<1> QED BY EditAssumption DEF UserActs

LEMMA NoErrorsAreTyped == NoErrors \in [Fields -> Values \cup {None}] /\ \A f \in Fields : NoErrors[f] = None
<1> QED BY DEF NoErrors

\* What clearing and surfacing do to the errors.
LEMMA ClearedErrors ==
    ASSUME NEW errors \in [Fields -> Values \cup {None}], NEW f \in Fields
    PROVE  /\ clearFieldError(errors, f) \in [Fields -> Values \cup {None}]
           /\ clearFieldError(errors, f)[f] = None
           /\ f = "hide_cm" => clearFieldError(errors, f)["pass_approve_mode"] = None
           /\ \A g \in Fields : clearFieldError(errors, f)[g] \in {None, errors[g]}
<1> QED BY FieldsExist DEF clearFieldError

LEMMA SurfacedErrors ==
    ASSUME NEW errors \in [Fields -> Values \cup {None}], NEW values \in [Fields -> Values]
    PROVE  /\ Surfaced(errors, values) \in [Fields -> Values \cup {None}]
           /\ \A g \in Fields : g # "pass_approve_mode" => Surfaced(errors, values)[g] = errors[g]
           /\ Surfaced(errors, values)["pass_approve_mode"]
                \in {errors["pass_approve_mode"], values["pass_approve_mode"]}
<1> QED BY FieldsExist DEF Surfaced

LEMMA DefaultsApplied ==
    ASSUME NEW values \in [Fields -> Values], NEW fields, NEW v \in {"", "default"}
    PROVE  /\ applyServerConfigDefaults(values, fields, v) \in [Fields -> Values]
           /\ \A f \in Fields : f \in fields \/ f \notin DefaultFields
                => applyServerConfigDefaults(values, fields, v)[f] = values[f]
<1>1. {"", "default"} \subseteq Values
    BY DEF Values
<1> QED BY <1>1 DEF applyServerConfigDefaults

LEMMA FormInitial == FormInit => FormInv
<1> SUFFICES ASSUME FormInit PROVE FormInv
    OBVIOUS
<1>1. FormTypeOK
  <2>1. call \in [Calls -> Snapshot \cup {None}]
    BY DEF FormInit
  <2>2. upload \in [Uploads -> {"idle", "sent", "over"}]
    BY DEF FormInit
  <2>3. edits \in 0..MaxEdits
    <3>1. edits = 0
        BY DEF FormInit
    <3> QED BY <3>1, EditAssumption
  <2>4. form \in [Fields -> Values] /\ err \in [Fields -> Values \cup {None}]
    BY DefaultsAreTyped, NoErrorsAreTyped DEF FormInit
  <2> QED BY <2>1, <2>2, <2>3, <2>4 DEF FormInit, FormTypeOK
<1>2. ErrorsMatchForm
    BY NoErrorsAreTyped DEF FormInit, ErrorsMatchForm
<1> QED BY <1>1, <1>2, PresetAssumption DEF FormInit, FormInv, ExplicitIsStored, PresetValuesKept

-----------------------------------------------------------------------------
LEMMA EditKeeps ==
    ASSUME FormInv, NEW f \in Fields, NEW v \in Typed[f], Edit(f, v)
    PROVE  FormInv'
<1>1. form \in [Fields -> Values] /\ err \in [Fields -> Values \cup {None}]
    BY DEF FormInv, FormTypeOK
<1>2. v \in Values
    BY TypedAreValues
<1>3. form' \in [Fields -> Values] /\ form'[f] = v /\ \A g \in Fields : g # f => form'[g] = form[g]
    BY <1>1, <1>2 DEF Edit
<1> DEFINE cleared == clearFieldError(err, f)
<1>4. /\ cleared \in [Fields -> Values \cup {None}] /\ cleared[f] = None
      /\ f = "hide_cm" => cleared["pass_approve_mode"] = None
      /\ \A g \in Fields : cleared[g] \in {None, err[g]}
    BY <1>1, ClearedErrors
<1> HIDE DEF cleared
<1>5. \/ err' = cleared
      \/ err' = Surfaced(cleared, form')
    BY DEF Edit, cleared
<1>6. err' \in [Fields -> Values \cup {None}]
    BY <1>3, <1>4, <1>5, SurfacedErrors
<1>7. \A g \in Fields : err'[g] = cleared[g] \/ (g = "pass_approve_mode" /\ err'[g] = form'[g])
    BY <1>3, <1>4, <1>5, SurfacedErrors
<1>8. FormTypeOK'
  <2>1. edits' \in 0..MaxEdits
    BY EditsBounded DEF Edit, FormInv, FormTypeOK
  <2>2. edited' \in SUBSET Fields
    BY DEF Edit, FormInv, FormTypeOK
  <2> QED BY <1>3, <1>6, <2>1, <2>2 DEF Edit, requests, FormInv, FormTypeOK
<1>9. ErrorsMatchForm'
  <2> SUFFICES ASSUME NEW g \in Fields \ (UploadFields \cup DefaultFields), err'[g] # None
               PROVE  err'[g] = form'[g]
    BY DEF ErrorsMatchForm
  <2>1. CASE err'[g] = cleared[g]
    <3>1. g # f /\ cleared[g] = err[g] /\ err[g] # None
        BY <1>4, <2>1
    <3> QED BY <1>3, <2>1, <3>1 DEF FormInv, ErrorsMatchForm
  <2> QED BY <1>7, <2>1
<1>10. ExplicitIsStored' /\ PresetValuesKept'
  <2>1. UNCHANGED <<preset, explicit>> /\ edited' = edited \cup {f}
    BY DEF Edit
  <2>2. ASSUME preset \in Presets PROVE DOMAIN PresetConfig[preset] \subseteq Fields
    BY <2>2, PresetAssumption
  <2> QED BY <1>3, <2>1, <2>2 DEF FormInv, ExplicitIsStored, PresetValuesKept
<1> QED BY <1>8, <1>9, <1>10 DEF FormInv

\* resetForm drops the preset and the errors.
LEMMA ResetKeeps ==
    ASSUME FormInv, resetForm, FormTypeOK'
    PROVE  FormInv'
<1>1. err' = NoErrors /\ preset' = None
    BY DEF resetForm, ReplacesForm
<1> QED BY <1>1, NoErrorsAreTyped, PresetAssumption DEF FormInv, ErrorsMatchForm, ExplicitIsStored, PresetValuesKept

LEMMA ResetByUser == ASSUME FormInv, Reset PROVE FormInv'
<1>1. FormTypeOK'
    BY DefaultsAreTyped, NoErrorsAreTyped, EditsBounded
        DEF Reset, resetForm, ReplacesForm, requests, FormInv, FormTypeOK
<1> QED BY <1>1, ResetKeeps DEF Reset

LEMMA CreatedKeeps == ASSUME FormInv, Created PROVE FormInv'
<1>1. call' \in [Calls -> Snapshot \cup {None}] /\ UNCHANGED <<edits, requests>>
    BY DEF Created, FormInv, FormTypeOK
<1>2. CASE resetForm
  <2>1. FormTypeOK'
    BY <1>1, <1>2, DefaultsAreTyped, NoErrorsAreTyped
        DEF resetForm, ReplacesForm, requests, FormInv, FormTypeOK
  <2> QED BY <1>2, <2>1, ResetKeeps
<1>3. CASE UNCHANGED <<form, preset, explicit, err, upload, edited>>
    BY <1>1, <1>3 DEF requests, FormInv, FormTypeOK, ErrorsMatchForm, ExplicitIsStored, PresetValuesKept
<1> QED BY <1>2, <1>3 DEF Created

\* A preset that parses replaces the form and the errors.
LEMMA LoadKeeps ==
    ASSUME FormInv, NEW p \in Presets, PresetSelect(p), p \notin Unreadable
    PROVE  FormInv'
<1> DEFINE stored == DOMAIN PresetConfig[p]
           loaded == [f \in Fields |-> IF f \in stored THEN PresetConfig[p][f] ELSE FORM_DEFAULTS[f]]
<1>1. loaded \in [Fields -> Values] /\ stored \subseteq Fields
    BY PresetAssumption, DefaultsAreTyped
<1>2. form' = applyServerConfigDefaults(loaded, stored, defaults) /\ explicit' = stored
    BY DEF PresetSelect, Loads
<1>3. /\ form' \in [Fields -> Values]
      /\ \A f \in stored : form'[f] = loaded[f]
  <2>1. defaults \in {"", "default"}
    BY DEF FormInv, FormTypeOK
  <2> HIDE DEF stored, loaded
  <2> QED BY <1>1, <1>2, <2>1, DefaultsApplied
<1>4. \A f \in stored : form'[f] = PresetConfig[p][f]
    BY <1>1, <1>3
<1> HIDE DEF stored, loaded
<1>5. preset' = p /\ p # None /\ edited' = {} /\ err' = NoErrors
    BY PresetAssumption DEF PresetSelect, Loads, ReplacesForm
<1>6. FormTypeOK'
    BY <1>1, <1>2, <1>3, <1>5, NoErrorsAreTyped, EditsBounded
        DEF PresetSelect, Loads, ReplacesForm, requests, FormInv, FormTypeOK
<1>7. ErrorsMatchForm'
    BY <1>5, NoErrorsAreTyped DEF ErrorsMatchForm
<1>8. ExplicitIsStored' /\ PresetValuesKept'
    BY <1>2, <1>4, <1>5 DEF ExplicitIsStored, PresetValuesKept, stored
<1> QED BY <1>6, <1>7, <1>8 DEF FormInv

LEMMA PresetSelectKeeps == ASSUME FormInv, NEW p \in Presets, PresetSelect(p) PROVE FormInv'
<1>1. CASE p \notin Unreadable
    BY <1>1, LoadKeeps
<1>2. CASE p \in Unreadable
  <2>1. preset' = p /\ UNCHANGED <<form, explicit, err, edited, upload, call, requests>>
    BY <1>2 DEF PresetSelect
  <2>2. FormTypeOK'
    BY <2>1, EditsBounded DEF PresetSelect, requests, FormInv, FormTypeOK
  <2>3. ErrorsMatchForm'
    BY <2>1 DEF FormInv, ErrorsMatchForm
  <2> QED BY <1>2, <2>1, <2>2, <2>3 DEF FormInv, ExplicitIsStored, PresetValuesKept
<1> QED BY <1>1, <1>2

LEMMA ConfigKeeps == ASSUME FormInv, NEW ok \in BOOLEAN, ConfigArrives(ok) PROVE FormInv'
<1>1. UNCHANGED <<preset, explicit, versions, err, call, upload, edited, edits>> /\ config' = FALSE
    BY DEF ConfigArrives
<1>2. defaults' \in {"", "default"}
    BY DEF ConfigArrives, FormInv, FormTypeOK
<1>3. /\ form' \in [Fields -> Values]
      /\ \A f \in Fields : f \in explicit \/ f \notin DefaultFields => form'[f] = form[f]
  <2>1. form \in [Fields -> Values]
    BY DEF FormInv, FormTypeOK
  <2>2. \/ form' = form
        \/ form' = applyServerConfigDefaults(form, explicit, "default")
    BY DEF ConfigArrives
  <2>3. CASE form' = form
    BY <2>1, <2>3
  <2>4. CASE form' = applyServerConfigDefaults(form, explicit, "default")
    BY <2>1, <2>4, DefaultsApplied
  <2> QED BY <2>2, <2>3, <2>4
<1>4. FormTypeOK'
    BY <1>1, <1>2, <1>3 DEF FormInv, FormTypeOK
<1>5. ErrorsMatchForm' /\ ExplicitIsStored'
    BY <1>1, <1>3 DEF FormInv, ErrorsMatchForm, ExplicitIsStored
<1>6. preset \in Presets => DOMAIN PresetConfig[preset] \subseteq Fields
    BY PresetAssumption
<1>7. PresetValuesKept'
    BY <1>1, <1>3, <1>6 DEF FormInv, ExplicitIsStored, PresetValuesKept
<1> QED BY <1>4, <1>5, <1>7 DEF FormInv

\* Steps that touch neither the form nor the preset.
LEMMA ErrorsOnly ==
    ASSUME FormInv, FormTypeOK', UNCHANGED <<form, preset, explicit, edited>>,
           \A f \in Fields \ (UploadFields \cup DefaultFields) : err'[f] \in {None, err[f], form[f]}
    PROVE  FormInv'
<1>1. ErrorsMatchForm'
    BY DEF FormInv, ErrorsMatchForm
<1> QED BY <1>1 DEF FormInv, ExplicitIsStored, PresetValuesKept

LEMMA SnapshotTyped == FormTypeOK => snapshotSubmittedFields \in Snapshot
<1> QED BY DEF FormTypeOK, snapshotSubmittedFields, Snapshot

LEMMA SubmitKeeps == ASSUME FormInv, Submit \/ SubmitBlocked \/ Save \/ Saved PROVE FormInv'
<1>1. UNCHANGED <<form, preset, explicit, upload, edited, edits, requests>>
    BY DEF Submit, SubmitBlocked, Save, Saved
<1>2. call' \in [Calls -> Snapshot \cup {None}]
    BY SnapshotTyped DEF Submit, SubmitBlocked, Save, Saved, FormInv, FormTypeOK
<1>3. err \in [Fields -> Values \cup {None}] /\ form \in [Fields -> Values]
    BY DEF FormInv, FormTypeOK
<1>4. /\ err' \in [Fields -> Values \cup {None}]
      /\ \A f \in Fields : err'[f] \in {None, err[f], form[f]}
  <2>1. CASE err' = NoErrors
    BY <2>1, NoErrorsAreTyped
  <2>2. CASE err' = Surfaced(err, form)
    BY <1>3, <2>2, SurfacedErrors
  <2>3. CASE err' = [f \in Fields |-> IF f \in activeUploadErrors THEN err[f] ELSE None]
    BY <1>3, <2>3
  <2>4. CASE err' = err
    BY <1>3, <2>4
  <2> QED BY <2>1, <2>2, <2>3, <2>4 DEF Submit, SubmitBlocked, Save, Saved
<1>5. FormTypeOK'
    BY <1>1, <1>2, <1>4 DEF FormInv, FormTypeOK, requests
<1> QED BY <1>1, <1>4, <1>5, ErrorsOnly

LEMMA RejectedKeeps ==
    ASSUME FormInv, NEW c \in Calls, NEW fields \in SUBSET Fields, Rejected(c, fields)
    PROVE  FormInv'
<1>1. UNCHANGED <<form, preset, explicit, upload, edited, edits, requests>>
    BY DEF Rejected
<1>2. call' \in [Calls -> Snapshot \cup {None}]
    BY DEF Rejected, FormInv, FormTypeOK
<1>3. /\ err' \in [Fields -> Values \cup {None}]
      /\ \A f \in Fields : err'[f] \in {None, err[f], form[f]}
    BY DEF Rejected, applyServerFieldErrors, FormInv, FormTypeOK
<1>4. FormTypeOK'
    BY <1>1, <1>2, <1>3 DEF FormInv, FormTypeOK, requests
<1> QED BY <1>1, <1>3, <1>4, ErrorsOnly

\* Uploads touch the fields of uploads only.
LEMMA UploadKeeps ==
    ASSUME FormInv, NEW f \in UploadFields,
           \/ UploadRefused(f)
           \/ \E u \in Uploads : Upload(u, f) \/ Uploaded(u, f) \/ UploadFails(u, f)
    PROVE  FormInv'
<1>0. f \in Fields
    BY FieldsExist
<1>1. UNCHANGED <<preset, explicit, call, requests>>
    BY DEF UploadRefused, Upload, Uploaded, UploadFails
<1>2. form \in [Fields -> Values] /\ err \in [Fields -> Values \cup {None}]
    BY DEF FormInv, FormTypeOK
<1>3. edits' \in 0..MaxEdits
  <2>1. edits \in 0..MaxEdits
    BY DEF FormInv, FormTypeOK
  <2>2. UserActs \/ UNCHANGED edits
    BY DEF UploadRefused, Upload, Uploaded, UploadFails
  <2> QED BY <2>1, <2>2, EditsBounded
<1>4. upload' \in [Uploads -> {"idle", "sent", "over"}]
    BY DEF UploadRefused, Upload, Uploaded, UploadFails, FormInv, FormTypeOK
<1>5. /\ err' \in [Fields -> Values \cup {None}]
      /\ \A g \in Fields \ {f} : err'[g] \in {None, err[g]}
  <2>1. CASE err' = clearFieldError(err, f)
    BY <1>0, <1>2, <2>1, ClearedErrors
  <2>2. CASE err' = [err EXCEPT ![f] = form[f]]
    BY <1>0, <1>2, <2>2
  <2>3. CASE err' = err
    BY <1>2, <2>3
  <2> QED BY <2>1, <2>2, <2>3 DEF UploadRefused, Upload, Uploaded, UploadFails
<1>6. /\ form' \in [Fields -> Values]
      /\ \A g \in Fields \ {f} : form'[g] = form[g]
      /\ \/ UNCHANGED <<form, edited>>
         \/ edited' = edited \cup {f}
  <2>1. Uploads \subseteq Values
    BY DEF Values
  <2> QED BY <1>0, <1>2, <2>1 DEF UploadRefused, Upload, Uploaded, UploadFails
<1>7. FormTypeOK'
    BY <1>0, <1>1, <1>3, <1>4, <1>5, <1>6 DEF FormInv, FormTypeOK, requests
<1>8. ErrorsMatchForm'
    BY <1>5, <1>6 DEF FormInv, ErrorsMatchForm
<1>9. preset \in Presets => DOMAIN PresetConfig[preset] \subseteq Fields
    BY PresetAssumption
<1>10. ExplicitIsStored' /\ PresetValuesKept'
    BY <1>1, <1>6, <1>9 DEF FormInv, ExplicitIsStored, PresetValuesKept
<1> QED BY <1>7, <1>8, <1>10 DEF FormInv

LEMMA OthersKeep ==
    ASSUME FormInv,
           PresetDeleted \/ \E state \in {"ready", "empty", "error"} : VersionsArrive(state)
    PROVE  FormInv'
<1>1. FormTypeOK'
    BY DEF PresetDeleted, VersionsArrive, requests, FormInv, FormTypeOK
<1> QED BY <1>1, PresetAssumption DEF PresetDeleted, VersionsArrive, FormInv, ErrorsMatchForm, ExplicitIsStored, PresetValuesKept

-----------------------------------------------------------------------------
LEMMA FormInductive == FormInv /\ [FormNext]_formVars => FormInv'
<1> SUFFICES ASSUME FormInv, [FormNext]_formVars PROVE FormInv'
    OBVIOUS
<1>1. CASE UNCHANGED formVars
    BY <1>1 DEF formVars, FormInv, FormTypeOK, ErrorsMatchForm, ExplicitIsStored, PresetValuesKept
<1>2. CASE FormNext
    BY <1>2, EditKeeps, ResetByUser, PresetSelectKeeps, ConfigKeeps, SubmitKeeps, CreatedKeeps,
        RejectedKeeps, UploadKeeps, OthersKeep DEF FormNext
<1> QED BY <1>1, <1>2

LEMMA FormInvariant == FormSpec => []FormInv
<1> QED BY FormInitial, FormInductive, PTL DEF FormSpec

\* Whatever answers to creates, saves and uploads arrive late, an error shown at
\* a field that only the user and presets fill is about the value shown there.
THEOREM ErrorsAreCurrent == FormSpec => []ErrorsMatchForm
<1>1. FormInv => ErrorsMatchForm
    BY DEF FormInv
<1> QED BY <1>1, FormInvariant, PTL

\* Server defaults that arrive after a preset was selected leave the fields it
\* stores alone.
THEOREM PresetsOutlastDefaults == FormSpec => []PresetValuesKept
<1>1. FormInv => PresetValuesKept
    BY DEF FormInv
<1> QED BY <1>1, FormInvariant, PTL

\* The answer to a create resets the form only while it shows exactly what was
\* submitted: submitBuild never clears an edit made since.
THEOREM EditsSurviveCreate == FormSpec => UnsentEditsKept
<1> DEFINE Kept ==
        submitting /\ call'["create"] = None =>
            \/ UNCHANGED <<form, preset>>
            \/ call["create"] = [preset |-> preset, values |-> form]
<1>1. ASSUME FormInv, [FormNext]_formVars PROVE [Kept]_formVars
  <2> SUFFICES ASSUME submitting, call'["create"] = None, ~UNCHANGED formVars
               PROVE  \/ UNCHANGED <<form, preset>>
                      \/ call["create"] = [preset |-> preset, values |-> form]
    OBVIOUS
  <2>1. CASE Created
    <3>1. CASE isSubmittedSnapshotCurrent(call["create"])
      <4>1. call["create"] \in Snapshot
          BY <1>1, FieldsExist DEF submitting, FormInv, FormTypeOK
      <4>2. form \in [Fields -> Values] /\ call["create"].values \in [Fields -> Values]
          BY <1>1, <4>1 DEF FormInv, FormTypeOK, Snapshot
      <4>3. call["create"].values = form /\ call["create"].preset = preset
          BY <3>1, <4>2 DEF isSubmittedSnapshotCurrent
      <4> QED BY <4>1, <4>3 DEF Snapshot
    <3>2. CASE ~isSubmittedSnapshotCurrent(call["create"])
      BY <2>1, <3>2 DEF Created
    <3> QED BY <3>1, <3>2
  <2>2. CASE \E c \in Calls, fields \in SUBSET Fields : Rejected(c, fields)
    BY <2>2 DEF Rejected
  <2>3. CASE /\ ~Created
             /\ ~\E c \in Calls, fields \in SUBSET Fields : Rejected(c, fields)
    <3>1. \/ UNCHANGED call
          \/ Submit \/ Save \/ Saved
      BY <1>1, <2>3 DEF FormNext, Edit, Reset, PresetDeleted, PresetSelect, ConfigArrives,
          VersionsArrive, SubmitBlocked, Upload, UploadRefused, Uploaded, UploadFails
    <3> QED BY <3>1 DEF submitting, Submit, Save, Saved
  <2> QED BY <2>1, <2>2, <2>3
<1>2. FormInv /\ [FormNext]_formVars => [Kept]_formVars
    BY <1>1
<1> QED BY <1>2, FormInvariant, PTL DEF FormSpec, UnsentEditsKept

-----------------------------------------------------------------------------
(* The build history *)

\* Only the newest request passes the generation check.
OneCurrent ==
    \A p, q \in Slots :
        req[p] # Free /\ req[q] # Free /\ req[p].current /\ req[q].current => p = q

\* Lists are snapshots of the server, and what is shown is no newer than the
\* answer of the newest request.
ListsBehind ==
    \A b \in Builds :
        /\ Rank[shown[b]] <= Rank[server[b]]
        /\ \A q \in Slots : req[q] # Free /\ req[q].st = "listed" =>
            /\ Rank[req[q].list[b]] <= Rank[server[b]]
            /\ req[q].current => Rank[shown[b]] <= Rank[req[q].list[b]]

\* Before onMounted nothing was asked for.
SetupIsQuiet ==
    phase = "setup" =>
        /\ own = {}
        /\ \A b \in Builds : returns[b] = 0
        /\ \A q \in Slots : req[q] = Free

\* A build whose create or delete was answered is a row of the server ...
OwnOnServer == \A b \in Builds : b \in own \/ returns[b] > 0 => server[b] # "none"

\* ... and on its way to the list while the page is open.
OwnOnTheWay ==
    mounted =>
        /\ \A q \in Slots : req[q] # Free /\ req[q].st = "listed" /\ req[q].current =>
              \A b \in own : req[q].list[b] # "none"
        /\ \/ failed
           \/ \E q \in Slots : req[q] # Free /\ req[q].current
           \/ \A b \in own : shown[b] # "none"

HistoryInv ==
    /\ HistoryTypeOK
    /\ OneCurrent
    /\ ListsBehind
    /\ SetupIsQuiet
    /\ OwnOnServer
    /\ OwnOnTheWay

-----------------------------------------------------------------------------
LEMMA Ranks ==
    /\ Rank["none"] = 0 /\ Rank["active"] = 1 /\ Rank["ended"] = 2 /\ Rank["gone"] = 3
    /\ \A s \in RowStates : Rank[s] \in Nat /\ (Rank[s] = 0 => s = "none")
<1>1. Rank["none"] = 0 /\ Rank["active"] = 1 /\ Rank["ended"] = 2 /\ Rank["gone"] = 3
    BY DEF Rank
<1> QED BY <1>1 DEF RowStates

LEMMA NoListTyped == NoList \in Lists /\ \A b \in Builds : NoList[b] = "none"
<1> QED BY DEF NoList, Lists, RowStates

LEMMA RequestFields ==
    ASSUME NEW r \in Request
    PROVE  /\ r # Free
           /\ r.current \in BOOLEAN /\ r.silent \in BOOLEAN
           /\ r.st \in {"sent", "listed", "error"} /\ r.list \in Lists
<1> QED BY FreeAssumption DEF Request

LEMMA HistoryInitial == HistoryInit => HistoryInv
<1> SUFFICES ASSUME HistoryInit PROVE HistoryInv
    OBVIOUS
<1>1. HistoryTypeOK
  <2>1. returns \in [Builds -> 0..MaxReturns] /\ fails \in 0..MaxFails
    BY BoundAssumption DEF HistoryInit
  <2>2. req \in [Slots -> Request \cup {Free}]
    BY DEF HistoryInit
  <2> QED BY <2>1, <2>2, NoListTyped DEF HistoryInit, HistoryTypeOK
<1>2. ListsBehind
  <2> SUFFICES ASSUME NEW b \in Builds PROVE Rank[shown[b]] <= Rank[server[b]]
    BY DEF ListsBehind, HistoryInit
  <2>1. shown[b] = "none" /\ server[b] \in RowStates
    BY NoListTyped DEF HistoryInit, Lists
  <2> QED BY <2>1, Ranks
<1> QED BY <1>1, <1>2
    DEF HistoryInit, HistoryInv, OneCurrent, SetupIsQuiet, OwnOnServer, OwnOnTheWay, mounted

\* A new generation: the request it sends is the only current one.
LEMMA StartFacts ==
    ASSUME req \in [Slots -> Request \cup {Free}], NEW q \in Slots, NEW silent \in BOOLEAN
    PROVE  /\ start(q, silent) \in [Slots -> Request \cup {Free}]
           /\ start(q, silent)[q] # Free /\ start(q, silent)[q].current
           /\ start(q, silent)[q].st = "sent"
           /\ \A p \in Slots : p # q =>
                /\ start(q, silent)[p] = Free <=> req[p] = Free
                /\ req[p] # Free =>
                    /\ ~start(q, silent)[p].current
                    /\ start(q, silent)[p].st = req[p].st
                    /\ start(q, silent)[p].list = req[p].list
<1>1. Sent(silent) \in Request /\ Sent(silent).current /\ Sent(silent).st = "sent"
    BY NoListTyped DEF Sent, Request
<1>2. ASSUME NEW p \in Slots, req[p] # Free
      PROVE  /\ [req[p] EXCEPT !.current = FALSE] \in Request
             /\ ~[req[p] EXCEPT !.current = FALSE].current
             /\ [req[p] EXCEPT !.current = FALSE].st = req[p].st
             /\ [req[p] EXCEPT !.current = FALSE].list = req[p].list
    BY <1>2 DEF Request
<1>3. Sent(silent) # Free /\ \A p \in Slots : req[p] # Free => [req[p] EXCEPT !.current = FALSE] # Free
    BY <1>1, <1>2, FreeAssumption
<1> QED BY <1>1, <1>2, <1>3 DEF start

\* A step that starts a generation and tells the page of at most new builds
\* that are on the server.
LEMMA StartKeeps ==
    ASSUME HistoryInv, HistoryTypeOK', NEW q \in Slots, NEW silent \in BOOLEAN,
           req' = start(q, silent), UNCHANGED <<server, shown, failed>>,
           phase' = "mounted",
           \A b \in Builds : b \in own' \/ returns'[b] > 0 => server[b] # "none"
    PROVE  HistoryInv'
<1> DEFINE new == start(q, silent)
<1>1. req \in [Slots -> Request \cup {Free}]
    BY DEF HistoryInv, HistoryTypeOK
<1>2. /\ new[q] # Free /\ new[q].current /\ new[q].st = "sent"
      /\ \A p \in Slots : p # q =>
                /\ new[p] = Free <=> req[p] = Free
                /\ req[p] # Free =>
                    /\ ~new[p].current
                    /\ new[p].st = req[p].st
                    /\ new[p].list = req[p].list
    BY <1>1, StartFacts
<1>3. req' = new
    OBVIOUS
<1> HIDE DEF new
<1>4. OneCurrent'
    BY <1>2, <1>3 DEF OneCurrent
<1>5. ListsBehind'
  <2> SUFFICES ASSUME NEW b \in Builds, NEW p \in Slots
               PROVE  /\ Rank[shown[b]] <= Rank[server[b]]
                      /\ new[p] # Free /\ new[p].st = "listed" =>
                            /\ Rank[new[p].list[b]] <= Rank[server[b]]
                            /\ new[p].current => Rank[shown[b]] <= Rank[new[p].list[b]]
    BY <1>3 DEF ListsBehind
  <2>1. Rank[shown[b]] <= Rank[server[b]]
    BY DEF HistoryInv, ListsBehind
  <2>2. CASE p = q
    BY <2>1, <2>2, <1>2
  <2>3. CASE p # q
    BY <2>1, <2>3, <1>2 DEF HistoryInv, ListsBehind
  <2> QED BY <2>2, <2>3
<1>6. OwnOnTheWay'
    BY <1>2, <1>3 DEF OwnOnTheWay, mounted
<1>7. SetupIsQuiet' /\ OwnOnServer'
    BY DEF SetupIsQuiet, OwnOnServer
<1> QED BY <1>4, <1>5, <1>6, <1>7 DEF HistoryInv

LEMMA LoadFacts ==
    ASSUME HistoryInv, NEW silent \in BOOLEAN, loadBuilds(silent)
    PROVE  req' \in [Slots -> Request \cup {Free}] /\ loading' \in BOOLEAN
<1>1. req \in [Slots -> Request \cup {Free}] /\ loading \in BOOLEAN
    BY DEF HistoryInv, HistoryTypeOK
<1>2. CASE mounted
  <2>1. PICK q \in Slots : req' = start(q, silent) /\ loading' = (loading \/ ~silent)
    BY <1>2 DEF loadBuilds
  <2>2. req' \in [Slots -> Request \cup {Free}]
    BY <1>1, <2>1, StartFacts
  <2> QED BY <2>1, <2>2
<1>3. CASE ~mounted
    BY <1>1, <1>3 DEF loadBuilds
<1> QED BY <1>2, <1>3

LEMMA MountKeeps == ASSUME HistoryInv, Mount PROVE HistoryInv'
<1>1. PICK q \in Slots : req' = start(q, FALSE)
    BY DEF Mount
<1>2. req' \in [Slots -> Request \cup {Free}]
    BY <1>1, StartFacts DEF HistoryInv, HistoryTypeOK
<1>3. HistoryTypeOK'
    BY <1>2 DEF Mount, HistoryInv, HistoryTypeOK
<1>4. \A b \in Builds : b \in own' \/ returns'[b] > 0 => server[b] # "none"
    BY DEF Mount, HistoryInv, OwnOnServer
<1>5. phase' = "mounted" /\ UNCHANGED <<server, shown, failed>>
    BY DEF Mount
<1> QED BY <1>1, <1>3, <1>4, <1>5, StartKeeps

LEMMA TickKeeps == ASSUME HistoryInv, Tick PROVE HistoryInv'
<1>1. PICK q \in Slots : req' = start(q, TRUE)
    BY DEF Tick, loadBuilds
<1>2. HistoryTypeOK'
    BY LoadFacts DEF Tick, HistoryInv, HistoryTypeOK
<1>3. \A b \in Builds : b \in own' \/ returns'[b] > 0 => server[b] # "none"
    BY DEF Tick, HistoryInv, OwnOnServer
<1>4. phase' = "mounted" /\ UNCHANGED <<server, shown, failed>>
    BY DEF Tick, mounted
<1> QED BY <1>1, <1>2, <1>3, <1>4, StartKeeps

LEMMA ReturnsBounded ==
    ASSUME NEW b \in Builds, returns \in [Builds -> 0..MaxReturns]
    PROVE  /\ returns[b] > 0 => [returns EXCEPT ![b] = @ - 1] \in [Builds -> 0..MaxReturns]
           /\ returns[b] < MaxReturns => [returns EXCEPT ![b] = @ + 1] \in [Builds -> 0..MaxReturns]
<1>1. returns[b] \in 0..MaxReturns
    OBVIOUS
<1>2. returns[b] > 0 => returns[b] - 1 \in 0..MaxReturns
    BY <1>1, BoundAssumption
<1>3. returns[b] < MaxReturns => returns[b] + 1 \in 0..MaxReturns
    BY <1>1, BoundAssumption
<1> QED BY <1>2, <1>3

LEMMA ReturnsKeeps == ASSUME HistoryInv, NEW b \in Builds, Returns(b) PROVE HistoryInv'
<1>0. /\ returns[b] > 0 /\ returns' = [returns EXCEPT ![b] = @ - 1]
      /\ own' = own \cup {b} /\ loadBuilds(FALSE)
      /\ UNCHANGED <<server, phase, shown, timer, failed, fails>>
    BY DEF Returns
<1>1. returns \in [Builds -> 0..MaxReturns]
    BY DEF HistoryInv, HistoryTypeOK
<1>2. HistoryTypeOK'
  <2>1. returns' \in [Builds -> 0..MaxReturns]
    BY <1>0, <1>1, ReturnsBounded
  <2> QED BY <2>1, <1>0, LoadFacts DEF HistoryInv, HistoryTypeOK
<1>3. \A c \in Builds : c \in own' \/ returns'[c] > 0 => server[c] # "none"
  <2> SUFFICES ASSUME NEW c \in Builds, c \in own' \/ returns'[c] > 0 PROVE server[c] # "none"
    OBVIOUS
  <2>1. CASE c = b
    BY <2>1, <1>0 DEF HistoryInv, OwnOnServer
  <2>2. CASE c # b
    BY <2>2, <1>0, <1>1 DEF HistoryInv, OwnOnServer
  <2> QED BY <2>1, <2>2
<1>4. CASE mounted
  <2>1. PICK q \in Slots : req' = start(q, FALSE)
    BY <1>0, <1>4 DEF loadBuilds
  <2>2. phase' = "mounted"
    BY <1>0, <1>4 DEF mounted
  <2> QED BY <1>0, <1>2, <1>3, <2>1, <2>2, StartKeeps
<1>5. CASE ~mounted
  <2>1. UNCHANGED req /\ ~mounted'
    BY <1>0, <1>5 DEF loadBuilds, mounted
  <2>2. phase # "setup"
    BY <1>0, <1>1 DEF HistoryInv, SetupIsQuiet
  <2> QED BY <1>0, <1>2, <1>3, <2>1, <2>2
        DEF HistoryInv, OneCurrent, ListsBehind, SetupIsQuiet, OwnOnServer, OwnOnTheWay
<1> QED BY <1>4, <1>5

LEMMA ReplyFacts ==
    ASSUME HistoryTypeOK, NEW q \in Slots, req[q] # Free, NEW st \in {"listed", "error"}, NEW list \in Lists,
           req' = [req EXCEPT ![q] = Reply(q, st, list)]
    PROVE  /\ req' \in [Slots -> Request \cup {Free}]
           /\ req'[q] # Free /\ req'[q].current = req[q].current
           /\ req'[q].st = st /\ req'[q].list = list
           /\ \A p \in Slots : p # q => req'[p] = req[p]
<1>1. req \in [Slots -> Request \cup {Free}] /\ req[q] \in Request
    BY DEF HistoryTypeOK
<1>2. Reply(q, st, list) \in Request
    BY <1>1, RequestFields DEF Reply, Request
<1>3. Reply(q, st, list).current = req[q].current /\ Reply(q, st, list).st = st /\ Reply(q, st, list).list = list
    BY DEF Reply
<1> QED BY <1>1, <1>2, <1>3, FreeAssumption

LEMMA ServeKeeps == ASSUME HistoryInv, NEW q \in Slots, Serve(q) PROVE HistoryInv'
<1>0. /\ req[q] # Free /\ req' = [req EXCEPT ![q] = Reply(q, "listed", server)]
      /\ UNCHANGED <<server, phase, shown, loading, timer, returns, own, failed, fails>>
    BY DEF Serve
<1>1. HistoryTypeOK /\ server \in Lists
    BY DEF HistoryInv, HistoryTypeOK
<1>2. /\ req' \in [Slots -> Request \cup {Free}]
      /\ req'[q] # Free /\ req'[q].current = req[q].current
      /\ req'[q].st = "listed" /\ req'[q].list = server
      /\ \A p \in Slots : p # q => req'[p] = req[p]
    BY <1>0, <1>1, ReplyFacts
<1>3. HistoryTypeOK'
    BY <1>0, <1>1, <1>2 DEF HistoryTypeOK
<1>4. OneCurrent'
    BY <1>0, <1>2 DEF HistoryInv, OneCurrent
<1>5. ListsBehind'
  <2> SUFFICES ASSUME NEW b \in Builds, NEW p \in Slots
               PROVE  /\ Rank[shown[b]] <= Rank[server[b]]
                      /\ req'[p] # Free /\ req'[p].st = "listed" =>
                            /\ Rank[req'[p].list[b]] <= Rank[server[b]]
                            /\ req'[p].current => Rank[shown[b]] <= Rank[req'[p].list[b]]
    BY <1>0 DEF ListsBehind
  <2>1. Rank[shown[b]] <= Rank[server[b]]
    BY DEF HistoryInv, ListsBehind
  <2>2. Rank[server[b]] \in Nat
    BY <1>1, Ranks DEF Lists
  <2>3. CASE p = q
    BY <2>1, <2>2, <2>3, <1>2
  <2>4. CASE p # q
    BY <2>1, <2>4, <1>2 DEF HistoryInv, ListsBehind
  <2> QED BY <2>3, <2>4
<1>6. OwnOnTheWay'
  <2> SUFFICES ASSUME mounted
               PROVE  /\ \A p \in Slots : req'[p] # Free /\ req'[p].st = "listed" /\ req'[p].current =>
                            \A b \in own : req'[p].list[b] # "none"
                      /\ \/ failed
                         \/ \E p \in Slots : req'[p] # Free /\ req'[p].current
                         \/ \A b \in own : shown[b] # "none"
    BY <1>0 DEF OwnOnTheWay, mounted
  <2>1. \A b \in own : server[b] # "none"
    BY <1>1 DEF HistoryInv, OwnOnServer, HistoryTypeOK
  <2> QED BY <2>1, <1>0, <1>2 DEF HistoryInv, OwnOnTheWay
<1>7. SetupIsQuiet' /\ OwnOnServer'
    BY <1>0 DEF HistoryInv, SetupIsQuiet, OwnOnServer
<1> QED BY <1>3, <1>4, <1>5, <1>6, <1>7 DEF HistoryInv

LEMMA LoseKeeps == ASSUME HistoryInv, NEW q \in Slots, Lose(q) PROVE HistoryInv'
<1>0. /\ req[q] # Free /\ req' = [req EXCEPT ![q] = Reply(q, "error", NoList)]
      /\ fails < MaxFails /\ fails' = fails + 1
      /\ UNCHANGED <<server, phase, shown, loading, timer, returns, own, failed>>
    BY DEF Lose
<1>1. HistoryTypeOK /\ fails \in 0..MaxFails
    BY DEF HistoryInv, HistoryTypeOK
<1>2. /\ req' \in [Slots -> Request \cup {Free}]
      /\ req'[q] # Free /\ req'[q].current = req[q].current /\ req'[q].st = "error"
      /\ \A p \in Slots : p # q => req'[p] = req[p]
    BY <1>0, <1>1, ReplyFacts, NoListTyped
<1>3. HistoryTypeOK'
  <2>1. fails' \in 0..MaxFails
    BY <1>0, <1>1, BoundAssumption
  <2> QED BY <1>0, <1>1, <1>2, <2>1 DEF HistoryTypeOK
<1>4. OneCurrent'
    BY <1>0, <1>2 DEF HistoryInv, OneCurrent
<1>5. ListsBehind'
    BY <1>0, <1>2 DEF HistoryInv, ListsBehind
<1>6. OwnOnTheWay'
    BY <1>0, <1>2 DEF HistoryInv, OwnOnTheWay, mounted
<1>7. SetupIsQuiet' /\ OwnOnServer'
    BY <1>0 DEF HistoryInv, SetupIsQuiet, OwnOnServer
<1> QED BY <1>3, <1>4, <1>5, <1>6, <1>7 DEF HistoryInv

\* What a delivery shows: at least what was shown, at most the server's rows,
\* and in an open page every own build unless the load failed.
LEMMA DeliverShows ==
    ASSUME HistoryInv, NEW q \in Slots, Deliver(q)
    PROVE  /\ shown' \in Lists
           /\ \A b \in Builds : Rank[shown[b]] <= Rank[shown'[b]] /\ Rank[shown'[b]] <= Rank[server[b]]
           /\ (isCurrent(q) /\ ~failed') => \A b \in own : shown'[b] # "none"
           /\ ~isCurrent(q) => UNCHANGED <<shown, failed>>
<1>0. HistoryTypeOK /\ req[q] \in Request
    BY DEF HistoryInv, HistoryTypeOK, Deliver
<1>1. req[q].list \in Lists /\ req[q].st \in {"sent", "listed", "error"}
    BY <1>0, RequestFields
<1>2. CASE isCurrent(q) /\ req[q].st # "error"
  <2>1. shown' = req[q].list /\ req[q].st = "listed" /\ req[q] # Free /\ req[q].current /\ mounted
    BY <1>1, <1>2 DEF Deliver, isCurrent
  <2> QED BY <1>1, <1>2, <2>1 DEF HistoryInv, ListsBehind, OwnOnTheWay
<1>3. CASE ~(isCurrent(q) /\ req[q].st # "error")
  <2>1. shown' = shown /\ (isCurrent(q) => failed') /\ (~isCurrent(q) => failed' = failed)
    BY <1>3 DEF Deliver
  <2>2. \A b \in Builds : Rank[shown[b]] \in Nat
    BY <1>0, Ranks DEF HistoryTypeOK, Lists
  <2> QED BY <1>0, <2>1, <2>2 DEF HistoryInv, ListsBehind, HistoryTypeOK
<1> QED BY <1>2, <1>3

LEMMA DeliverKeeps == ASSUME HistoryInv, NEW q \in Slots, Deliver(q) PROVE HistoryInv'
<1>0. /\ req[q] # Free /\ req' = [req EXCEPT ![q] = Free]
      /\ UNCHANGED <<server, phase, returns, own, fails>>
    BY DEF Deliver
<1>1. HistoryTypeOK
    BY DEF HistoryInv
<1>2. /\ req' \in [Slots -> Request \cup {Free}]
      /\ req'[q] = Free /\ \A p \in Slots : p # q => req'[p] = req[p]
    BY <1>0, <1>1 DEF HistoryTypeOK
<1>3. loading' \in BOOLEAN /\ timer' \in BOOLEAN /\ failed' \in BOOLEAN
    BY <1>1 DEF Deliver, HistoryTypeOK, ensurePolling, hasActiveBuilds
<1>4. HistoryTypeOK'
    BY <1>0, <1>1, <1>2, <1>3, DeliverShows DEF HistoryTypeOK
<1>5. OneCurrent'
    BY <1>2 DEF HistoryInv, OneCurrent
<1>6. ListsBehind'
  <2> SUFFICES ASSUME NEW b \in Builds, NEW p \in Slots
               PROVE  /\ Rank[shown'[b]] <= Rank[server[b]]
                      /\ req'[p] # Free /\ req'[p].st = "listed" =>
                            /\ Rank[req'[p].list[b]] <= Rank[server[b]]
                            /\ req'[p].current => Rank[shown'[b]] <= Rank[req'[p].list[b]]
    BY <1>0 DEF ListsBehind
  <2>1. Rank[shown'[b]] <= Rank[server[b]]
    BY DeliverShows
  <2>2. CASE isCurrent(q)
    BY <2>1, <2>2, <1>0, <1>2 DEF HistoryInv, ListsBehind, OneCurrent, isCurrent
  <2>3. CASE ~isCurrent(q)
    BY <2>1, <2>3, <1>2, DeliverShows DEF HistoryInv, ListsBehind
  <2> QED BY <2>2, <2>3
<1>7. OwnOnTheWay'
  <2> SUFFICES ASSUME mounted
               PROVE  /\ \A p \in Slots : req'[p] # Free /\ req'[p].st = "listed" /\ req'[p].current =>
                            \A b \in own : req'[p].list[b] # "none"
                      /\ \/ failed'
                         \/ \E p \in Slots : req'[p] # Free /\ req'[p].current
                         \/ \A b \in own : shown'[b] # "none"
    BY <1>0 DEF OwnOnTheWay, mounted
  <2>1. \A p \in Slots : req'[p] # Free /\ req'[p].st = "listed" /\ req'[p].current =>
            \A b \in own : req'[p].list[b] # "none"
    BY <1>2 DEF HistoryInv, OwnOnTheWay
  <2>2. CASE isCurrent(q)
    BY <2>1, <2>2, DeliverShows
  <2>3. CASE ~isCurrent(q)
    BY <2>1, <2>3, <1>2, DeliverShows DEF HistoryInv, OwnOnTheWay, isCurrent
  <2> QED BY <2>2, <2>3
<1>8. SetupIsQuiet' /\ OwnOnServer'
    BY <1>0, <1>2 DEF HistoryInv, SetupIsQuiet, OwnOnServer
<1> QED BY <1>4, <1>5, <1>6, <1>7, <1>8 DEF HistoryInv

LEMMA UnmountKeeps == ASSUME HistoryInv, Unmount PROVE HistoryInv'
<1> QED BY DEF Unmount, HistoryInv, HistoryTypeOK, OneCurrent, ListsBehind, SetupIsQuiet,
               OwnOnServer, OwnOnTheWay, mounted

\* Steps of the server only move rows forward.
LEMMA ServerKeeps ==
    ASSUME HistoryInv, NEW b \in Builds, NEW here \in BOOLEAN,
           ServerCreates(b, here) \/ ServerDeletes(b, here) \/ ServerEnds(b)
    PROVE  HistoryInv'
<1>0. UNCHANGED <<phase, req, shown, loading, timer, own, failed, fails>>
    BY DEF ServerCreates, ServerDeletes, ServerEnds
<1>1. HistoryTypeOK /\ server \in Lists /\ returns \in [Builds -> 0..MaxReturns]
    BY DEF HistoryInv, HistoryTypeOK
<1>2. /\ server' \in Lists /\ server'[b] # "none" /\ Rank[server[b]] <= Rank[server'[b]]
      /\ \A c \in Builds : c # b => server'[c] = server[c]
    BY <1>1, Ranks DEF ServerCreates, ServerDeletes, ServerEnds, Lists, RowStates
<1>3. /\ returns' \in [Builds -> 0..MaxReturns]
      /\ \A c \in Builds : c # b => returns'[c] = returns[c]
      /\ returns' # returns => mounted
    BY <1>1, ReturnsBounded DEF ServerCreates, ServerDeletes, ServerEnds
<1>4. HistoryTypeOK'
    BY <1>0, <1>1, <1>2, <1>3 DEF HistoryTypeOK
<1>5. ListsBehind'
  <2>1. \A c \in Builds : Rank[server[c]] <= Rank[server'[c]]
    BY <1>1, <1>2, Ranks DEF Lists
  <2>2. \A c \in Builds : Rank[server[c]] \in Nat /\ Rank[server'[c]] \in Nat /\ Rank[shown[c]] \in Nat
    BY <1>1, <1>2, Ranks DEF Lists, HistoryTypeOK
  <2>3. \A c \in Builds, p \in Slots : req[p] # Free => Rank[req[p].list[c]] \in Nat
    BY <1>1, RequestFields, Ranks DEF Lists, HistoryTypeOK
  <2> QED BY <1>0, <2>1, <2>2, <2>3 DEF HistoryInv, ListsBehind
<1>6. OwnOnServer'
    BY <1>0, <1>1, <1>2, <1>3 DEF HistoryInv, OwnOnServer
<1>7. SetupIsQuiet'
    BY <1>0, <1>3 DEF HistoryInv, SetupIsQuiet, mounted
<1>8. OneCurrent' /\ OwnOnTheWay'
    BY <1>0 DEF HistoryInv, OneCurrent, OwnOnTheWay, mounted
<1> QED BY <1>4, <1>5, <1>6, <1>7, <1>8 DEF HistoryInv

LEMMA HistoryStep == HistoryInv /\ [HistoryNext]_historyVars => HistoryInv'
<1> SUFFICES ASSUME HistoryInv, [HistoryNext]_historyVars PROVE HistoryInv'
    OBVIOUS
<1>1. CASE Mount \/ Unmount \/ Tick
    BY <1>1, MountKeeps, UnmountKeeps, TickKeeps
<1>2. ASSUME NEW q \in Slots, Serve(q) \/ Lose(q) \/ Deliver(q) PROVE HistoryInv'
    BY <1>2, ServeKeeps, LoseKeeps, DeliverKeeps
<1>3. ASSUME NEW b \in Builds, NEW here \in BOOLEAN,
             ServerCreates(b, here) \/ ServerDeletes(b, here) \/ ServerEnds(b) \/ Returns(b)
      PROVE  HistoryInv'
    BY <1>3, ServerKeeps, ReturnsKeeps
<1>4. CASE UNCHANGED historyVars
    BY <1>4 DEF historyVars, HistoryInv, HistoryTypeOK, OneCurrent, ListsBehind, SetupIsQuiet,
                OwnOnServer, OwnOnTheWay, mounted
<1>5. \A b \in Builds : ServerEnds(b) \/ Returns(b) => HistoryInv'
    BY <1>3
<1> QED BY <1>1, <1>2, <1>3, <1>4, <1>5 DEF HistoryNext

LEMMA ShownForward ==
    ASSUME HistoryInv, [HistoryNext]_historyVars
    PROVE  \A b \in Builds : Rank[shown[b]] <= Rank[shown'[b]]
<1>1. ASSUME NEW q \in Slots, Deliver(q) PROVE \A b \in Builds : Rank[shown[b]] <= Rank[shown'[b]]
    BY <1>1, DeliverShows
<1>2. CASE UNCHANGED shown
  <2>1. \A b \in Builds : Rank[shown[b]] \in Nat
    BY Ranks DEF HistoryInv, HistoryTypeOK, Lists
  <2> QED BY <1>2, <2>1
<1>3. UNCHANGED shown \/ \E q \in Slots : Deliver(q)
    BY DEF HistoryNext, historyVars, Mount, Unmount, Tick, Serve, Lose, ServerCreates, ServerDeletes,
           ServerEnds, Returns
<1> QED BY <1>1, <1>2, <1>3

LEMMA HistoryInvariant == HistorySpec => []HistoryInv
<1> QED BY HistoryInitial, HistoryStep, PTL DEF HistorySpec

\* The history catches up with every create and delete the page saw succeed:
\* loadBuilds drops answers of older generations, and the generation Returns
\* starts is listed by the server after the row was written.
THEOREM OwnBuildsAreShown == HistorySpec => []OwnBuildsShown
<1>1. HistoryInv => OwnBuildsShown
    BY DEF HistoryInv, OwnOnTheWay, OwnBuildsShown, Settled, isCurrent
<1> QED BY <1>1, HistoryInvariant, PTL

\* However many loads overlap and whatever order their answers arrive in, the
\* page never goes back to an older state of a build.
THEOREM HistoryNeverGoesBack == HistorySpec => HistoryMovesForward
<1>1. HistoryInv /\ [HistoryNext]_historyVars
        => [\A b \in Builds : Rank[shown[b]] <= Rank[shown'[b]]]_historyVars
    BY ShownForward
<1> QED BY <1>1, HistoryInvariant, PTL DEF HistorySpec, HistoryMovesForward

-----------------------------------------------------------------------------
(* The page *)

\* The page runs its history and its form, so what is proved of them above
\* holds of the page.
LEMMA PageRunsBoth == FairSpec => HistorySpec /\ FormSpec
<1>1. Init => HistoryInit /\ FormInit
    BY DEF Init
<1>2. [Next]_vars => [HistoryNext]_historyVars /\ [FormNext]_formVars
    BY DEF Next, vars
<1> QED BY <1>1, <1>2, PTL DEF FairSpec, HistorySpec, FormSpec

\* Every value of the page's state is one its code expects.
THEOREM PageTypeCorrect == FairSpec => []TypeOK
<1>1. HistoryInv /\ FormInv => TypeOK
    BY DEF HistoryInv, FormInv, TypeOK
<1> QED BY <1>1, PageRunsBoth, HistoryInvariant, FormInvariant, PTL
=============================================================================
