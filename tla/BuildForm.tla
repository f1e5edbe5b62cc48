------------------------------ MODULE BuildForm ------------------------------
(***************************************************************************)
(* The build form of the administration page                               *)
(* (admin-ui/src/views/custom-client/index.vue): edits, presets, server    *)
(* defaults, image uploads, and the answers to a create or a preset save   *)
(* that arrive while the user goes on editing.                             *)
(*                                                                         *)
(* Five fields stand for the kinds of field the code tells apart: two that *)
(* decide what is required, the approve mode that hide_cm constrains, one  *)
(* with a server default and one filled by an upload.                      *)
(***************************************************************************)
EXTENDS Naturals

CONSTANTS Presets,      \* saved presets
          PresetConfig, \* the fields each preset stores
          Unreadable,   \* the presets whose custom_json does not parse
          Uploads,      \* uploads; each yields a link of its own
          None,
          MaxEdits      \* bounds what the user does to the form

Fields == {"platform", "hide_cm", "pass_approve_mode", "server_ip", "app_logo_url"}

\* The values a user can enter, and the ones the page can hold.
Typed == [platform |-> {"", "windows", "linux"}, hide_cm |-> {"off", "on"},
          pass_approve_mode |-> {"password-click", "password"},
          server_ip |-> {"", "host"}, app_logo_url |-> {"", "link"}]

Values == {"", "windows", "linux", "off", "on", "password-click", "password",
           "host", "default", "link"} \cup Uploads

FORM_DEFAULTS == [platform |-> "", hide_cm |-> "off", pass_approve_mode |-> "password-click",
                  server_ip |-> "", app_logo_url |-> ""]

UploadFields == {"app_logo_url"}

DefaultFields == {"server_ip"}

Calls == {"create", "save"}

Snapshot == [preset : Presets \cup {None}, values : [Fields -> Values]]

ASSUME PresetAssumption ==
    /\ None \notin Presets \cup Values \cup Snapshot
    /\ Unreadable \subseteq Presets
    /\ \A p \in Presets : /\ DOMAIN PresetConfig[p] \subseteq Fields
                          /\ \A f \in DOMAIN PresetConfig[p] : PresetConfig[p][f] \in Values
ASSUME EditAssumption == MaxEdits \in Nat

VARIABLES form,       \* form
          preset,     \* selectedPresetId
          explicit,   \* explicitPresetFields
          defaults,   \* serverConfigDefaults, "" until loadConfig is answered
          config,     \* loadConfig is waiting for its answer
          versions,   \* versionsState
          err,        \* serverFieldErrors: the value the field had at that time
          call,       \* the create and the save in flight, as they were sent
          upload,     \* uploads: "idle", "sent" or "over"
          edited,     \* fields changed since the preset was loaded
          edits

formVars == <<form, preset, explicit, defaults, config, versions, err, call, upload,
          edited, edits>>

requests == <<defaults, config, versions>>

FormTypeOK ==
    /\ form \in [Fields -> Values]
    /\ preset \in Presets \cup {None}
    /\ explicit \in SUBSET Fields
    /\ defaults \in {"", "default"}
    /\ config \in BOOLEAN
    /\ versions \in {"loading", "ready", "empty", "error"}
    /\ err \in [Fields -> Values \cup {None}]
    /\ call \in [Calls -> Snapshot \cup {None}]
    /\ upload \in [Uploads -> {"idle", "sent", "over"}]
    /\ edited \in SUBSET Fields
    /\ edits \in 0..MaxEdits

NoErrors == [f \in Fields |-> None]

FormInit ==
    /\ form = FORM_DEFAULTS /\ preset = None /\ explicit = {}
    /\ defaults = "" /\ config = TRUE /\ versions = "loading"
    /\ err = NoErrors
    /\ call = [c \in Calls |-> None]
    /\ upload = [u \in Uploads |-> "idle"]
    /\ edited = {} /\ edits = 0

-----------------------------------------------------------------------------
UserActs == edits < MaxEdits /\ edits' = edits + 1

hideCmApproveModeConflict(values) ==
    values["hide_cm"] = "on" /\ values["pass_approve_mode"] # "password"

\* Of the five fields; hide_cm requires the permanent password, not one of them.
requiredFieldSet ==
    {"platform"} \cup (IF form["platform"] = "windows" THEN {"server_ip"} ELSE {})

\* surfacePassApproveModeIncompatibility
Surfaced(errors, values) ==
    IF hideCmApproveModeConflict(values)
    THEN [errors EXCEPT !["pass_approve_mode"] = values["pass_approve_mode"]]
    ELSE errors

\* onPlatformChange drops every error; the other handlers clear their own, and
\* the one of hide_cm that of the approve mode.
clearFieldError(errors, f) ==
    [g \in Fields |-> IF f \in {"platform", g} \/ (f = "hide_cm" /\ g = "pass_approve_mode")
                      THEN None ELSE errors[g]]

\* The user changes a field, by typing, the local address picker or the server
\* key button: the value, the field's error and its change handler.
Edit(f, v) ==
    /\ UserActs
    /\ v \in Typed[f] /\ v # form[f]
    /\ form' = [form EXCEPT ![f] = v]
    /\ err' = IF f \in {"hide_cm", "pass_approve_mode"}
              THEN Surfaced(clearFieldError(err, f), form')
              ELSE clearFieldError(err, f)
    /\ edited' = edited \cup {f}
    /\ UNCHANGED <<preset, explicit, call, upload, requests>>

\* What resetFormFields does besides the form: errors are dropped, uploads in
\* flight are not told.
ReplacesForm ==
    /\ err' = NoErrors
    /\ edited' = {}
    /\ UNCHANGED upload

resetForm ==
    /\ form' = FORM_DEFAULTS
    /\ preset' = None
    /\ explicit' = {}
    /\ ReplacesForm

Reset ==
    /\ UserActs
    /\ resetForm
    /\ UNCHANGED <<call, requests>>

BugDefaultsWin(values, fields, value) ==
    [f \in Fields |-> IF f \in DefaultFields /\ values[f] = "" THEN value ELSE values[f]]

\* applyServerConfigDefaults
applyServerConfigDefaults(values, fields, value) ==
    [f \in Fields |-> IF f \in DefaultFields /\ f \notin fields /\ values[f] = ""
                      THEN value ELSE values[f]]

\* loadPresetIntoForm of a preset that parses.
Loads(p) ==
    /\ LET stored == DOMAIN PresetConfig[p]
           loaded == [f \in Fields |-> IF f \in stored THEN PresetConfig[p][f] ELSE FORM_DEFAULTS[f]]
       IN /\ explicit' = stored
          /\ form' = applyServerConfigDefaults(loaded, stored, defaults)
    /\ ReplacesForm

\* The select binds selectedPresetId, then onPresetSelect loads the preset.  A
\* preset that does not parse stays selected over the form that was there.
PresetSelect(p) ==
    /\ UserActs
    /\ preset' = p
    /\ IF p \in Unreadable THEN UNCHANGED <<form, explicit, err, edited, upload>> ELSE Loads(p)
    /\ UNCHANGED <<call, requests>>

\* deletePreset: the selection is dropped, the form stays.
PresetDeleted ==
    /\ preset # None
    /\ preset' = None
    /\ UNCHANGED <<form, explicit, err, call, upload, edited, edits, requests>>

\* loadConfig is answered; a failed request changes nothing.
ConfigArrives(ok) ==
    /\ config
    /\ config' = FALSE
    /\ defaults' = IF ok THEN "default" ELSE defaults
    /\ form' = IF ok THEN applyServerConfigDefaults(form, explicit, "default") ELSE form
    /\ UNCHANGED <<preset, explicit, versions, err, call, upload, edited, edits>>

\* loadVersions is answered.
VersionsArrive(state) ==
    /\ versions = "loading"
    /\ versions' = state
    /\ UNCHANGED <<form, preset, explicit, defaults, config, err, call, upload, edited, edits>>

-----------------------------------------------------------------------------
snapshotSubmittedFields == [preset |-> preset, values |-> form]

submittedRequirementInputsMatch(s) ==
    s.values["platform"] = form["platform"] /\ s.values["hide_cm"] = form["hide_cm"]

BugIgnoresPreset(s) ==
    submittedRequirementInputsMatch(s) /\ \A f \in Fields : s.values[f] = form[f]

isSubmittedSnapshotCurrent(s) ==
    /\ submittedRequirementInputsMatch(s)
    /\ s.preset = preset
    /\ \A f \in Fields : s.values[f] = form[f]

activeUploadErrors == {f \in UploadFields : err[f] # None}

\* validateBuildForm accepts the form.  Its validation only awaits promises
\* that are settled, so no other handler runs before the request is sent.
Validated ==
    /\ ~hideCmApproveModeConflict(form)
    /\ activeUploadErrors = {}
    /\ \A f \in requiredFieldSet : form[f] # ""

submitting == call["create"] # None

\* submitBuild: the button is disabled without a version list and while a
\* create is in flight.
Submit ==
    /\ ~submitting
    /\ versions = "ready"
    /\ Validated
    /\ err' = NoErrors
    /\ call' = [call EXCEPT !["create"] = snapshotSubmittedFields]
    /\ UNCHANGED <<form, preset, explicit, upload, edited, edits, requests>>

\* submitBuild that validateBuildForm stops: an incompatibility is surfaced, or
\* the errors are wiped except those of uploads.
SubmitBlocked ==
    /\ ~submitting
    /\ versions = "ready"
    /\ ~Validated
    /\ err' = IF hideCmApproveModeConflict(form) THEN Surfaced(err, form)
              ELSE [f \in Fields |-> IF f \in activeUploadErrors THEN err[f] ELSE None]
    /\ UNCHANGED <<form, preset, explicit, call, upload, edited, edits, requests>>

\* saveCurrentAsPreset once its prompt is answered: no validation of the form.
Save ==
    /\ call["save"] = None
    /\ call' = [call EXCEPT !["save"] = snapshotSubmittedFields]
    /\ UNCHANGED <<form, preset, explicit, err, upload, edited, edits, requests>>

\* submitBuild after a successful create: the form is cleared only while it is
\* what was submitted.
Created ==
    /\ submitting
    /\ call' = [call EXCEPT !["create"] = None]
    /\ IF isSubmittedSnapshotCurrent(call["create"])
       THEN resetForm
       ELSE UNCHANGED <<form, preset, explicit, err, upload, edited>>
    /\ UNCHANGED <<edits, requests>>

Saved ==
    /\ call["save"] # None
    /\ call' = [call EXCEPT !["save"] = None]
    /\ UNCHANGED <<form, preset, explicit, err, upload, edited, edits, requests>>

BugAppliesStale(s, fields) ==
    IF submittedRequirementInputsMatch(s)
    THEN [f \in Fields |-> IF f \in fields THEN s.values[f] ELSE err[f]]
    ELSE err

\* applyServerFieldErrors: a changed requirement input drops the whole answer,
\* a changed field its own error.
applyServerFieldErrors(s, fields) ==
    IF submittedRequirementInputsMatch(s)
    THEN [f \in Fields |-> IF f \in fields /\ s.values[f] = form[f] THEN form[f] ELSE err[f]]
    ELSE err

\* reportCreateBuildFailure; a transport failure names no field.
Rejected(c, fields) ==
    /\ call[c] # None
    /\ call' = [call EXCEPT ![c] = None]
    /\ err' = applyServerFieldErrors(call[c], fields)
    /\ UNCHANGED <<form, preset, explicit, upload, edited, edits, requests>>

\* uploadImage up to its request.
Upload(u, f) ==
    /\ UserActs
    /\ upload[u] = "idle"
    /\ upload' = [upload EXCEPT ![u] = "sent"]
    /\ err' = clearFieldError(err, f)
    /\ UNCHANGED <<form, preset, explicit, call, edited, requests>>

\* uploadImage refuses a file before sending it.
UploadRefused(f) ==
    /\ UserActs
    /\ err' = [err EXCEPT ![f] = form[f]]
    /\ UNCHANGED <<form, preset, explicit, call, upload, edited, requests>>

\* uploadImage after its await: the link enters the form, or the failure
\* becomes the field's error.
Uploaded(u, f) ==
    /\ upload[u] = "sent"
    /\ form' = [form EXCEPT ![f] = u]
    /\ edited' = edited \cup {f}
    /\ upload' = [upload EXCEPT ![u] = "over"]
    /\ UNCHANGED <<preset, explicit, err, call, edits, requests>>

UploadFails(u, f) ==
    /\ upload[u] = "sent"
    /\ err' = [err EXCEPT ![f] = form[f]]
    /\ upload' = [upload EXCEPT ![u] = "over"]
    /\ UNCHANGED <<form, preset, explicit, call, edited, edits, requests>>

FormNext ==
    \/ \E f \in Fields : \E v \in Typed[f] : Edit(f, v)
    \/ Reset \/ PresetDeleted
    \/ \E p \in Presets : PresetSelect(p)
    \/ \E ok \in BOOLEAN : ConfigArrives(ok)
    \/ \E state \in {"ready", "empty", "error"} : VersionsArrive(state)
    \/ Submit \/ SubmitBlocked \/ Save \/ Created \/ Saved
    \/ \E c \in Calls, fields \in SUBSET Fields : Rejected(c, fields)
    \/ \E f \in UploadFields :
        \/ UploadRefused(f)
        \/ \E u \in Uploads : Upload(u, f) \/ Uploaded(u, f) \/ UploadFails(u, f)

FormSpec == FormInit /\ [][FormNext]_formVars

-----------------------------------------------------------------------------
\* Whatever answers arrive late, an error shown at a field that only the user
\* and presets fill is about the value the field shows (clearFieldError,
\* applyServerFieldErrors, loadPresetIntoForm).
ErrorsMatchForm ==
    \A f \in Fields \ (UploadFields \cup DefaultFields) : err[f] # None => err[f] = form[f]

\* A field the selected preset stores keeps the stored value until something
\* changes that field: late server defaults do not (applyServerConfigDefaults).
\* A preset that does not parse is selected without being loaded.
PresetValuesKept ==
    preset \in Presets \ Unreadable =>
        \A f \in DOMAIN PresetConfig[preset] \ edited : form[f] = PresetConfig[preset][f]

\* An answer to a create clears nothing the user has not submitted: the form
\* and the selection are kept, or they were exactly what was sent (submitBuild).
UnsentEditsKept ==
    [][submitting /\ call'["create"] = None =>
        \/ UNCHANGED <<form, preset>>
        \/ call["create"] = [preset |-> preset, values |-> form]]_formVars
=============================================================================
