----------------------------- MODULE SettingsForm -----------------------------
(***************************************************************************)
(* The tab for the global settings: the configuration is loaded into a form *)
(* that is saved as a whole.  The form can be changed while it is being     *)
(* saved, and the timeout that takes "Settings Saved!" away is never        *)
(* cleared.                                                                 *)
(*                                                                         *)
(* A configuration has an hourly rate, which may be 0, and a closing time,  *)
(* which stands for both times.                                             *)
(***************************************************************************)
EXTENDS Naturals

CONSTANTS
    Rates,      \* hourly rates
    Times,
    Blank,      \* an empty input
    FirstTime,  \* the closing time at first; the rate is 0
    MaxTimeouts \* bound: timeouts that have not fired

VARIABLES
    saved,      \* the backend's configuration
    config,     \* the form
    formView,   \* "loading" or "shown"
    saving,     \* the request under way and whether it is applied
    saveStatus, \* "none", "success" or "error"
    timeouts,   \* timeouts that have not fired
    drifted     \* history: since the form was last sent it has been changed
                \* before the answer came, or another admin has saved

settingsVars == <<saved, config, formView, saving, saveStatus, timeouts, drifted>>

ASSUME SettingsAssumption ==
    /\ Rates \subseteq Nat /\ 0 \in Rates
    /\ Blank \notin Rates \cup Times /\ FirstTime \in Times

Config == [rate : Rates, close : Times]
Form == [rate : Rates \cup {Blank}, close : Times \cup {Blank}]
NotSaving == [st |-> "none", form |-> [rate |-> Blank, close |-> Blank]]
isSaving == saving # NotSaving

SettingsTypeOK ==
    /\ saved \in Config
    /\ config \in Form
    /\ formView \in {"loading", "shown"}
    /\ saving \in [st : {"sent", "applied"}, form : Config] \cup {NotSaving}
    /\ saveStatus \in {"none", "success", "error"}
    /\ timeouts \in Nat
    /\ drifted \in BOOLEAN

SettingsInit ==
    /\ saved = [rate |-> 0, close |-> FirstTime]
    /\ config = [rate |-> Blank, close |-> Blank]
    /\ formView = "loading"
    /\ saving = NotSaving
    /\ saveStatus = "none"
    /\ timeouts = 0
    /\ drifted = FALSE

------------------------------------------------------------------------------
\* data.hourlyRate || '': a rate of 0 is loaded as an empty input.
Loaded(c) == [c EXCEPT !.rate = IF @ = 0 THEN Blank ELSE @]

FetchConfig ==
    /\ formView = "loading" /\ formView' = "shown"
    /\ config' = Loaded(saved) \/ UNCHANGED config
    /\ UNCHANGED <<saved, saving, saveStatus, timeouts, drifted>>

HandleChangeKeeping ==   \* a bug: the status of the last save stays
    /\ formView = "shown"
    /\ config' \in {[config EXCEPT !.rate = r] : r \in Rates \cup {Blank}}
                     \cup {[config EXCEPT !.close = c] : c \in Times \cup {Blank}}
    /\ config' # config
    /\ drifted' = (drifted \/ isSaving)
    /\ UNCHANGED <<saved, formView, saving, saveStatus, timeouts>>

HandleChange ==
    /\ formView = "shown"
    /\ config' \in {[config EXCEPT !.rate = r] : r \in Rates \cup {Blank}}
                     \cup {[config EXCEPT !.close = c] : c \in Times \cup {Blank}}
    /\ config' # config
    /\ saveStatus' = "none"
    /\ drifted' = (drifted \/ isSaving)
    /\ UNCHANGED <<saved, formView, saving, timeouts>>

\* The inputs are required, and the button is disabled during a save.
HandleSave ==
    /\ formView = "shown" /\ ~isSaving
    /\ config \in Config
    /\ saving' = [st |-> "sent", form |-> config]
    /\ saveStatus' = "none"
    /\ drifted' = FALSE
    /\ UNCHANGED <<saved, config, formView, timeouts>>

ApplySave ==
    /\ saving.st = "sent"
    /\ saved' = saving.form
    /\ saving' = [saving EXCEPT !.st = "applied"]
    /\ UNCHANGED <<config, formView, saveStatus, timeouts, drifted>>

SaveSucceeds ==
    /\ saving.st = "applied" /\ timeouts < MaxTimeouts
    /\ saveStatus' = "success"
    /\ timeouts' = timeouts + 1
    /\ saving' = NotSaving
    /\ UNCHANGED <<saved, config, formView, drifted>>

\* An error, or no answer, after which the settings may have been saved or not.
SaveFails ==
    /\ isSaving
    /\ saveStatus' = "error"
    /\ saving' = NotSaving
    /\ UNCHANGED <<saved, config, formView, timeouts, drifted>>

\* setTimeout(() => setSaveStatus(null), 3000): whatever the status is by then.
ClearStatus ==
    /\ timeouts > 0
    /\ timeouts' = timeouts - 1
    /\ saveStatus' = "none"
    /\ UNCHANGED <<saved, config, formView, saving, drifted>>

OthersSave(c) ==
    /\ saved # c
    /\ saved' = c
    /\ drifted' = TRUE
    /\ UNCHANGED <<config, formView, saving, saveStatus, timeouts>>

SettingsNext ==
    \/ FetchConfig \/ HandleChange \/ HandleSave \/ ApplySave
    \/ SaveSucceeds \/ SaveFails \/ ClearStatus
    \/ \E c \in Config : OthersSave(c)

SettingsSpec == SettingsInit /\ [][SettingsNext]_settingsVars

------------------------------------------------------------------------------
(* Properties. *)

\* "Settings Saved!" is said of the form that is on the page: the backend has
\* just that.  Only a change made while the form was being saved, or another
\* admin, makes it untrue; no order of late timeouts and answers does.
SavedIsTheForm ==
    saveStatus = "success" /\ ~drifted => saved = config

==============================================================================
