---------------------------- MODULE SettingsFile ----------------------------
(***************************************************************************)
(* Handlers that change the shared configuration file: each reads the file *)
(* whole, changes its own entry, and replaces the file by a temporary one  *)
(* (config_io.rs).  Most do so under AppState::settings_lock; some do not  *)
(* (BareSavers: hailo_tagger's config_update, the settings page, the       *)
(* bridges).  A configuration is the set of changes it contains, one for   *)
(* each handler; TOML and JSON, and what an entry holds, are left out.     *)
(***************************************************************************)
EXTENDS Naturals

CONSTANTS
    Savers,             \* the handlers, one request each
    BareSavers,         \* those that do not take the lock
    NoSaver,
    SettingsCrashBound  \* bound: how often the server goes

ASSUME SettingsFileAssumption ==
    BareSavers \subseteq Savers /\ NoSaver \notin Savers /\ SettingsCrashBound \in Nat

VARIABLES
    settingsFile,       \* the changes the file contains
    settingsLock,       \* the handler that holds settings_lock
    saverAt,            \* where each handler is
    copyOf,             \* the configuration it has read
    acknowledged,       \* the changes that were answered as saved
    settingsCrashes

settingsVars ==
    <<settingsFile, settingsLock, saverAt, copyOf, acknowledged, settingsCrashes>>

SettingsTypeOK ==
    /\ settingsFile \subseteq Savers /\ acknowledged \subseteq Savers
    /\ settingsLock \in Savers \cup {NoSaver}
    /\ saverAt \in [Savers -> {"new", "await", "load", "write", "saved", "failed", "done"}]
    /\ copyOf \in [Savers -> SUBSET Savers]
    /\ settingsCrashes \in 0 .. SettingsCrashBound

SettingsInit ==
    /\ settingsFile = {} /\ settingsLock = NoSaver
    /\ saverAt = [w \in Savers |-> "new"] /\ copyOf = [w \in Savers |-> {}]
    /\ acknowledged = {} /\ settingsCrashes = 0

SaverGoes(w, from, to) == saverAt[w] = from /\ saverAt' = [saverAt EXCEPT ![w] = to]

\* The request has been validated; the lock is asked for, or not.
BeginSave(w) ==
    /\ SaverGoes(w, "new", IF w \in BareSavers THEN "load" ELSE "await")
    /\ UNCHANGED <<settingsFile, settingsLock, copyOf, acknowledged, settingsCrashes>>

TakeSettingsLock(w) ==
    /\ SaverGoes(w, "await", "load")
    /\ settingsLock = NoSaver /\ settingsLock' = w
    /\ UNCHANGED <<settingsFile, copyOf, acknowledged, settingsCrashes>>

\* The client goes while its handler waits for the lock.
DropSaver(w) ==
    /\ SaverGoes(w, "await", "done")
    /\ UNCHANGED <<settingsFile, settingsLock, copyOf, acknowledged, settingsCrashes>>

\* The file is read; the change may turn out to be refused (a duplicate path, an
\* unknown id).
LoadSettings(w) ==
    /\ \/ SaverGoes(w, "load", "write") /\ copyOf' = [copyOf EXCEPT ![w] = settingsFile]
       \/ SaverGoes(w, "load", "failed") /\ UNCHANGED copyOf
    /\ UNCHANGED <<settingsFile, settingsLock, acknowledged, settingsCrashes>>

\* write: the temporary file is renamed over the configuration, or the write fails
\* and the configuration stays as it is.
ReplaceSettings(w) ==
    /\ \/ SaverGoes(w, "write", "saved") /\ settingsFile' = copyOf[w] \cup {w}
       \/ SaverGoes(w, "write", "failed") /\ UNCHANGED settingsFile
    /\ UNCHANGED <<settingsLock, copyOf, acknowledged, settingsCrashes>>

\* The guard is dropped with the handler's return.
AnswerSave(w) ==
    /\ saverAt[w] \in {"saved", "failed"}
    /\ saverAt' = [saverAt EXCEPT ![w] = "done"]
    /\ acknowledged' = acknowledged \cup (IF saverAt[w] = "saved" THEN {w} ELSE {})
    /\ settingsLock' = IF settingsLock = w THEN NoSaver ELSE settingsLock
    /\ UNCHANGED <<settingsFile, copyOf, settingsCrashes>>

\* The file survives; the handlers do not, nor does the lock.
SettingsCrash ==
    /\ settingsCrashes < SettingsCrashBound /\ settingsCrashes' = settingsCrashes + 1
    /\ saverAt' = [w \in Savers |-> IF saverAt[w] = "new" THEN "new" ELSE "done"]
    /\ settingsLock' = NoSaver
    /\ UNCHANGED <<settingsFile, copyOf, acknowledged>>

SaverStep(w) ==
    \/ BeginSave(w) \/ TakeSettingsLock(w) \/ DropSaver(w)
    \/ LoadSettings(w) \/ ReplaceSettings(w) \/ AnswerSave(w)

SettingsNext == SettingsCrash \/ \E w \in Savers : SaverStep(w)

SettingsSpec == SettingsInit /\ [][SettingsNext]_settingsVars

----------------------------------------------------------------------------
\* A change that was answered as saved is in the file, whoever saves after it, and
\* after a crash (config_io::write replaces the file whole; the lock is what keeps a
\* handler from writing back a configuration it read before another's change).
AcknowledgedIsKept == acknowledged \subseteq settingsFile
=============================================================================
