--------------------------- MODULE StorageSettings ---------------------------
(***************************************************************************)
(* Storage presets and their immutable configuration revisions: the rows   *)
(* of storage_presets and storage_configs, and the snapshots of them the   *)
(* process keeps in memory and serves uploads from (app/runtime.py).       *)
(*                                                                         *)
(* The settings routes run on one event loop.  A transaction and the       *)
(* memory update behind it are one step; testing a candidate's connection  *)
(* lets other requests in, so creating a preset and saving a configuration *)
(* are two.  Presets are never deleted.                                    *)
(*                                                                         *)
(* Left out: names, credentials, forms, and state_revision, by which an    *)
(* administrator's outdated request is refused as a whole.                 *)
(***************************************************************************)
EXTENDS Naturals, FiniteSets

CONSTANTS
  Preset,       \* preset keys
  DefaultKey,   \* the key "default" of the preset the alias route creates
  None,         \* no preset
  Saver,        \* slots for concurrent requests that create or save
  MaxRevision,  \* bound on the revisions of a preset
  AliasRoute,   \* is PUT /v1/settings/storage used once there are presets?
  LoadMayFail   \* may re-reading the presets fail after a commit?

ASSUME SettingsAssumption ==
  /\ DefaultKey \in Preset
  /\ None \notin Preset
  /\ MaxRevision \in Nat \ {0}
  /\ AliasRoute \in BOOLEAN
  /\ LoadMayFail \in BOOLEAN

VARIABLES
  presets,    \* the storage_presets table
  configs,    \* the storage_configs table, active and inactive rows
  active,     \* the revision of each preset's active row, 0 if there is none
  installed,  \* _snapshots_by_key: the revision served for each preset
  default,    \* _default_preset_key
  saver       \* requests that wait for a connection test

settingsVars == <<presets, configs, active, installed, default, saver>>

-----------------------------------------------------------------------------
PresetRow == [exists : BOOLEAN, enabled : BOOLEAN, is_default : BOOLEAN]
NoPreset == [exists |-> FALSE, enabled |-> FALSE, is_default |-> FALSE]
NewPreset(is_default) ==
  [exists |-> TRUE, enabled |-> TRUE, is_default |-> is_default]

Revision == 0..MaxRevision

\* basis: the configuration the new one was edited from, whose revision the
\* administrator sent along and whose credentials were taken over.
Config == [preset : Preset, revision : Revision \ {0},
           basis : (Preset \X Revision) \union {None}]

\* What a request carries across its connection test: the candidate, reduced to
\* the configuration whose credentials it took over.
NotSaving == [op |-> "idle"]
Saving == [op : {"create", "activate"}, key : Preset \union {None},
           expected : Revision, basis : (Preset \X Revision) \union {None}]

SettingsTypeOK ==
  /\ presets \in [Preset -> PresetRow]
  /\ configs \subseteq Config
  /\ active \in [Preset -> Revision]
  /\ installed \in [Preset -> Revision]
  /\ default \in Preset \union {None}
  /\ saver \in [Saver -> {NotSaving} \union Saving]

Existing == {p \in Preset : presets[p].exists}
Defaults(table) == {p \in Preset : table[p].is_default}

\* The row a query with is_default=1 returns.
DefaultOf(table) ==
  IF Defaults(table) = {} THEN None ELSE CHOOSE p \in Defaults(table) : TRUE

InDatabase(c) == \E x \in configs : <<x.preset, x.revision>> = c

-----------------------------------------------------------------------------
SettingsInit ==
  /\ presets = [p \in Preset |-> NoPreset]
  /\ configs = {}
  /\ active = [p \in Preset |-> 0]
  /\ installed = [p \in Preset |-> 0]
  /\ default = None
  /\ saver = [s \in Saver |-> NotSaving]

EndSaving(s) == saver' = [saver EXCEPT ![s] = NotSaving]

\* Mistake: only _load_active knows of the default preset.
InstallWithoutDefault(p, revision, basis) ==
  /\ configs' = configs \union {[preset |-> p, revision |-> revision, basis |-> basis]}
  /\ active' = [active EXCEPT ![p] = revision]
  /\ installed' = [installed EXCEPT ![p] = revision]
  /\ default' = default

\* _insert_storage_config, and _install_snapshot once it is committed.
Install(p, revision, basis) ==
  /\ configs' = configs \union {[preset |-> p, revision |-> revision, basis |-> basis]}
  /\ active' = [active EXCEPT ![p] = revision]
  /\ installed' = [installed EXCEPT ![p] = revision]
  /\ default' = IF presets'[p].is_default THEN p ELSE default

\* The route looks for the key, then the connection is tested.
BeginCreate(s, p) ==
  /\ saver[s] = NotSaving
  /\ p \notin Existing
  /\ saver' = [saver EXCEPT ![s] = [op |-> "create", key |-> p, expected |-> 0,
                                    basis |-> None]]
  /\ UNCHANGED <<presets, configs, active, installed, default>>

\* The first preset becomes the default; a key that was taken in the meantime
\* is refused.
FinishCreate(s) ==
  LET p == saver[s].key IN
  /\ saver[s].op = "create"
  /\ EndSaving(s)
  /\ IF p \in Existing
     THEN UNCHANGED <<presets, configs, active, installed, default>>
     ELSE /\ presets' = [presets EXCEPT ![p] = NewPreset(Existing = {})]
          /\ Install(p, 1, None)

\* Save a configuration of the named preset, or of the default one through the
\* alias route (key = None), which also boots an empty database from the
\* environment.  A revision other than the current one is refused at once.
BeginActivate(s, key, expected) ==
  LET p == IF key = None THEN DefaultOf(presets) ELSE key IN
  /\ saver[s] = NotSaving
  /\ IF key = None THEN AliasRoute \/ Existing = {} ELSE key \in Existing
  /\ expected = (IF p = None THEN 0 ELSE active[p])
  /\ expected < MaxRevision
  /\ saver' = [saver EXCEPT ![s] =
       [op |-> "activate", key |-> key, expected |-> expected,
        basis |-> IF p = None THEN None ELSE <<p, expected>>]]
  /\ UNCHANGED <<presets, configs, active, installed, default>>

\* The preset a save is written to: for the alias route the default of now,
\* which is created if there is none.
Target(key) ==
  IF key # None THEN key
  ELSE IF Defaults(presets) # {} THEN DefaultOf(presets) ELSE DefaultKey

\* Mistake: the revision is not compared again after the test.
FinishActivateUnchecked(s) ==
  LET p == Target(saver[s].key) IN
  /\ saver[s].op = "activate"
  /\ active[p] < MaxRevision
  /\ EndSaving(s)
  /\ presets' = IF p \in Existing THEN presets
                ELSE [presets EXCEPT ![p] = NewPreset(TRUE)]
  /\ Install(p, active[p] + 1, saver[s].basis)

FinishActivate(s) ==
  LET p == Target(saver[s].key) IN
  /\ saver[s].op = "activate"
  /\ EndSaving(s)
  /\ IF active[p] # saver[s].expected
     THEN UNCHANGED <<presets, configs, active, installed, default>>
     ELSE /\ presets' = IF p \in Existing THEN presets
                        ELSE [presets EXCEPT ![p] = NewPreset(TRUE)]
          /\ Install(p, active[p] + 1, saver[s].basis)

\* The connection test, the form or the transaction failed.
SavingFails(s) ==
  /\ saver[s] # NotSaving
  /\ EndSaving(s)
  /\ UNCHANGED <<presets, configs, active, installed, default>>

\* _load_active, after the change is committed.
LoadActive ==
  \/ installed' = active /\ default' = DefaultOf(presets')
  \/ LoadMayFail /\ UNCHANGED <<installed, default>>

\* Mistake: any preset can be disabled.
SetEnabledAnyway(p, enabled) ==
  /\ p \in Existing
  /\ presets' = [presets EXCEPT ![p].enabled = enabled]
  /\ LoadActive
  /\ UNCHANGED <<configs, active, saver>>

\* update_storage_preset: the default preset cannot be disabled.
SetEnabled(p, enabled) ==
  /\ p \in Existing
  /\ enabled \/ ~presets[p].is_default
  /\ presets' = [presets EXCEPT ![p].enabled = enabled]
  /\ LoadActive
  /\ UNCHANGED <<configs, active, saver>>

\* set_default_storage_preset: both rows in one transaction.
SetDefault(p) ==
  /\ p \in Existing
  /\ presets[p].enabled
  /\ presets' = [q \in Preset |-> [presets[q] EXCEPT !.is_default = (q = p)]]
  /\ LoadActive
  /\ UNCHANGED <<configs, active, saver>>

\* maintain() deletes inactive revisions that were saved long ago and that no
\* task refers to.
PurgeConfigs(used) ==
  /\ \E old \in SUBSET {c \in configs : c.revision # active[c.preset]
                                        /\ <<c.preset, c.revision>> \notin used} :
       configs' = configs \ old
  /\ UNCHANGED <<presets, active, installed, default, saver>>

\* The process dies, maybe after a commit, and start() loads what is committed.
RestartSettings ==
  /\ saver' = [s \in Saver |-> NotSaving]
  /\ installed' = active
  /\ default' = DefaultOf(presets)
  /\ UNCHANGED <<presets, configs, active>>

-----------------------------------------------------------------------------
SettingsStep ==
  \/ \E s \in Saver :
       \/ \E p \in Preset : BeginCreate(s, p)
       \/ \E key \in Preset \union {None}, expected \in Revision :
            BeginActivate(s, key, expected)
       \/ FinishCreate(s) \/ FinishActivate(s) \/ SavingFails(s)
  \/ \E p \in Preset, enabled \in BOOLEAN : SetEnabled(p, enabled)
  \/ \E p \in Preset : SetDefault(p)

\* On its own: no task wants any revision.
SettingsNext == SettingsStep \/ RestartSettings \/ PurgeConfigs({})

SettingsSpec == SettingsInit /\ [][SettingsNext]_settingsVars

-----------------------------------------------------------------------------
(* Properties *)

\* As soon as there is a preset there is one default, it is enabled and it has
\* an active configuration, whatever is saved, switched or disabled while a
\* connection is being tested (PLAN.md, 5.3).
DefaultExists ==
  Existing # {} =>
    \E p \in Existing : /\ Defaults(presets) = {p}
                        /\ presets[p].enabled
                        /\ active[p] # 0

\* What uploads are served from is what the database says, and its rows exist:
\* _install_snapshot and _load_active repeat every commit in memory.
MemoryAgrees ==
  /\ installed = active
  /\ default = DefaultOf(presets)
  /\ \A p \in Existing : InDatabase(<<p, active[p]>>)

\* The optimistic lock: a revision follows the one its administrator edited and
\* sent as expected_revision, and of the same preset, although other requests
\* run while it is tested.
RevisionsSucceed ==
  \A c \in configs : c.basis = IF c.revision = 1 THEN None
                               ELSE <<c.preset, c.revision - 1>>
=============================================================================
