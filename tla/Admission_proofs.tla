--------------------------- MODULE Admission_proofs ---------------------------
(***************************************************************************)
(* Proofs about StorageSettings and about Admission, which adds uploads to *)
(* it, for any number of presets, requests, clients and keys.              *)
(***************************************************************************)
EXTENDS Admission, Sums

-----------------------------------------------------------------------------
(***************************************************************************)
(* The settings on their own                                               *)
(***************************************************************************)

(* The invariant *)

\* Rows of presets and of configurations fit together.
PresetsSound ==
  /\ \A p \in Preset : ~presets[p].exists => ~presets[p].is_default /\ active[p] = 0
  /\ \A p \in Existing : active[p] # 0 /\ InDatabase(<<p, active[p]>>)
  /\ DefaultExists

\* What a request read before its connection test is still true of the preset,
\* or the revision that it expects is not current any more.
SaversKnow ==
  \A s \in Saver :
    /\ saver[s].op = "create" => saver[s].key # None
    /\ saver[s].op = "activate" =>
         /\ saver[s].expected < MaxRevision
         /\ saver[s].key # None =>
              /\ saver[s].key \in Existing /\ saver[s].expected # 0
              /\ saver[s].basis = <<saver[s].key, saver[s].expected>>
         /\ saver[s].key = None /\ ~AliasRoute =>
              saver[s].basis = None /\ saver[s].expected = 0

SettingsInv ==
  /\ SettingsTypeOK
  /\ PresetsSound
  /\ SaversKnow
  /\ ~LoadMayFail => MemoryAgrees
  /\ ~AliasRoute => RevisionsSucceed

\* What a request is made of.
LEMMA SaverHas ==
  ASSUME SettingsTypeOK, NEW s \in Saver
  PROVE  /\ saver[s].op \in {"idle", "create", "activate"}
         /\ saver[s].op # "idle" =>
              /\ saver[s] \in Saving
              /\ saver[s].key \in Preset \union {None}
              /\ saver[s].expected \in Revision
              /\ saver[s].basis \in (Preset \X Revision) \union {None}
<1>1. saver[s] = NotSaving \/ saver[s] \in Saving
  BY DEF SettingsTypeOK
<1> QED BY <1>1 DEF NotSaving, Saving

\* The one default preset is what a query finds.
LEMMA DefaultFound ==
  ASSUME NEW table, NEW p, Defaults(table) = {p}
  PROVE  DefaultOf(table) = p
BY DEF DefaultOf

LEMMA NoDefault ==
  ASSUME NEW table, Defaults(table) = {}
  PROVE  DefaultOf(table) = None
BY DEF DefaultOf

LEMMA SettingsInitInv ==
  SettingsInit => SettingsInv
<1> SUFFICES ASSUME SettingsInit PROVE SettingsInv
  OBVIOUS
<1>1. SettingsTypeOK
  BY SettingsAssumption DEF SettingsInit, SettingsTypeOK, NoPreset, PresetRow, Revision
<1>2. Existing = {} /\ Defaults(presets) = {}
  BY DEF SettingsInit, Existing, Defaults, NoPreset
<1>3. PresetsSound
  BY <1>2 DEF SettingsInit, PresetsSound, DefaultExists, NoPreset, Existing
<1>4. SaversKnow
  BY DEF SettingsInit, SaversKnow, NotSaving
<1>5. MemoryAgrees
  BY <1>2, NoDefault DEF SettingsInit, MemoryAgrees
<1>6. RevisionsSucceed
  BY DEF SettingsInit, RevisionsSucceed
<1> QED BY <1>1, <1>3, <1>4, <1>5, <1>6 DEF SettingsInv

-----------------------------------------------------------------------------
(* Its steps *)

\* A request that begins to wait for its connection test.
LEMMA BeginStep ==
  ASSUME SettingsInv, NEW s \in Saver, NEW new \in Saving,
         saver' = [saver EXCEPT ![s] = new],
         UNCHANGED <<presets, configs, active, installed, default>>,
         new.op = "create" => new.key # None,
         new.op = "activate" =>
           /\ new.expected < MaxRevision
           /\ new.key # None => /\ new.key \in Existing /\ new.expected # 0
                                /\ new.basis = <<new.key, new.expected>>
           /\ new.key = None /\ ~AliasRoute => new.basis = None /\ new.expected = 0
  PROVE  SettingsInv'
<1>1. SettingsTypeOK'
  BY DEF SettingsInv, SettingsTypeOK
<1>2. SaversKnow'
  BY DEF SettingsInv, SettingsTypeOK, SaversKnow, Existing
<1>3. PresetsSound'
  BY DEF SettingsInv, PresetsSound, Existing, InDatabase, DefaultExists, Defaults
<1>4. (~LoadMayFail => MemoryAgrees)'
  BY DEF SettingsInv, MemoryAgrees, DefaultOf, Defaults, Existing, InDatabase
<1> QED BY <1>1, <1>2, <1>3, <1>4 DEF SettingsInv, RevisionsSucceed

LEMMA BeginCreateStep ==
  ASSUME SettingsInv, NEW s \in Saver, NEW p \in Preset, BeginCreate(s, p)
  PROVE  SettingsInv'
<1> DEFINE new == [op |-> "create", key |-> p, expected |-> 0, basis |-> None]
<1>1. new \in Saving /\ new.op = "create" /\ new.key # None
  BY SettingsAssumption DEF Saving, Revision
<1> QED BY <1>1, BeginStep DEF BeginCreate

LEMMA BeginActivateStep ==
  ASSUME SettingsInv, NEW s \in Saver, NEW key \in Preset \union {None}, NEW expected \in Revision,
         BeginActivate(s, key, expected)
  PROVE  SettingsInv'
<1> DEFINE p == IF key = None THEN DefaultOf(presets) ELSE key
           new == [op |-> "activate", key |-> key, expected |-> expected,
                   basis |-> IF p = None THEN None ELSE <<p, expected>>]
<1>1. p \in Preset \union {None}
  BY DEF DefaultOf, Defaults
<1>2. new \in Saving /\ new.op = "activate" /\ new.key = key /\ new.expected = expected
  BY <1>1 DEF Saving
<1>3. CASE key = None
  <2>1. ~AliasRoute => Existing = {}
    BY <1>3 DEF BeginActivate
  <2>2. Existing = {} => Defaults(presets) = {}
    BY DEF SettingsInv, PresetsSound, Existing, Defaults
  <2>3. ~AliasRoute => p = None
    BY <1>3, <2>1, <2>2, NoDefault
  <2>4. ~AliasRoute => new.basis = None /\ expected = 0
    BY <2>3 DEF BeginActivate
  <2> QED BY <1>2, <1>3, <2>4, BeginStep DEF BeginActivate
<1>4. CASE key # None
  <2>1. key \in Existing /\ p = key /\ expected = active[key]
    BY <1>4 DEF BeginActivate
  <2>2. expected # 0 /\ new.basis = <<key, expected>>
    BY <1>4, <2>1 DEF SettingsInv, PresetsSound
  <2> QED BY <1>2, <1>4, <2>1, <2>2, BeginStep DEF BeginActivate
<1> QED BY <1>3, <1>4

\* The requests that still wait when one ends: presets are never deleted.
LEMMA SaversKept ==
  ASSUME SettingsInv, NEW s \in Saver, EndSaving(s), \A p \in Existing : presets'[p].exists
  PROVE  SaversKnow' /\ saver' \in [Saver -> {NotSaving} \union Saving]
<1>1. saver \in [Saver -> {NotSaving} \union Saving] /\ saver' = [saver EXCEPT ![s] = NotSaving]
  BY DEF EndSaving, SettingsInv, SettingsTypeOK
<1>2. \A p \in Existing : p \in Existing'
  BY DEF Existing
<1>3. SaversKnow'
  <2> SUFFICES ASSUME NEW q \in Saver
               PROVE  /\ saver'[q].op = "create" => saver'[q].key # None
                      /\ saver'[q].op = "activate" =>
                           /\ saver'[q].expected < MaxRevision
                           /\ saver'[q].key # None =>
                                /\ saver'[q].key \in Existing' /\ saver'[q].expected # 0
                                /\ saver'[q].basis = <<saver'[q].key, saver'[q].expected>>
                           /\ saver'[q].key = None /\ ~AliasRoute =>
                                saver'[q].basis = None /\ saver'[q].expected = 0
    BY DEF SaversKnow
  <2>1. CASE q = s
    BY <1>1, <2>1 DEF NotSaving
  <2>2. CASE q # s
    BY <1>1, <1>2, <2>2 DEF SettingsInv, SaversKnow
  <2> QED BY <2>1, <2>2
<1> QED BY <1>1, <1>3

\* A revision is saved, with the preset it belongs to if that is a new one.
LEMMA InstallStep ==
  ASSUME SettingsInv, NEW s \in Saver, EndSaving(s),
         NEW p \in Preset, active[p] < MaxRevision,
         NEW basis \in (Preset \X Revision) \union {None},
         Install(p, active[p] + 1, basis),
         \/ p \in Existing /\ presets' = presets
         \/ p \notin Existing /\ presets' = [presets EXCEPT ![p] = NewPreset(Existing = {})],
         ~AliasRoute => basis = IF active[p] = 0 THEN None ELSE <<p, active[p]>>
  PROVE  SettingsInv'
<1> DEFINE revision == active[p] + 1
<1>1. /\ revision \in Revision \ {0}
      /\ configs' = configs \union {[preset |-> p, revision |-> revision, basis |-> basis]}
      /\ active' = [active EXCEPT ![p] = revision]
      /\ installed' = [installed EXCEPT ![p] = revision]
      /\ default' = IF presets'[p].is_default THEN p ELSE default
      /\ presets \in [Preset -> PresetRow] /\ active \in [Preset -> Revision]
      /\ installed \in [Preset -> Revision] /\ default \in Preset \union {None}
      /\ configs \subseteq Config
  BY SettingsAssumption DEF Install, SettingsInv, SettingsTypeOK, Revision
<1> DEFINE new == [preset |-> p, revision |-> revision, basis |-> basis]
<1>2. new \in Config /\ new.preset = p /\ new.revision = revision /\ new.basis = basis
  BY <1>1 DEF Config
<1>3. /\ presets' \in [Preset -> PresetRow]
      /\ presets'[p].exists
      /\ \A q \in Preset \ {p} : presets'[q] = presets[q]
      /\ \A q \in Existing : presets'[q] = presets[q]
      /\ p \notin Existing => (presets'[p].is_default <=> Existing = {}) /\ presets'[p].enabled
  <2>1. CASE p \in Existing /\ presets' = presets
    BY <1>1, <2>1 DEF Existing
  <2>2. CASE p \notin Existing /\ presets' = [presets EXCEPT ![p] = NewPreset(Existing = {})]
    <3>1. (Existing = {}) \in BOOLEAN
      OBVIOUS
    <3>2. \A b \in BOOLEAN : NewPreset(b) \in PresetRow
      BY DEF NewPreset, PresetRow
    <3>3. NewPreset(Existing = {}) \in PresetRow
      BY <3>1, <3>2
    <3>4. NewPreset(Existing = {}).exists /\ NewPreset(Existing = {}).enabled
          /\ (NewPreset(Existing = {}).is_default <=> Existing = {})
      BY DEF NewPreset
    <3>5. presets'[p] = NewPreset(Existing = {})
      BY <1>1, <2>2
    <3> QED BY <1>1, <2>2, <3>3, <3>4, <3>5
  <2> QED BY <2>1, <2>2
<1>4. SaversKnow' /\ saver' \in [Saver -> {NotSaving} \union Saving]
  BY <1>3, SaversKept DEF Existing
<1>5. SettingsTypeOK'
  BY <1>1, <1>2, <1>3, <1>4 DEF SettingsTypeOK
<1>6. Existing' = Existing \union {p}
  BY <1>1, <1>3 DEF Existing
<1>7. \A q \in Existing' : /\ active'[q] # 0
                         /\ \E x \in configs' : <<x.preset, x.revision>> = <<q, active'[q]>>
  <2> SUFFICES ASSUME NEW q \in Existing'
               PROVE  /\ active'[q] # 0
                      /\ \E x \in configs' : <<x.preset, x.revision>> = <<q, active'[q]>>
    OBVIOUS
  <2>1. CASE q = p
    BY <1>1, <1>2, <2>1
  <2>2. CASE q # p
    BY <1>1, <1>6, <2>2 DEF SettingsInv, PresetsSound, InDatabase, Existing
  <2> QED BY <2>1, <2>2
<1>8. Defaults(presets') = IF Existing = {} THEN {p} ELSE Defaults(presets)
  <2>1. \A q \in Preset \ {p} : q \in Defaults(presets') <=> q \in Defaults(presets)
    BY <1>3 DEF Defaults
  <2>2. Existing = {} => Defaults(presets) = {} /\ p \in Defaults(presets')
    BY <1>3 DEF SettingsInv, PresetsSound, Existing, Defaults
  <2>3. Existing # {} => (p \in Defaults(presets') <=> p \in Defaults(presets))
    BY <1>1, <1>3 DEF SettingsInv, PresetsSound, Existing, Defaults
  <2> QED BY <2>1, <2>2, <2>3 DEF Defaults
<1>9. PresetsSound'
  <2>1. \A q \in Preset : ~presets'[q].exists => ~presets'[q].is_default /\ active'[q] = 0
    BY <1>1, <1>3 DEF SettingsInv, PresetsSound
  <2>2. \E q \in Existing' : /\ Defaults(presets') = {q}
                             /\ presets'[q].enabled
                             /\ active'[q] # 0
    <3>1. CASE Existing = {}
      BY <1>3, <1>6, <1>7, <1>8, <3>1
    <3>2. CASE Existing # {}
      <4>1. PICK q \in Existing : Defaults(presets) = {q} /\ presets[q].enabled
        BY <3>2 DEF SettingsInv, PresetsSound, DefaultExists
      <4> QED BY <1>3, <1>6, <1>7, <1>8, <3>2, <4>1
    <3> QED BY <3>1, <3>2
  <2>3. DefaultExists'
    BY <2>2 DEF DefaultExists
  <2> QED BY <1>7, <2>1, <2>3 DEF PresetsSound, InDatabase
<1>10. (~LoadMayFail => MemoryAgrees)'
  <2> SUFFICES ASSUME ~LoadMayFail PROVE MemoryAgrees'
    OBVIOUS
  <2>1. installed = active /\ default = DefaultOf(presets)
    BY DEF SettingsInv, MemoryAgrees
  <2>2. default' = DefaultOf(presets')
    <3>1. CASE presets'[p].is_default
      <4>1. p \in Defaults(presets')
        BY <3>1 DEF Defaults
      <4>2. Defaults(presets') = {p}
        BY <1>6, <1>9, <4>1 DEF PresetsSound, DefaultExists
      <4> QED BY <1>1, <3>1, <4>2, DefaultFound
    <3>2. CASE ~presets'[p].is_default
      <4>1. Defaults(presets') = Defaults(presets)
        BY <1>8, <3>2 DEF Defaults
      <4> QED BY <1>1, <2>1, <3>2, <4>1 DEF DefaultOf
    <3> QED BY <3>1, <3>2
  <2> QED BY <1>1, <1>7, <2>1, <2>2 DEF MemoryAgrees, InDatabase
<1>11. (~AliasRoute => RevisionsSucceed)'
  <2> SUFFICES ASSUME ~AliasRoute, NEW c \in configs'
               PROVE  c.basis = IF c.revision = 1 THEN None ELSE <<c.preset, c.revision - 1>>
    BY DEF RevisionsSucceed
  <2>1. CASE c \in configs
    BY <2>1 DEF SettingsInv, RevisionsSucceed
  <2>2. CASE c = new
    BY <1>1, <1>2, <2>2 DEF Revision
  <2> QED BY <1>1, <2>1, <2>2
<1> QED BY <1>4, <1>5, <1>9, <1>10, <1>11 DEF SettingsInv

\* A request that ends without a trace.
LEMMA RefusedStep ==
  ASSUME SettingsInv, NEW s \in Saver, EndSaving(s),
         UNCHANGED <<presets, configs, active, installed, default>>
  PROVE  SettingsInv'
<1>1. SaversKnow' /\ saver' \in [Saver -> {NotSaving} \union Saving]
  BY SaversKept DEF Existing
<1>2. SettingsTypeOK'
  BY <1>1 DEF SettingsInv, SettingsTypeOK
<1>3. PresetsSound'
  BY DEF SettingsInv, PresetsSound, Existing, InDatabase, DefaultExists, Defaults
<1>4. (~LoadMayFail => MemoryAgrees)'
  BY DEF SettingsInv, MemoryAgrees, DefaultOf, Defaults, Existing, InDatabase
<1> QED BY <1>1, <1>2, <1>3, <1>4 DEF SettingsInv, RevisionsSucceed

LEMMA FinishCreateStep ==
  ASSUME SettingsInv, NEW s \in Saver, FinishCreate(s)
  PROVE  SettingsInv'
<1> DEFINE p == saver[s].key
<1>1. p \in Preset /\ EndSaving(s)
  BY SaverHas DEF SettingsInv, SaversKnow, FinishCreate
<1>2. CASE p \in Existing
  BY <1>1, <1>2, RefusedStep DEF FinishCreate
<1>3. CASE p \notin Existing
  <2>1. active[p] = 0
    BY <1>1, <1>3 DEF SettingsInv, PresetsSound, Existing
  <2>2. presets' = [presets EXCEPT ![p] = NewPreset(Existing = {})] /\ Install(p, 1, None)
    BY <1>3 DEF FinishCreate
  <2>3. 0 < MaxRevision
    BY SettingsAssumption
  <2> QED BY <1>1, <1>3, <2>1, <2>2, <2>3, InstallStep
<1> QED BY <1>2, <1>3

\* The alias route writes to the default preset of now, and to a new one only
\* if there is none at all.
LEMMA TargetHas ==
  ASSUME SettingsInv, NEW key \in Preset \union {None}, key # None => key \in Existing
  PROVE  /\ Target(key) \in Preset
         /\ Target(key) \notin Existing => key = None /\ Existing = {}
         /\ key # None => Target(key) = key
<1>1. CASE key # None
  BY <1>1 DEF Target
<1>2. CASE key = None /\ Defaults(presets) # {}
  <2>1. DefaultOf(presets) \in Defaults(presets)
    BY <1>2 DEF DefaultOf
  <2>2. DefaultOf(presets) \in Existing
    BY <2>1 DEF Defaults, Existing, SettingsInv, PresetsSound
  <2> QED BY <1>2, <2>2 DEF Target, Existing
<1>3. CASE key = None /\ Defaults(presets) = {}
  <2>1. Existing = {}
    BY <1>3 DEF SettingsInv, PresetsSound, DefaultExists
  <2> QED BY <1>3, <2>1, SettingsAssumption DEF Target
<1> QED BY <1>1, <1>2, <1>3

LEMMA FinishActivateStep ==
  ASSUME SettingsInv, NEW s \in Saver, FinishActivate(s)
  PROVE  SettingsInv'
<1> DEFINE key == saver[s].key
           p == Target(key)
<1>1. /\ key \in Preset \union {None}
      /\ key # None => key \in Existing
      /\ saver[s].basis \in (Preset \X Revision) \union {None}
      /\ EndSaving(s)
  BY SaverHas DEF SettingsInv, SaversKnow, FinishActivate
<1>2. /\ p \in Preset
      /\ p \notin Existing => key = None /\ Existing = {}
      /\ key # None => p = key
  <2>1. key \in Preset \union {None} /\ (key # None => key \in Existing)
    BY <1>1
  <2> HIDE DEF key
  <2> QED BY <2>1, TargetHas
<1> HIDE DEF p
<1>3. CASE active[p] # saver[s].expected
  BY <1>1, <1>3, RefusedStep DEF FinishActivate, p
<1>4. CASE active[p] = saver[s].expected
  <2>1. /\ presets' = IF p \in Existing THEN presets
                      ELSE [presets EXCEPT ![p] = NewPreset(TRUE)]
        /\ Install(p, active[p] + 1, saver[s].basis)
    BY <1>4 DEF FinishActivate, p
  <2>2. active[p] < MaxRevision
    BY <1>4 DEF SettingsInv, SaversKnow, FinishActivate
  <2>3. CASE p \in Existing
    <3>1. ~AliasRoute => saver[s].basis = IF active[p] = 0 THEN None ELSE <<p, active[p]>>
      BY <1>1, <1>2, <1>4, <2>3 DEF SettingsInv, SaversKnow, FinishActivate, PresetsSound
    <3> QED BY <1>1, <1>2, <2>1, <2>2, <2>3, <3>1, InstallStep
  <2>4. CASE p \notin Existing
    <3>1. (Existing = {}) = TRUE /\ key = None
      BY <1>2, <2>4
    <3>2. presets' = [presets EXCEPT ![p] = NewPreset(Existing = {})]
      BY <2>1, <2>4, <3>1
    <3>3. ~AliasRoute => saver[s].basis = IF active[p] = 0 THEN None ELSE <<p, active[p]>>
      BY <1>4, <3>1 DEF SettingsInv, SaversKnow, FinishActivate
    <3> QED BY <1>1, <1>2, <2>1, <2>2, <2>4, <3>2, <3>3, InstallStep
  <2> QED BY <2>3, <2>4
<1> QED BY <1>3, <1>4

\* Rows of presets change, and memory is loaded again.
LEMMA TableStep ==
  ASSUME SettingsInv, LoadActive, UNCHANGED <<configs, active, saver>>,
         presets' \in [Preset -> PresetRow],
         \A q \in Preset : presets'[q].exists <=> presets[q].exists,
         \A q \in Preset : presets'[q].is_default => presets[q].exists,
         \E q \in Existing : Defaults(presets') = {q} /\ presets'[q].enabled
  PROVE  SettingsInv'
<1>1. Existing' = Existing
  BY DEF Existing
<1>2. DefaultOf(presets') \in Preset \union {None}
  BY DEF DefaultOf, Defaults
<1>3. SettingsTypeOK'
  BY <1>2 DEF SettingsInv, SettingsTypeOK, LoadActive
<1>4. SaversKnow'
  BY <1>1 DEF SettingsInv, SaversKnow
<1>5. PresetsSound'
  <2>1. DefaultExists'
    BY <1>1 DEF SettingsInv, PresetsSound, DefaultExists
  <2>2. \A q \in Existing' : active'[q] # 0 /\ \E x \in configs' : <<x.preset, x.revision>> = <<q, active'[q]>>
    BY <1>1 DEF SettingsInv, PresetsSound, InDatabase
  <2>3. \A q \in Preset : ~presets'[q].exists => ~presets'[q].is_default /\ active'[q] = 0
    BY DEF SettingsInv, PresetsSound
  <2> QED BY <2>1, <2>2, <2>3 DEF PresetsSound, InDatabase
<1>6. (~LoadMayFail => MemoryAgrees)'
  <2>1. ~LoadMayFail => installed' = active' /\ default' = DefaultOf(presets')
    BY DEF LoadActive
  <2> QED BY <1>5, <2>1 DEF PresetsSound, MemoryAgrees
<1> QED BY <1>3, <1>4, <1>5, <1>6 DEF SettingsInv, RevisionsSucceed

LEMMA SetEnabledStep ==
  ASSUME SettingsInv, NEW p \in Preset, NEW enabled \in BOOLEAN, SetEnabled(p, enabled)
  PROVE  SettingsInv'
<1>1. /\ p \in Existing /\ (enabled \/ ~presets[p].is_default)
      /\ presets' = [presets EXCEPT ![p].enabled = enabled]
      /\ LoadActive /\ UNCHANGED <<configs, active, saver>>
      /\ presets \in [Preset -> PresetRow]
  BY DEF SetEnabled, SettingsInv, SettingsTypeOK
<1>2. /\ presets' \in [Preset -> PresetRow]
      /\ \A q \in Preset : /\ presets'[q].exists <=> presets[q].exists
                           /\ presets'[q].is_default <=> presets[q].is_default
                           /\ q # p => presets'[q].enabled = presets[q].enabled
      /\ presets'[p].enabled = enabled
  BY <1>1 DEF PresetRow
<1>3. PICK q \in Existing : Defaults(presets) = {q} /\ presets[q].enabled
  BY <1>1 DEF SettingsInv, PresetsSound, DefaultExists
<1>4. Defaults(presets') = {q}
  BY <1>2, <1>3 DEF Defaults
<1>5. presets'[q].enabled
  <2>1. presets[q].is_default
    BY <1>3 DEF Defaults
  <2> QED BY <1>1, <1>2, <1>3, <2>1 DEF Existing
<1>6. \A r \in Preset : presets'[r].is_default => presets[r].exists
  BY <1>2 DEF SettingsInv, PresetsSound
<1> QED BY <1>1, <1>2, <1>3, <1>4, <1>5, <1>6, TableStep

LEMMA SetDefaultStep ==
  ASSUME SettingsInv, NEW p \in Preset, SetDefault(p)
  PROVE  SettingsInv'
<1>1. /\ p \in Existing /\ presets[p].enabled
      /\ presets' = [q \in Preset |-> [presets[q] EXCEPT !.is_default = (q = p)]]
      /\ LoadActive /\ UNCHANGED <<configs, active, saver>>
      /\ presets \in [Preset -> PresetRow]
  BY DEF SetDefault, SettingsInv, SettingsTypeOK
<1>2. /\ presets' \in [Preset -> PresetRow]
      /\ \A q \in Preset : /\ presets'[q].exists <=> presets[q].exists
                           /\ presets'[q].is_default <=> q = p
                           /\ presets'[q].enabled <=> presets[q].enabled
  BY <1>1 DEF PresetRow
<1>3. Defaults(presets') = {p}
  BY <1>2 DEF Defaults
<1>4. \A r \in Preset : presets'[r].is_default => presets[r].exists
  BY <1>1, <1>2 DEF Existing
<1> QED BY <1>1, <1>2, <1>3, <1>4, TableStep

\* Retention never takes an active configuration.
LEMMA PurgeStep ==
  ASSUME SettingsInv, NEW used, PurgeConfigs(used)
  PROVE  SettingsInv'
<1>1. /\ configs' \subseteq configs
      /\ \A c \in configs : c.revision = active[c.preset] => c \in configs'
      /\ UNCHANGED <<presets, active, installed, default, saver>>
  BY DEF PurgeConfigs
<1>2. \A q \in Existing : \E x \in configs' : <<x.preset, x.revision>> = <<q, active[q]>>
  BY <1>1 DEF SettingsInv, PresetsSound, InDatabase
<1>3. SettingsTypeOK' /\ SaversKnow'
  BY <1>1 DEF SettingsInv, SettingsTypeOK, SaversKnow, Existing
<1>4. PresetsSound'
  BY <1>1, <1>2 DEF SettingsInv, PresetsSound, Existing, InDatabase, DefaultExists, Defaults
<1>5. (~LoadMayFail => MemoryAgrees)'
  BY <1>1, <1>2 DEF SettingsInv, MemoryAgrees, DefaultOf, Defaults, Existing, InDatabase
<1> QED BY <1>1, <1>3, <1>4, <1>5 DEF SettingsInv, RevisionsSucceed

LEMMA RestartStep ==
  ASSUME SettingsInv, RestartSettings
  PROVE  SettingsInv'
<1>1. DefaultOf(presets) \in Preset \union {None}
  BY DEF DefaultOf, Defaults
<1>2. SettingsTypeOK'
  BY <1>1 DEF RestartSettings, SettingsInv, SettingsTypeOK
<1>3. SaversKnow'
  BY DEF RestartSettings, SaversKnow, NotSaving
<1>4. PresetsSound'
  BY DEF RestartSettings, SettingsInv, PresetsSound, Existing, InDatabase, DefaultExists, Defaults
<1>5. MemoryAgrees'
  BY DEF RestartSettings, SettingsInv, PresetsSound, MemoryAgrees, DefaultOf, Defaults, Existing,
         InDatabase
<1> QED BY <1>2, <1>3, <1>4, <1>5 DEF RestartSettings, SettingsInv, RevisionsSucceed

LEMMA SettingsUnchanged ==
  ASSUME SettingsInv, UNCHANGED settingsVars
  PROVE  SettingsInv'
<1>1. SettingsTypeOK' /\ SaversKnow'
  BY DEF settingsVars, SettingsInv, SettingsTypeOK, SaversKnow, Existing
<1>2. PresetsSound'
  BY DEF settingsVars, SettingsInv, PresetsSound, Existing, InDatabase, DefaultExists, Defaults
<1>3. (~LoadMayFail => MemoryAgrees)'
  BY DEF settingsVars, SettingsInv, MemoryAgrees, DefaultOf, Defaults, Existing, InDatabase
<1> QED BY <1>1, <1>2, <1>3 DEF settingsVars, SettingsInv, RevisionsSucceed

\* A step of the settings routes, whatever else the process does.
LEMMA SettingsStepInv ==
  ASSUME SettingsInv, SettingsStep
  PROVE  SettingsInv'
<1>1. CASE \E s \in Saver : \E p \in Preset : BeginCreate(s, p)
  BY <1>1, BeginCreateStep
<1>2. CASE \E s \in Saver : \E key \in Preset \union {None}, expected \in Revision :
             BeginActivate(s, key, expected)
  BY <1>2, BeginActivateStep
<1>3. CASE \E s \in Saver : FinishCreate(s) \/ FinishActivate(s)
  BY <1>3, FinishCreateStep, FinishActivateStep
<1>4. CASE \E s \in Saver : SavingFails(s)
  BY <1>4, RefusedStep DEF SavingFails
<1>5. CASE \E p \in Preset, enabled \in BOOLEAN : SetEnabled(p, enabled)
  BY <1>5, SetEnabledStep
<1>6. CASE \E p \in Preset : SetDefault(p)
  BY <1>6, SetDefaultStep
<1> QED BY <1>1, <1>2, <1>3, <1>4, <1>5, <1>6 DEF SettingsStep

\* The process on its own.
LEMMA SettingsNextInv ==
  SettingsInv /\ [SettingsNext]_settingsVars => SettingsInv'
<1> SUFFICES ASSUME SettingsInv, [SettingsNext]_settingsVars PROVE SettingsInv'
  OBVIOUS
<1>1. CASE SettingsStep
  BY <1>1, SettingsStepInv
<1>2. CASE RestartSettings
  BY <1>2, RestartStep
<1>3. CASE PurgeConfigs({})
  BY <1>3, PurgeStep
<1>4. CASE UNCHANGED settingsVars
  BY <1>4, SettingsUnchanged
<1> QED BY <1>1, <1>2, <1>3, <1>4 DEF SettingsNext

-----------------------------------------------------------------------------
(* The theorems *)

\* Rows of presets and configurations fit together, and what a request read
\* before its connection test still holds of a preset that has not moved on.
THEOREM SettingsInvariant == SettingsSpec => []SettingsInv
<1>1. QED BY SettingsInitInv, SettingsNextInv, PTL DEF SettingsSpec

\* Every value the settings take has its type.
THEOREM SettingsTyped == SettingsSpec => []SettingsTypeOK
<1>1. SettingsInv => SettingsTypeOK
  BY DEF SettingsInv
<1> QED BY <1>1, SettingsInvariant, PTL

\* There is one default preset, enabled and configured, as soon as there is any,
\* for any number of requests that test connections at once.
THEOREM DefaultsHold == SettingsSpec => []DefaultExists
<1>1. SettingsInv => DefaultExists
  BY DEF SettingsInv, PresetsSound
<1> QED BY <1>1, SettingsInvariant, PTL

\* Memory repeats the database after every commit, if the presets can be read
\* again; they are read again at every start otherwise.
THEOREM MemoryHolds ==
  ASSUME LoadMayFail = FALSE
  PROVE  SettingsSpec => []MemoryAgrees
<1>1. SettingsInv => MemoryAgrees
  BY DEF SettingsInv
<1> QED BY <1>1, SettingsInvariant, PTL

\* No revision replaces one its administrator did not see, unless the alias
\* route is used when the default preset may change during its test.
THEOREM RevisionsHold ==
  ASSUME AliasRoute = FALSE
  PROVE  SettingsSpec => []RevisionsSucceed
<1>1. SettingsInv => RevisionsSucceed
  BY DEF SettingsInv
<1> QED BY <1>1, SettingsInvariant, PTL

-----------------------------------------------------------------------------
(***************************************************************************)
(* Uploads beside them                                                     *)
(***************************************************************************)

(* The settings do not notice uploads *)

\* Retention spares what tasks refer to; the settings know no tasks.
LEMMA PurgeAny ==
  ASSUME NEW used, PurgeConfigs(used)
  PROVE  PurgeConfigs({})
BY DEF PurgeConfigs

LEMMA StepOfSettings ==
  ASSUME [Next]_vars
  PROVE  [SettingsNext]_settingsVars
<1>1. CASE \E t \in Request :
             \/ AdmissionStep(t)
             \/ \E to \in {"void", "kept", "closing", "gone", "none"} : Proceed(t, to)
  BY <1>1 DEF AdmissionStep, Arrive, Resolve, Insert, LookUpAgain, Abort, Proceed
<1>2. CASE SettingsStep
  BY <1>2 DEF SettingsNext
<1>3. CASE PurgeConfigs(Referenced)
  BY <1>3, PurgeAny DEF SettingsNext
<1>4. CASE Restart
  BY <1>4 DEF Restart, SettingsNext
<1>5. CASE UNCHANGED vars
  BY <1>5 DEF vars
<1> QED BY <1>1, <1>2, <1>3, <1>4, <1>5 DEF Next

\* Uploads implement the settings on their own: every step of the process is a
\* step of the settings routes, a restart, a purge or nothing to them.
THEOREM SettingsImplemented == Spec => SettingsSpec
<1>1. Init => SettingsInit
  BY DEF Init
<1> QED BY <1>1, StepOfSettings, PTL DEF Spec, SettingsSpec

-----------------------------------------------------------------------------
(* The invariant *)

AdmissionTypes ==
  /\ request \in [Request -> {NoRequest} \union RequestState]
  /\ phase \in [Request -> {"none", "open", "void", "kept", "closing", "gone"}]
  /\ answer \in [Request -> Answer]

\* A row belongs to a request that is through; it is inserted with a
\* configuration of the preset the request names.
RequestsSound ==
  \A t \in Request :
    /\ phase[t] # "none" => request[t].pc = "done"
    /\ phase[t] # "none" \/ request[t].pc \in {"insert", "quota", "conflict"} =>
         (request[t].header # None => PresetOf(t) = request[t].header)

\* The unique index.
KeysUnique ==
  \A s, t \in Rows :
    /\ request[s].client = request[t].client
    /\ request[s].key = request[t].key /\ request[s].key # None
    => s = t

\* What a client is told of is its own task: the one it asked for, or the one
\* its key names, and then of the preset it asked for.
AnswersSound ==
  \A t \in Request : answer[t].task # None =>
    LET task == answer[t].task IN
    /\ request[t].pc = "done" /\ request[task].pc = "done"
    /\ request[task].client = request[t].client
    /\ request[t].key # None => request[task].key = request[t].key
    /\ request[t].header # None /\ answer[t].code # "IDEMPOTENCY_SCOPE_MISMATCH" =>
         PresetOf(task) = request[t].header

AdmissionInv ==
  /\ AdmissionTypes
  /\ RequestsSound
  /\ KeysUnique
  /\ AnswersSound
  /\ ConfigKept

\* What a request is made of.
LEMMA RequestHas ==
  ASSUME AdmissionTypes, NEW t \in Request
  PROVE  /\ request[t].pc \in {"idle", "resolve", "insert", "quota", "conflict", "done"}
         /\ request[t].pc = "idle" => request[t] = NoRequest
         /\ request[t].pc # "idle" =>
              /\ request[t] \in RequestState
              /\ request[t] = [pc |-> request[t].pc, client |-> request[t].client,
                               key |-> request[t].key, header |-> request[t].header,
                               config |-> request[t].config, size |-> request[t].size]
              /\ request[t].client \in Client
              /\ request[t].key \in Key \union {None}
              /\ request[t].header \in Preset \union {None}
              /\ request[t].config \in (Preset \X Revision) \union {None}
              /\ request[t].size \in Size \union {0}
<1>1. request[t] = NoRequest \/ request[t] \in RequestState
  BY DEF AdmissionTypes
<1> QED BY <1>1 DEF NoRequest, RequestState

LEMMA AdmissionInitInv ==
  Init => AdmissionInv
<1> SUFFICES ASSUME Init PROVE AdmissionInv
  OBVIOUS
<1>1. AdmissionTypes
  BY DEF Init, AdmissionInit, AdmissionTypes, Answer
<1>2. Rows = {}
  BY DEF Init, AdmissionInit, Rows
<1>3. RequestsSound
  BY DEF Init, AdmissionInit, RequestsSound, NoRequest
<1>4. AnswersSound
  BY DEF Init, AdmissionInit, AnswersSound
<1> QED BY <1>1, <1>2, <1>3, <1>4 DEF AdmissionInv, KeysUnique, ConfigKept

-----------------------------------------------------------------------------
(* Its steps *)

\* A request moves on without touching the table.
LEMMA RequestMoves ==
  ASSUME AdmissionInv, NEW t \in Request, NEW new \in RequestState,
         phase[t] = "none", request[t].pc # "done",
         request' = [request EXCEPT ![t] = new],
         new.pc \in {"insert", "quota", "conflict"} /\ new.header # None =>
           new.config[1] = new.header,
         answer' \in [Request -> Answer],
         \A s \in Request \ {t} : answer'[s] = answer[s],
         answer'[t].task # None =>
           /\ new.pc = "done"
           /\ answer'[t].task \in Rows
           /\ request[answer'[t].task].client = new.client
           /\ new.key # None => request[answer'[t].task].key = new.key
           /\ new.header # None /\ answer'[t].code # "IDEMPOTENCY_SCOPE_MISMATCH" =>
                PresetOf(answer'[t].task) = new.header,
         UNCHANGED <<settingsVars, phase>>
  PROVE  AdmissionInv'
<1>1. /\ request \in [Request -> {NoRequest} \union RequestState]
      /\ request'[t] = new
      /\ \A s \in Request \ {t} : request'[s] = request[s]
      /\ new.pc # "idle"
  BY DEF AdmissionInv, AdmissionTypes, RequestState
<1>2. AdmissionTypes'
  BY <1>1 DEF AdmissionInv, AdmissionTypes
<1>3. Rows' = Rows /\ t \notin Rows
  BY DEF Rows
<1>4. \A s \in Rows : request'[s] = request[s] /\ request[s].pc = "done"
  BY <1>1, <1>3 DEF AdmissionInv, RequestsSound, Rows
<1>5. RequestsSound'
  <2> SUFFICES ASSUME NEW s \in Request
               PROVE  /\ phase'[s] # "none" => request'[s].pc = "done"
                      /\ phase'[s] # "none" \/ request'[s].pc \in {"insert", "quota", "conflict"} =>
                           (request'[s].header # None => request'[s].config[1] = request'[s].header)
    BY DEF RequestsSound, PresetOf
  <2>1. CASE s = t
    BY <1>1, <2>1
  <2>2. CASE s # t
    BY <1>1, <2>2 DEF AdmissionInv, RequestsSound, PresetOf
  <2> QED BY <2>1, <2>2
<1>6. KeysUnique'
  BY <1>3, <1>4 DEF AdmissionInv, KeysUnique
<1>7. ConfigKept'
  BY <1>3, <1>4 DEF AdmissionInv, ConfigKept, InDatabase, settingsVars
<1>8. AnswersSound'
  <2> SUFFICES ASSUME NEW s \in Request, answer'[s].task # None
               PROVE  LET task == answer'[s].task IN
                      /\ request'[s].pc = "done" /\ request'[task].pc = "done"
                      /\ request'[task].client = request'[s].client
                      /\ request'[s].key # None => request'[task].key = request'[s].key
                      /\ request'[s].header # None /\ answer'[s].code # "IDEMPOTENCY_SCOPE_MISMATCH" =>
                           request'[task].config[1] = request'[s].header
    BY DEF AnswersSound, PresetOf
  <2>1. CASE s = t
    BY <1>1, <1>4, <2>1 DEF PresetOf
  <2>2. CASE s # t
    <3>1. answer[s].task \in Request
      BY <2>2 DEF AdmissionInv, AdmissionTypes, Answer
    <3>2. request[s].pc = "done" /\ request[answer[s].task].pc = "done"
      BY <2>2 DEF AdmissionInv, AnswersSound
    <3>3. request'[answer[s].task] = request[answer[s].task] /\ request'[s] = request[s]
      BY <1>1, <2>2, <3>1, <3>2
    <3> QED BY <2>2, <3>3 DEF AdmissionInv, AnswersSound, PresetOf
  <2> QED BY <2>1, <2>2
<1> QED BY <1>2, <1>5, <1>6, <1>7, <1>8 DEF AdmissionInv

\* What a look-up tells of the row it finds.
LEMMA ReplyFound ==
  ASSUME AdmissionInv, NEW t \in Request, NEW client, NEW key, NEW requested,
         NEW existing \in Bound(client, key), ReplyExisting(t, existing, requested)
  PROVE  /\ answer' \in [Request -> Answer]
         /\ \A s \in Request \ {t} : answer'[s] = answer[s]
         /\ answer'[t].task = existing /\ existing \in Rows
         /\ request[existing].client = client /\ request[existing].key = key
         /\ requested # None /\ answer'[t].code # "IDEMPOTENCY_SCOPE_MISMATCH" =>
              PresetOf(existing) = requested
<1>1. /\ existing \in Rows /\ existing \in Request
      /\ request[existing].client = client /\ request[existing].key = key
  BY DEF Bound, Rows
<1>2. phase[existing] \in {"open", "void", "kept", "closing", "gone"}
  BY <1>1 DEF AdmissionInv, AdmissionTypes, Rows
<1>3. PICK code \in {"IDEMPOTENCY_SCOPE_MISMATCH", "UPLOAD_IN_PROGRESS",
                     "IDEMPOTENCY_KEY_REUSED", "replayed"} :
        /\ Reply(t, code, existing)
        /\ requested # None /\ requested # PresetOf(existing) =>
             code = "IDEMPOTENCY_SCOPE_MISMATCH"
  BY <1>2 DEF ReplyExisting
<1>4. [code |-> code, task |-> existing] \in Answer
  BY <1>1, <1>3 DEF Answer
<1>5. answer' = [answer EXCEPT ![t] = [code |-> code, task |-> existing]]
  BY <1>3 DEF Reply
<1> QED BY <1>1, <1>3, <1>4, <1>5 DEF AdmissionInv, AdmissionTypes

\* An answer that tells of no task.
LEMMA ReplyNone ==
  ASSUME AdmissionInv, NEW t \in Request, Reply(t, "refused", None) \/ Reply(t, "UPLOAD_IN_PROGRESS", None)
                                          \/ Reply(t, "CLIENT_QUOTA_EXCEEDED", None)
  PROVE  /\ answer' \in [Request -> Answer]
         /\ \A s \in Request \ {t} : answer'[s] = answer[s]
         /\ answer'[t].task = None
BY DEF AdmissionInv, AdmissionTypes, Reply, Answer

LEMMA ArriveStep ==
  ASSUME AdmissionInv, NEW t \in Request, NEW client \in Client, NEW key \in Key \union {None},
         NEW header \in Preset \union {None}, NEW size \in Size \union {0},
         Arrive(t, client, key, header, size)
  PROVE  AdmissionInv'
<1> DEFINE new == [pc |-> IF Bound(client, key) = {} THEN "resolve" ELSE "done",
                   client |-> client, key |-> key, header |-> header, config |-> None,
                   size |-> size]
<1>1. /\ new \in RequestState
      /\ new.pc \notin {"insert", "quota", "conflict"}
      /\ new.client = client /\ new.key = key /\ new.header = header
  BY DEF RequestState
<1>2. /\ request[t].pc = "idle"
      /\ request' = [request EXCEPT ![t] = new]
      /\ UNCHANGED <<settingsVars, phase>>
  BY DEF Arrive, NoRequest
<1>3. phase[t] = "none"
  BY <1>2 DEF AdmissionInv, RequestsSound
<1>4. CASE Bound(client, key) = {}
  <2>1. UNCHANGED answer
    BY <1>4 DEF Arrive
  <2>2. answer[t].task = None
    BY <1>2 DEF AdmissionInv, AnswersSound
  <2>3. answer' \in [Request -> Answer]
    BY <2>1 DEF AdmissionInv, AdmissionTypes
  <2> HIDE DEF new
  <2> QED BY <1>1, <1>2, <1>3, <2>1, <2>2, <2>3, RequestMoves
<1>5. CASE Bound(client, key) # {}
  <2>1. PICK existing \in Bound(client, key) : ReplyExisting(t, existing, header)
    BY <1>5 DEF Arrive
  <2>2. /\ answer' \in [Request -> Answer]
        /\ \A s \in Request \ {t} : answer'[s] = answer[s]
        /\ answer'[t].task = existing /\ existing \in Rows
        /\ request[existing].client = client /\ request[existing].key = key
        /\ header # None /\ answer'[t].code # "IDEMPOTENCY_SCOPE_MISMATCH" =>
             PresetOf(existing) = header
    BY <2>1, ReplyFound
  <2>3. new.pc = "done"
    BY <1>5
  <2> HIDE DEF new
  <2> QED BY <1>1, <1>2, <1>3, <2>2, <2>3, RequestMoves
<1> QED BY <1>4, <1>5

LEMMA ResolveStep ==
  ASSUME AdmissionInv, SettingsInv, NEW t \in Request, Resolve(t)
  PROVE  AdmissionInv'
<1>1. /\ request[t].pc = "resolve" /\ request[t] \in RequestState
      /\ request[t].header \in Preset \union {None}
      /\ UNCHANGED <<settingsVars, phase>>
      /\ request \in [Request -> {NoRequest} \union RequestState]
  BY RequestHas DEF Resolve, AdmissionInv, AdmissionTypes
<1>2. phase[t] = "none"
  BY <1>1 DEF AdmissionInv, RequestsSound
<1>3. CASE Available(t)
  <2> DEFINE new == [request[t] EXCEPT !.pc = "insert", !.config = <<Wanted(t), installed[Wanted(t)]>>]
  <2>1. request' = [request EXCEPT ![t] = new] /\ UNCHANGED answer
    BY <1>1, <1>3 DEF Resolve
  <2>2. Wanted(t) \in Preset /\ installed[Wanted(t)] \in Revision
    BY <1>1, <1>3 DEF Available, Wanted, SettingsInv, SettingsTypeOK
  <2>3. /\ new \in RequestState /\ new.pc = "insert" /\ new.header = request[t].header
        /\ new.config[1] = Wanted(t)
    BY <1>1, <2>2 DEF RequestState
  <2>4. new.header # None => new.config[1] = new.header
    BY <2>3 DEF Wanted
  <2>5. answer'[t].task = None /\ answer' \in [Request -> Answer]
    BY <1>1, <2>1 DEF AdmissionInv, AnswersSound, AdmissionTypes
  <2> HIDE DEF new
  <2> QED BY <1>1, <1>2, <2>1, <2>3, <2>4, <2>5, RequestMoves
<1>4. CASE ~Available(t)
  <2> DEFINE new == [request[t] EXCEPT !.pc = "done"]
  <2>1. request' = [request EXCEPT ![t] = new] /\ Reply(t, "refused", None)
    BY <1>1, <1>4 DEF Resolve
  <2>2. new \in RequestState /\ new.pc = "done"
    BY <1>1 DEF RequestState
  <2> HIDE DEF new
  <2> QED BY <1>1, <1>2, <2>1, <2>2, ReplyNone, RequestMoves
<1> QED BY <1>3, <1>4

LEMMA AbortStep ==
  ASSUME AdmissionInv, NEW t \in Request, Abort(t)
  PROVE  AdmissionInv'
<1> DEFINE new == [request[t] EXCEPT !.pc = "done"]
<1>1. /\ request[t].pc # "done" /\ request[t] \in RequestState
      /\ request' = [request EXCEPT ![t] = new] /\ Reply(t, "refused", None)
      /\ UNCHANGED <<settingsVars, phase>>
  BY RequestHas DEF Abort, AdmissionInv, AdmissionTypes
<1>2. phase[t] = "none"
  BY <1>1 DEF AdmissionInv, RequestsSound
<1>3. new \in RequestState /\ new.pc = "done"
  BY <1>1 DEF RequestState
<1> HIDE DEF new
<1> QED BY <1>1, <1>2, <1>3, ReplyNone, RequestMoves

LEMMA LookUpAgainStep ==
  ASSUME AdmissionInv, NEW t \in Request, LookUpAgain(t)
  PROVE  AdmissionInv'
<1> DEFINE r == request[t]
           new == [request[t] EXCEPT !.pc = "done"]
<1>1. /\ r.pc \in {"quota", "conflict"} /\ request[t] \in RequestState
      /\ request' = [request EXCEPT ![t] = new]
      /\ UNCHANGED <<settingsVars, phase>>
  BY RequestHas DEF LookUpAgain, AdmissionInv, AdmissionTypes
<1>2. phase[t] = "none" /\ r.pc # "done"
  BY <1>1 DEF AdmissionInv, RequestsSound
<1>3. r.header # None => r.config[1] = r.header
  BY <1>1 DEF AdmissionInv, RequestsSound, PresetOf
<1>4. /\ new \in RequestState /\ new.pc = "done"
      /\ new.client = r.client /\ new.key = r.key /\ new.header = r.header
  BY <1>1 DEF RequestState
<1>5. CASE Bound(r.client, r.key) = {}
  <2>1. Reply(t, "CLIENT_QUOTA_EXCEEDED", None) \/ Reply(t, "UPLOAD_IN_PROGRESS", None)
    BY <1>5 DEF LookUpAgain
  <2> HIDE DEF new, r
  <2> QED BY <1>1, <1>2, <1>4, <2>1, ReplyNone, RequestMoves DEF r
<1>6. CASE Bound(r.client, r.key) # {}
  <2>1. PICK existing \in Bound(r.client, r.key) : ReplyExisting(t, existing, r.config[1])
    BY <1>6 DEF LookUpAgain
  <2>2. /\ answer' \in [Request -> Answer]
        /\ \A s \in Request \ {t} : answer'[s] = answer[s]
        /\ answer'[t].task = existing /\ existing \in Rows
        /\ request[existing].client = r.client /\ request[existing].key = r.key
        /\ r.config[1] # None /\ answer'[t].code # "IDEMPOTENCY_SCOPE_MISMATCH" =>
             PresetOf(existing) = r.config[1]
    BY <2>1, ReplyFound
  <2>3. /\ request[answer'[t].task].client = new.client
        /\ new.key # None => request[answer'[t].task].key = new.key
        /\ new.header # None /\ answer'[t].code # "IDEMPOTENCY_SCOPE_MISMATCH" =>
             PresetOf(answer'[t].task) = new.header
    BY <1>3, <1>4, <2>2
  <2> HIDE DEF new
  <2> QED BY <1>1, <1>2, <1>4, <2>2, <2>3, RequestMoves DEF r
<1> QED BY <1>5, <1>6

\* The row is inserted: its key is free, its configuration is there.
LEMMA AdmitStep ==
  ASSUME AdmissionInv, NEW t \in Request, request[t].pc = "insert",
         Bound(request[t].client, request[t].key) = {}, InDatabase(request[t].config),
         request' = [request EXCEPT ![t].pc = "done"],
         phase' = [phase EXCEPT ![t] = "open"],
         Reply(t, "admitted", t),
         UNCHANGED settingsVars
  PROVE  AdmissionInv'
<1> DEFINE r == request[t]
           new == [request[t] EXCEPT !.pc = "done"]
<1>1. /\ request[t] \in RequestState
      /\ request' = [request EXCEPT ![t] = new]
      /\ phase' = [phase EXCEPT ![t] = "open"]
      /\ answer' = [answer EXCEPT ![t] = [code |-> "admitted", task |-> t]]
      /\ request \in [Request -> {NoRequest} \union RequestState]
      /\ phase \in [Request -> {"none", "open", "void", "kept", "closing", "gone"}]
      /\ answer \in [Request -> Answer]
  BY RequestHas DEF AdmissionInv, AdmissionTypes, Reply
<1>2. /\ new \in RequestState /\ new.pc = "done" /\ new.client = r.client
      /\ new.key = r.key /\ new.header = r.header /\ new.config = r.config
  BY <1>1 DEF RequestState
<1> HIDE DEF new
<1>3. request'[t] = new /\ \A s \in Request \ {t} : request'[s] = request[s]
  BY <1>1
<1>4. AdmissionTypes'
  BY <1>1, <1>2 DEF AdmissionTypes, Answer
<1>5. Rows' = Rows \union {t}
  BY <1>1 DEF Rows
<1>6. RequestsSound'
  BY <1>1, <1>2, <1>3 DEF AdmissionInv, RequestsSound, PresetOf
<1>7. KeysUnique'
  <2> SUFFICES ASSUME NEW s \in Rows', NEW u \in Rows', s # u,
                      request'[s].client = request'[u].client,
                      request'[s].key = request'[u].key, request'[s].key # None
               PROVE  FALSE
    BY DEF KeysUnique
  <2>1. s \in Rows \/ s = t
    BY <1>5
  <2>2. u \in Rows \/ u = t
    BY <1>5
  <2>3. s \in Request /\ u \in Request
    BY DEF Rows
  <2>4. CASE s # t /\ u # t
    BY <1>3, <2>1, <2>2, <2>3, <2>4 DEF AdmissionInv, KeysUnique
  <2>5. CASE s = t
    <3>1. u \in Bound(r.client, r.key)
      BY <1>2, <1>3, <2>2, <2>3, <2>5 DEF Bound
    <3> QED BY <3>1
  <2>6. CASE u = t
    <3>1. s \in Bound(r.client, r.key)
      BY <1>2, <1>3, <2>1, <2>3, <2>6 DEF Bound
    <3> QED BY <3>1
  <2> QED BY <2>4, <2>5, <2>6
<1>8. ConfigKept'
  <2> SUFFICES ASSUME NEW s \in Rows'
               PROVE  \E x \in configs' : <<x.preset, x.revision>> = request'[s].config
    BY DEF ConfigKept, InDatabase
  <2>1. request'[s].config = request[s].config
    BY <1>2, <1>3 DEF Rows
  <2>2. InDatabase(request[s].config)
    BY <1>5 DEF AdmissionInv, ConfigKept
  <2> QED BY <2>1, <2>2 DEF InDatabase, settingsVars
<1>9. AnswersSound'
  <2> SUFFICES ASSUME NEW s \in Request, answer'[s].task # None
               PROVE  LET task == answer'[s].task IN
                      /\ request'[s].pc = "done" /\ request'[task].pc = "done"
                      /\ request'[task].client = request'[s].client
                      /\ request'[s].key # None => request'[task].key = request'[s].key
                      /\ request'[s].header # None /\ answer'[s].code # "IDEMPOTENCY_SCOPE_MISMATCH" =>
                           request'[task].config[1] = request'[s].header
    BY DEF AnswersSound, PresetOf
  <2>1. CASE s = t
    <3>1. answer'[s].task = t
      BY <1>1, <2>1
    <3>2. r.header # None => r.config[1] = r.header
      BY DEF AdmissionInv, RequestsSound, PresetOf
    <3> QED BY <1>2, <1>3, <2>1, <3>1, <3>2
  <2>2. CASE s # t
    <3>1. answer'[s] = answer[s]
      BY <1>1, <2>2
    <3>2. answer[s].task \in Request
      BY <1>1, <3>1 DEF Answer
    <3>3. request[s].pc = "done" /\ request[answer[s].task].pc = "done"
      BY <3>1 DEF AdmissionInv, AnswersSound
    <3>4. request'[answer[s].task] = request[answer[s].task] /\ request'[s] = request[s]
      BY <1>3, <3>2, <3>3
    <3> QED BY <3>1, <3>4 DEF AdmissionInv, AnswersSound, PresetOf
  <2> QED BY <2>1, <2>2
<1> QED BY <1>4, <1>6, <1>7, <1>8, <1>9 DEF AdmissionInv

LEMMA InsertStep ==
  ASSUME AdmissionInv, NEW t \in Request, Insert(t)
  PROVE  AdmissionInv'
<1> DEFINE r == request[t]
<1>1. r.pc = "insert" /\ r \in RequestState /\ UNCHANGED settingsVars
  BY RequestHas DEF Insert, AdmissionInv, AdmissionTypes
<1>2. phase[t] = "none"
  BY <1>1 DEF AdmissionInv, RequestsSound
<1>3. CASE \E pc \in {"quota", "conflict"} : request' = [request EXCEPT ![t].pc = pc]
                                             /\ UNCHANGED <<phase, answer>>
  <2>1. PICK pc \in {"quota", "conflict"} : request' = [request EXCEPT ![t].pc = pc]
    BY <1>3
  <2> DEFINE new == [request[t] EXCEPT !.pc = pc]
  <2>2. /\ new \in RequestState /\ new.pc = pc
        /\ new.header = r.header /\ new.config = r.config
    BY <1>1 DEF RequestState
  <2>3. new.header # None => new.config[1] = new.header
    BY <1>1, <2>2 DEF AdmissionInv, RequestsSound, PresetOf
  <2>4. answer[t].task = None /\ answer \in [Request -> Answer] /\ answer' = answer
    BY <1>1, <1>3 DEF AdmissionInv, AnswersSound, AdmissionTypes
  <2>5. request' = [request EXCEPT ![t] = new] /\ UNCHANGED <<settingsVars, phase>>
    BY <1>1, <1>3, <2>1
  <2> HIDE DEF new
  <2> QED BY <1>1, <1>2, <2>2, <2>3, <2>4, <2>5, RequestMoves
<1>4. CASE /\ Bound(r.client, r.key) = {} /\ InDatabase(r.config)
           /\ request' = [request EXCEPT ![t].pc = "done"]
           /\ phase' = [phase EXCEPT ![t] = "open"]
           /\ Reply(t, "admitted", t)
  BY <1>1, <1>4, AdmitStep
<1> QED BY <1>3, <1>4 DEF Insert

\* A row that lives on, or that retention forgets.
LEMMA ProceedStep ==
  ASSUME AdmissionInv, NEW t \in Request, NEW to \in {"void", "kept", "closing", "gone", "none"},
         Proceed(t, to)
  PROVE  AdmissionInv'
<1>1. /\ phase[t] # "none" /\ phase' = [phase EXCEPT ![t] = to]
      /\ UNCHANGED <<settingsVars, request, answer>>
  BY DEF Proceed
<1>2. AdmissionTypes'
  BY <1>1 DEF AdmissionInv, AdmissionTypes
<1>3. Rows' \subseteq Rows
  BY <1>1 DEF AdmissionInv, AdmissionTypes, Rows
<1>4. RequestsSound'
  <2>1. \A s \in Request : phase'[s] # "none" => phase[s] # "none"
    BY <1>1 DEF AdmissionInv, AdmissionTypes
  <2> QED BY <1>1, <2>1 DEF AdmissionInv, RequestsSound, PresetOf
<1>5. KeysUnique' /\ AnswersSound'
  BY <1>1, <1>3 DEF AdmissionInv, KeysUnique, AnswersSound, PresetOf
<1>6. ConfigKept'
  BY <1>1, <1>3 DEF AdmissionInv, ConfigKept, InDatabase, settingsVars
<1> QED BY <1>2, <1>4, <1>5, <1>6 DEF AdmissionInv

LEMMA RestartAdmission ==
  ASSUME AdmissionInv, Restart
  PROVE  AdmissionInv'
<1>1. /\ request' = [t \in Request |-> IF Live(t) THEN [request[t] EXCEPT !.pc = "done"]
                                       ELSE request[t]]
      /\ answer' = [t \in Request |-> IF Live(t) THEN [code |-> "lost", task |-> None]
                                      ELSE answer[t]]
      /\ phase' = phase /\ configs' = configs
  BY DEF Restart, RestartSettings
<1>2. \A t \in Request :
        /\ ~Live(t) => request'[t] = request[t] /\ answer'[t] = answer[t]
        /\ Live(t) => /\ request'[t] \in RequestState /\ request'[t].pc = "done"
                      /\ answer'[t] \in Answer /\ answer'[t].task = None
  <2> SUFFICES ASSUME NEW t \in Request, Live(t)
               PROVE  /\ request'[t] \in RequestState /\ request'[t].pc = "done"
                      /\ answer'[t] \in Answer /\ answer'[t].task = None
    BY <1>1
  <2>1. request[t] \in RequestState
    BY RequestHas DEF AdmissionInv, Live
  <2>2. request'[t] = [request[t] EXCEPT !.pc = "done"]
    BY <1>1
  <2>3. answer'[t] = [code |-> "lost", task |-> None]
    BY <1>1
  <2> QED BY <2>1, <2>2, <2>3 DEF RequestState, Answer
<1>3. AdmissionTypes'
  BY <1>1, <1>2 DEF AdmissionInv, AdmissionTypes
<1>4. Rows' = Rows /\ \A t \in Rows : request'[t] = request[t]
  BY <1>1, <1>2 DEF AdmissionInv, RequestsSound, Rows, Live
<1>5. RequestsSound'
  <2> SUFFICES ASSUME NEW t \in Request
               PROVE  /\ phase'[t] # "none" => request'[t].pc = "done"
                      /\ phase'[t] # "none" \/ request'[t].pc \in {"insert", "quota", "conflict"} =>
                           (request'[t].header # None => request'[t].config[1] = request'[t].header)
    BY DEF RequestsSound, PresetOf
  <2>1. CASE Live(t)
    BY <1>1, <1>2, <2>1 DEF AdmissionInv, RequestsSound, Live
  <2>2. CASE ~Live(t)
    BY <1>1, <1>2, <2>2 DEF AdmissionInv, RequestsSound, PresetOf
  <2> QED BY <2>1, <2>2
<1>6. KeysUnique'
  BY <1>4 DEF AdmissionInv, KeysUnique
<1>7. ConfigKept'
  BY <1>1, <1>4 DEF AdmissionInv, ConfigKept, InDatabase
<1>8. AnswersSound'
  <2> SUFFICES ASSUME NEW t \in Request, answer'[t].task # None
               PROVE  LET task == answer'[t].task IN
                      /\ request'[t].pc = "done" /\ request'[task].pc = "done"
                      /\ request'[task].client = request'[t].client
                      /\ request'[t].key # None => request'[task].key = request'[t].key
                      /\ request'[t].header # None /\ answer'[t].code # "IDEMPOTENCY_SCOPE_MISMATCH" =>
                           request'[task].config[1] = request'[t].header
    BY DEF AnswersSound, PresetOf
  <2>1. request'[t] = request[t] /\ answer'[t] = answer[t]
    BY <1>2
  <2>2. answer[t].task \in Request
    BY <2>1 DEF AdmissionInv, AdmissionTypes, Answer
  <2>3. request[answer[t].task].pc = "done"
    BY <2>1 DEF AdmissionInv, AnswersSound
  <2>4. request'[answer[t].task] = request[answer[t].task]
    BY <1>2, <2>2, <2>3 DEF Live
  <2> QED BY <2>1, <2>4 DEF AdmissionInv, AnswersSound, PresetOf
<1> QED BY <1>3, <1>5, <1>6, <1>7, <1>8 DEF AdmissionInv

\* The settings routes and retention: what tasks refer to stays.
LEMMA SettingsAside ==
  ASSUME AdmissionInv, UNCHANGED admissionVars,
         \A t \in Rows : InDatabase(request[t].config) => InDatabase(request[t].config)'
  PROVE  AdmissionInv'
<1>1. AdmissionTypes' /\ RequestsSound' /\ KeysUnique' /\ AnswersSound'
  BY DEF AdmissionInv, admissionVars, AdmissionTypes, RequestsSound, KeysUnique, AnswersSound,
         Rows, PresetOf
<1>2. ConfigKept'
  BY DEF AdmissionInv, admissionVars, ConfigKept, Rows, InDatabase
<1> QED BY <1>1, <1>2 DEF AdmissionInv

\* A configuration is never taken away, but by retention.
LEMMA ConfigsGrow ==
  ASSUME SettingsStep
  PROVE  configs \subseteq configs'
<1>1. CASE \E s \in Saver : FinishCreate(s) \/ FinishActivate(s)
  BY <1>1 DEF FinishCreate, FinishActivate, Install
<1>2. CASE UNCHANGED configs
  BY <1>2
<1> QED BY <1>1, <1>2
        DEF SettingsStep, BeginCreate, BeginActivate, SavingFails, SetEnabled, SetDefault

LEMMA AdmissionNextInv ==
  SettingsInv /\ AdmissionInv /\ [Next]_vars => AdmissionInv'
<1> SUFFICES ASSUME SettingsInv, AdmissionInv, [Next]_vars PROVE AdmissionInv'
  OBVIOUS
<1>1. ASSUME NEW t \in Request, AdmissionStep(t)
      PROVE  AdmissionInv'
  <2>1. CASE \E client \in Client, key \in Key \union {None}, size \in Size \union {0},
                header \in Preset \union {None} : Arrive(t, client, key, header, size)
    BY <2>1, ArriveStep
  <2> QED BY <1>1, <2>1, ResolveStep, InsertStep, LookUpAgainStep, AbortStep DEF AdmissionStep
<1>2. ASSUME NEW t \in Request, NEW to \in {"void", "kept", "closing", "gone", "none"},
             Proceed(t, to)
      PROVE  AdmissionInv'
  BY <1>2, ProceedStep
<1>3. CASE SettingsStep /\ UNCHANGED admissionVars
  <2>1. \A t \in Rows : InDatabase(request[t].config) => InDatabase(request[t].config)'
    BY <1>3, ConfigsGrow DEF InDatabase, admissionVars
  <2> QED BY <1>3, <2>1, SettingsAside
<1>4. CASE PurgeConfigs(Referenced) /\ UNCHANGED admissionVars
  <2>1. \A t \in Rows : InDatabase(request[t].config) => InDatabase(request[t].config)'
    BY <1>4 DEF PurgeConfigs, InDatabase, Referenced, admissionVars
  <2> QED BY <1>4, <2>1, SettingsAside
<1>5. CASE Restart
  BY <1>5, RestartAdmission
<1>6. CASE UNCHANGED vars
  <2>1. UNCHANGED admissionVars /\ UNCHANGED settingsVars
    BY <1>6 DEF vars
  <2>2. \A t \in Rows : InDatabase(request[t].config) => InDatabase(request[t].config)'
    BY <2>1 DEF InDatabase, settingsVars, admissionVars
  <2> QED BY <2>1, <2>2, SettingsAside
<1> QED BY <1>1, <1>2, <1>3, <1>4, <1>5, <1>6 DEF Next

-----------------------------------------------------------------------------
(* The theorems *)

\* Requests, the rows they insert, and what clients are told fit together.
THEOREM AdmissionInvariant == Spec => [](SettingsInv /\ AdmissionInv)
<1>1. Spec => []SettingsInv
  BY SettingsImplemented, SettingsInvariant, PTL
<1>2. Spec => []AdmissionInv
  BY <1>1, AdmissionInitInv, AdmissionNextInv, PTL DEF Spec
<1> QED BY <1>1, <1>2, PTL

\* Every value of the settings and of the requests has its type.
THEOREM AdmissionTyped == Spec => []AdmissionTypeOK
<1>1. SettingsInv /\ AdmissionInv => AdmissionTypeOK
  BY DEF SettingsInv, AdmissionInv, AdmissionTypes, AdmissionTypeOK
<1> QED BY <1>1, AdmissionInvariant, PTL

\* The settings keep one usable default preset, whatever uploads do.
THEOREM DefaultStays == Spec => []DefaultExists
BY SettingsImplemented, DefaultsHold, PTL

\* Uploads are served from what the database says, if presets can be re-read.
THEOREM MemoryStays ==
  ASSUME LoadMayFail = FALSE
  PROVE  Spec => []MemoryAgrees
BY SettingsImplemented, MemoryHolds, PTL

\* No administrator replaces a revision unseen, but through the alias route.
THEOREM RevisionsStay ==
  ASSUME AliasRoute = FALSE
  PROVE  Spec => []RevisionsSucceed
BY SettingsImplemented, RevisionsHold, PTL

\* No configuration of a row is purged, however long its request waited.
THEOREM ConfigsKept == Spec => []ConfigKept
<1>1. AdmissionInv => ConfigKept
  BY DEF AdmissionInv
<1> QED BY <1>1, AdmissionInvariant, PTL

\* Whoever sends a key gets to know one task only, through any of the three
\* look-ups and for any number of requests in between.
THEOREM KeysAnswered == Spec => []IdempotentAnswers
<1>1. AdmissionInv => IdempotentAnswers
  <2> SUFFICES ASSUME AdmissionInv PROVE IdempotentAnswers
    OBVIOUS
  <2>1. ASSUME NEW s \in Request, NEW t \in Request,
               None \notin {answer[s].task, answer[t].task},
               {answer[s].task, answer[t].task} \subseteq Rows,
               request[s].client = request[t].client,
               request[s].key = request[t].key, request[s].key # None
        PROVE  Cardinality({answer[s].task, answer[t].task}) = 1
    <3>1. answer[s].task = answer[t].task
      BY <2>1 DEF AdmissionInv, AnswersSound, KeysUnique
    <3>2. {answer[s].task, answer[t].task} = {answer[s].task}
      BY <3>1
    <3> QED BY <3>2, FS_Singleton
  <2>2. \A t \in Request : answer[t].task # None
          => request[answer[t].task].client = request[t].client
    BY DEF AdmissionInv, AnswersSound
  <2> QED BY <2>1, <2>2 DEF IdempotentAnswers
<1> QED BY <1>1, AdmissionInvariant, PTL

\* A request that names a preset hears of a task of that preset, or of the
\* mismatch.
THEOREM PresetsHonoured == Spec => []PresetHonoured
<1>1. AdmissionInv => PresetHonoured
  BY DEF AdmissionInv, AnswersSound, PresetHonoured
<1> QED BY <1>1, AdmissionInvariant, PTL

\* An upload begins with the current revision of its preset, which is enabled,
\* if presets can be re-read after every change.
THEOREM CurrentResolved ==
  ASSUME LoadMayFail = FALSE
  PROVE  Spec => ResolvesCurrent
<1> DEFINE Current(t) ==
      request[t].pc = "resolve" /\ request'[t].pc = "insert" =>
        LET p == IF request[t].header = None THEN DefaultOf(presets)
                 ELSE request[t].header IN
        /\ presets[p].enabled
        /\ request'[t].config = <<p, active[p]>>
<1>1. SettingsInv /\ AdmissionInv /\ [Next]_vars => [\A t \in Request : Current(t)]_vars
  <2> SUFFICES ASSUME SettingsInv, AdmissionInv, Next, NEW t \in Request,
                      request[t].pc = "resolve", request'[t].pc = "insert"
               PROVE  LET p == IF request[t].header = None THEN DefaultOf(presets)
                               ELSE request[t].header IN
                      /\ presets[p].enabled
                      /\ request'[t].config = <<p, active[p]>>
    OBVIOUS
  <2>1. request \in [Request -> {NoRequest} \union RequestState]
    BY DEF AdmissionInv, AdmissionTypes
  <2>2. Resolve(t)
    <3>1. ~Restart
      <4>1. [request[t] EXCEPT !.pc = "done"].pc = "done"
        BY RequestHas DEF AdmissionInv, RequestState
      <4> QED BY <4>1 DEF Restart, Live
    <3>2. \A u \in Request, to \in {"void", "kept", "closing", "gone", "none"} : ~Proceed(u, to)
      BY DEF Proceed
    <3>3. ~UNCHANGED admissionVars
      BY DEF admissionVars
    <3>4. PICK u \in Request : AdmissionStep(u)
      BY <3>1, <3>2, <3>3 DEF Next
    <3>5. u = t
      BY <2>1, <3>4 DEF AdmissionStep, Arrive, Resolve, Insert, LookUpAgain, Abort
    <3> QED BY <2>1, <3>4, <3>5 DEF AdmissionStep, Arrive, Insert, LookUpAgain, Abort, NoRequest
  <2>3. /\ Available(t)
        /\ request'[t].config = <<Wanted(t), installed[Wanted(t)]>>
    BY <2>1, <2>2, RequestHas DEF Resolve, AdmissionInv
  <2>4. installed = active /\ default = DefaultOf(presets)
    BY DEF SettingsInv, MemoryAgrees
  <2>5. CASE request[t].header = None
    <3>1. DefaultOf(presets) # None
      BY <2>3, <2>4, <2>5 DEF Available, Wanted
    <3>2. DefaultOf(presets) \in Defaults(presets)
      BY <3>1 DEF DefaultOf
    <3>3. presets[DefaultOf(presets)].enabled
      BY <3>2 DEF SettingsInv, PresetsSound, DefaultExists, Existing, Defaults
    <3> QED BY <2>3, <2>4, <2>5, <3>3 DEF Wanted
  <2>6. CASE request[t].header # None
    BY <2>3, <2>4, <2>6 DEF Available, Wanted
  <2> QED BY <2>5, <2>6
<1>2. Spec => [][\A t \in Request : Current(t)]_vars
  BY <1>1, AdmissionInvariant, PTL DEF Spec
<1> QED BY <1>2 DEF ResolvesCurrent

-----------------------------------------------------------------------------
(* The quota *)

\* The files of a client's counted rows that may be stored.
Objects(client) == {t \in Counted(client) : request[t].size # 0}

Within(count, bytes) ==
  /\ MaxObjects # 0 => count <= MaxObjects
  /\ MaxBytes # 0 => bytes <= MaxBytes

QuotaInv ==
  /\ IsFiniteSet(Rows)
  /\ \A client \in Client :
       Within(Cardinality(Objects(client)), SizeOf(request, Objects(client)))

\* The sum of the quota is the one module Sums is about.
LEMMA BytesMeans ==
  ASSUME NEW tasks
  PROVE  Bytes(tasks) = SizeOf(request, tasks)
BY DEF Bytes, SizeOf

LEMMA RowsHaveSizes ==
  ASSUME AdmissionInv, IsFiniteSet(Rows), NEW client
  PROVE  /\ Objects(client) \subseteq Counted(client)
         /\ Counted(client) \subseteq Rows
         /\ IsFiniteSet(Counted(client)) /\ IsFiniteSet(Objects(client))
         /\ \A t \in Counted(client) : t \in Request /\ request[t].size \in Nat
<1>1. Objects(client) \subseteq Counted(client) /\ Counted(client) \subseteq Rows
  BY DEF Objects, Counted
<1>2. IsFiniteSet(Counted(client)) /\ IsFiniteSet(Objects(client))
  BY <1>1, FS_Subset
<1>3. \A t \in Counted(client) : t \in Request /\ request[t].size \in Nat
  <2> SUFFICES ASSUME NEW t \in Counted(client)
               PROVE  t \in Request /\ request[t].size \in Nat
    OBVIOUS
  <2>1. t \in Request /\ request[t].pc = "done"
    BY <1>1 DEF Rows, AdmissionInv, RequestsSound
  <2>2. request[t].size \in Size \union {0}
    BY <2>1, RequestHas DEF AdmissionInv
  <2>3. Size \union {0} \subseteq Nat
    BY AdmissionAssumption
  <2> QED BY <2>1, <2>2, <2>3
<1> QED BY <1>1, <1>2, <1>3

\* Counting fewer objects of the same sizes keeps the quota.
LEMMA QuotaKept ==
  ASSUME AdmissionInv, QuotaInv, Rows' \subseteq Rows,
         \A t \in Rows' : request'[t] = request[t],
         \A t \in Rows' : phase'[t] \in {"open", "kept", "closing"} =>
                            phase[t] \in {"open", "kept", "closing"}
  PROVE  QuotaInv'
<1>1. IsFiniteSet(Rows')
  BY FS_Subset DEF QuotaInv
<1>2. ASSUME NEW client \in Client
      PROVE  Within(Cardinality(Objects(client)), SizeOf(request, Objects(client)))'
  <2> DEFINE old == Objects(client)
             new == Objects(client)'
  <2>1. new \subseteq old
    BY DEF Objects, Counted
  <2>2. /\ IsFiniteSet(old) /\ IsFiniteSet(new)
        /\ \A t \in old : request[t].size \in Nat
    BY <2>1, RowsHaveSizes, FS_Subset DEF QuotaInv
  <2>3. Alike(request', request, new)
    BY DEF Alike, Objects, Counted
  <2>4. Within(Cardinality(old), SizeOf(request, old))
    BY DEF QuotaInv
  <2> HIDE DEF old, new
  <2>6. /\ Cardinality(new) <= Cardinality(old)
        /\ Cardinality(new) \in Nat /\ Cardinality(old) \in Nat
    BY <2>1, <2>2, FS_Subset, FS_CardinalityType
  <2>7. SizeOf(request', new) = SizeOf(request, new)
    BY <2>2, <2>3, SizeOfSame
  <2>8. SizeOf(request, new) <= SizeOf(request, old)
    BY <2>1, <2>2, SizeOfSubset
  <2>9. SizeOf(request, new) \in Nat /\ SizeOf(request, old) \in Nat
    BY <2>1, <2>2, SizeOfWithout
  <2>10. Within(Cardinality(new), SizeOf(request', new))
    BY <2>4, <2>6, <2>7, <2>8, <2>9, AdmissionAssumption DEF Within
  <2> QED BY <2>10 DEF new
<1> QED BY <1>1, <1>2 DEF QuotaInv

\* The transaction counts before it inserts.
LEMMA QuotaInsert ==
  ASSUME AdmissionInv, QuotaInv, NEW t \in Request, Insert(t)
  PROVE  QuotaInv'
<1> DEFINE r == request[t]
<1>1. r.pc = "insert" /\ r \in RequestState
  BY RequestHas DEF Insert, AdmissionInv, AdmissionTypes
<1>2. phase[t] = "none" /\ t \notin Rows
  BY <1>1 DEF AdmissionInv, RequestsSound, Rows
<1>3. /\ request \in [Request -> {NoRequest} \union RequestState]
      /\ phase \in [Request -> {"none", "open", "void", "kept", "closing", "gone"}]
  BY DEF AdmissionInv, AdmissionTypes
<1>4. CASE UNCHANGED phase
  <2>1. Rows' = Rows
    BY <1>4 DEF Rows
  <2>2. \A s \in Rows : request'[s] = request[s]
    BY <1>2, <1>3 DEF Insert, Rows
  <2> QED BY <1>4, <2>1, <2>2, QuotaKept
<1>5. CASE ~UNCHANGED phase
  <2>1. /\ request' = [request EXCEPT ![t].pc = "done"]
        /\ phase' = [phase EXCEPT ![t] = "open"]
        /\ r.size # 0 => ~OverQuota(r.client, r.size)
    BY <1>5 DEF Insert
  <2>2. /\ phase'[t] = "open" /\ request'[t].client = r.client /\ request'[t].size = r.size
        /\ r.client \in Client /\ r.size \in Nat
        /\ \A s \in Request \ {t} : request'[s] = request[s] /\ phase'[s] = phase[s]
    BY <1>1, <1>3, <2>1, AdmissionAssumption DEF RequestState
  <2>3. Rows' = Rows \union {t}
    BY <1>3, <2>1, <2>2 DEF Rows
  <2>4. IsFiniteSet(Rows')
    BY <2>3, FS_AddElement DEF QuotaInv
  <2>5. ASSUME NEW client \in Client
        PROVE  Within(Cardinality(Objects(client)), SizeOf(request, Objects(client)))'
    <3> DEFINE old == Objects(client)
               new == Objects(client)'
               all == Counted(client)
    <3>1. /\ old \subseteq all /\ t \notin all /\ t \notin old
          /\ IsFiniteSet(old) /\ IsFiniteSet(all)
          /\ \A s \in all : request[s].size \in Nat
      BY <1>2, RowsHaveSizes DEF QuotaInv
    <3>2. /\ client = r.client /\ r.size # 0 => new = old \union {t}
          /\ ~(client = r.client /\ r.size # 0) => new = old
      <4>1. \A s \in Request \ {t} : s \in new <=> s \in old
        BY <2>2 DEF Objects, Counted, Rows
      <4>2. t \in new <=> client = r.client /\ r.size # 0
        BY <2>2 DEF Objects, Counted, Rows
      <4>3. old \subseteq Request /\ new \subseteq Request
        BY DEF Objects, Counted, Rows
      <4> HIDE DEF old, new
      <4>4. CASE client = r.client /\ r.size # 0
        BY <3>1, <4>1, <4>2, <4>3, <4>4
      <4>5. CASE ~(client = r.client /\ r.size # 0)
        BY <3>1, <4>1, <4>2, <4>3, <4>5
      <4> QED BY <4>4, <4>5
    <3>3. Alike(request', request, old \union {t})
      <4>1. \A s \in old : request'[s].size = request[s].size
        BY <2>2, <3>1 DEF Objects, Counted, Rows
      <4> HIDE DEF old
      <4> QED BY <2>2, <4>1 DEF Alike
    <3>4. Within(Cardinality(old), SizeOf(request, old))
      BY DEF QuotaInv
    <3>6. CASE new = old
      <4> HIDE DEF old, new
      <4>1. SizeOf(request', old) = SizeOf(request, old)
        BY <3>1, <3>3, SizeOfSame DEF Alike
      <4> QED BY <3>4, <3>6, <4>1 DEF new
    <3>7. CASE client = r.client /\ r.size # 0 /\ new = old \union {t}
      <4>1. /\ MaxObjects # 0 => Cardinality(all) + 1 <= MaxObjects
            /\ MaxBytes # 0 => SizeOf(request, all) + r.size <= MaxBytes
        <5>1. ~OverQuota(client, r.size)
          BY <2>1, <3>7
        <5>2. Cardinality(all) \in Nat /\ SizeOf(request, all) \in Nat
          BY <3>1, FS_CardinalityType, SizeOfWithout
        <5>3. /\ MaxObjects # 0 => ~(Cardinality(all) + 1 > MaxObjects)
              /\ MaxBytes # 0 => ~(SizeOf(request, all) + r.size > MaxBytes)
          BY <5>1, BytesMeans DEF OverQuota
        <5> HIDE DEF all
        <5> QED BY <2>2, <5>2, <5>3, AdmissionAssumption
      <4> HIDE DEF old, new, all
      <4>2. /\ Cardinality(new) = Cardinality(old) + 1
            /\ Cardinality(old) <= Cardinality(all)
            /\ Cardinality(old) \in Nat /\ Cardinality(all) \in Nat
        BY <3>1, <3>7, FS_AddElement, FS_Subset, FS_CardinalityType
      <4>3. IsFiniteSet(new) /\ \A s \in new : request[s].size \in Nat
        BY <2>2, <3>1, <3>7, FS_AddElement
      <4>4. SizeOf(request', new) = SizeOf(request, new)
        BY <3>3, <3>7, <4>3, SizeOfSame
      <4>5. SizeOf(request, new) = SizeOf(request, old) + r.size
        BY <3>1, <3>7, <4>3, SizeOfAdded
      <4>6. SizeOf(request, old) <= SizeOf(request, all)
        BY <3>1, SizeOfSubset
      <4>7. SizeOf(request, old) \in Nat /\ SizeOf(request, all) \in Nat
        BY <3>1, SizeOfWithout
      <4>8. Cardinality(old) + 1 <= Cardinality(all) + 1
        BY <4>2
      <4>9. SizeOf(request', new) <= SizeOf(request, all) + r.size
        BY <2>2, <4>4, <4>5, <4>6, <4>7
      <4>10. SizeOf(request', new) \in Nat
        BY <2>2, <4>4, <4>5, <4>7
      <4> HIDE DEF r
      <4>11. Within(Cardinality(new), SizeOf(request', new))
        BY <2>2, <4>1, <4>2, <4>7, <4>8, <4>9, <4>10, AdmissionAssumption DEF Within
      <4> QED BY <4>11 DEF new
    <3> QED BY <3>2, <3>6, <3>7
  <2> QED BY <2>4, <2>5 DEF QuotaInv
<1> QED BY <1>4, <1>5

LEMMA QuotaNext ==
  ASSUME Revivals = FALSE, AdmissionInv, QuotaInv, [Next]_vars
  PROVE  QuotaInv'
<1> DEFINE Counts == {"open", "kept", "closing"}
<1>1. /\ request \in [Request -> {NoRequest} \union RequestState]
      /\ phase \in [Request -> {"none", "open", "void", "kept", "closing", "gone"}]
  BY DEF AdmissionInv, AdmissionTypes
<1>2. \A t \in Rows : request[t].pc = "done"
  BY DEF AdmissionInv, RequestsSound, Rows
<1>3. ASSUME UNCHANGED phase, \A t \in Rows : request'[t] = request[t]
      PROVE  QuotaInv'
  <2>1. Rows' = Rows
    BY <1>3 DEF Rows
  <2> QED BY <1>3, <2>1, QuotaKept
<1>4. ASSUME NEW t \in Request, AdmissionStep(t)
      PROVE  QuotaInv'
  <2>1. CASE Insert(t)
    BY <2>1, QuotaInsert
  <2>2. CASE ~Insert(t)
    <3>1. /\ UNCHANGED phase
          /\ request[t].pc # "done"
          /\ \A s \in Request \ {t} : request'[s] = request[s]
      BY <1>1, <1>4, <2>2
         DEF AdmissionStep, Arrive, Resolve, LookUpAgain, Abort, NoRequest
    <3>2. \A s \in Rows : request'[s] = request[s]
      BY <1>2, <3>1 DEF Rows
    <3> QED BY <1>3, <3>1, <3>2
  <2> QED BY <2>1, <2>2
<1>5. ASSUME NEW t \in Request, NEW to \in {"void", "kept", "closing", "gone", "none"},
             Proceed(t, to)
      PROVE  QuotaInv'
  <2>1. /\ phase' = [phase EXCEPT ![t] = to] /\ UNCHANGED request
        /\ <<phase[t], to>> \in
             {<<"open", "void">>, <<"open", "kept">>, <<"kept", "closing">>,
              <<"closing", "kept">>, <<"closing", "gone">>, <<"void", "none">>,
              <<"gone", "none">>}
    BY <1>5 DEF Proceed
  <2>2. \A s \in Request : phase'[s] \in Counts => phase[s] \in Counts
    BY <1>1, <2>1
  <2>3. Rows' \subseteq Rows
    BY <1>1, <2>1 DEF Rows
  <2> QED BY <2>1, <2>2, <2>3, QuotaKept DEF Rows
<1>6. CASE Restart
  <2>1. \A t \in Rows : request'[t] = request[t]
    BY <1>2, <1>6 DEF Restart, Live, Rows
  <2> QED BY <1>3, <1>6, <2>1 DEF Restart
<1>7. CASE UNCHANGED admissionVars
  BY <1>3, <1>7 DEF admissionVars
<1>8. CASE UNCHANGED vars
  BY <1>7, <1>8 DEF vars
<1> QED BY <1>4, <1>5, <1>6, <1>7, <1>8 DEF Next

\* However many requests of a client check its quota and insert side by side,
\* what may come of its rows stays within it, unless a task that was given up
\* succeeds after all.
THEOREM QuotasHold ==
  ASSUME Revivals = FALSE
  PROVE  Spec => []QuotaHolds
<1>1. Init => QuotaInv
  <2> SUFFICES ASSUME Init PROVE QuotaInv
    OBVIOUS
  <2>1. Rows = {}
    BY DEF Init, AdmissionInit, Rows
  <2>2. \A client \in Client : Objects(client) = {}
    BY <2>1 DEF Objects, Counted
  <2>3. Within(Cardinality({}), SizeOf(request, {}))
    BY FS_EmptySet, SizeOfEmpty, AdmissionAssumption DEF Within
  <2> QED BY <2>1, <2>2, <2>3, FS_EmptySet DEF QuotaInv
<1>2. AdmissionInv /\ QuotaInv /\ [Next]_vars => QuotaInv'
  BY QuotaNext
<1>3. QuotaInv => QuotaHolds
  BY BytesMeans DEF QuotaInv, QuotaHolds, Within, Objects
<1> QED BY <1>1, <1>2, <1>3, AdmissionInvariant, PTL DEF Spec

-----------------------------------------------------------------------------
(* Tasks move as ObjectLifecycle has it *)

\* ObjectLifecycle for the tasks of Admission, which does not look at who may
\* delete an object: let it be the administrator.
Phases == INSTANCE ObjectLifecycle WITH
  Task <- Request, phase <- phase, promised <- {},
  owner <- [t \in Request |->
              IF phase[t] \in {"kept", "closing", "gone"} THEN "administrator"
              ELSE "nobody"]

\* The phases of one task move, the others stay.
LEMMA PhaseMoves ==
  ASSUME AdmissionTypes, Revivals = FALSE,
         NEW t \in Request, NEW to,
         phase' = [phase EXCEPT ![t] = to],
         \/ phase[t] = "none" /\ to = "open"
         \/ Proceed(t, to)
  PROVE  Phases!Next
<1> DEFINE ownerOf(p) == IF p \in {"kept", "closing", "gone"} THEN "administrator" ELSE "nobody"
           owner == [s \in Request |-> ownerOf(phase[s])]
<1>1. phase \in [Request -> {"none", "open", "void", "kept", "closing", "gone"}]
  BY DEF AdmissionTypes
<1>2. owner' = [owner EXCEPT ![t] = ownerOf(to)]
  BY <1>1
<1>3. owner[t] = ownerOf(phase[t])
  OBVIOUS
<1>4. ownerOf(to) = ownerOf(phase[t]) => owner' = owner
  BY <1>2, <1>3
<1>5. \/ phase[t] = "none" /\ to = "open"
      \/ <<phase[t], to>> \in
           {<<"open", "void">>, <<"open", "kept">>, <<"kept", "closing">>,
            <<"closing", "kept">>, <<"closing", "gone">>, <<"void", "none">>,
            <<"gone", "none">>}
  BY DEF Proceed
<1>6. CASE phase[t] = "none" /\ to = "open"
  <2>1. Phases!Open(t)
    BY <1>4, <1>6 DEF Phases!Open, Phases!Move
  <2> QED BY <2>1 DEF Phases!Next
<1>7. CASE phase[t] = "open" /\ to = "void"
  <2>1. Phases!Fail(t)
    BY <1>4, <1>7 DEF Phases!Fail, Phases!Move
  <2> QED BY <2>1 DEF Phases!Next
<1>8. CASE phase[t] = "open" /\ to = "kept"
  <2>1. owner' = [owner EXCEPT ![t] = "administrator"]
    BY <1>2, <1>8
  <2>2. Phases!Keep(t)
    BY <2>1, <1>8 DEF Phases!Keep, Phases!Move
  <2> QED BY <2>2 DEF Phases!Next
<1>9. CASE phase[t] = "kept" /\ to = "closing"
  <2>1. Phases!Close(t)
    BY <1>4, <1>9 DEF Phases!Close, Phases!Move
  <2> QED BY <2>1 DEF Phases!Next
<1>10. CASE phase[t] = "closing" /\ to = "kept"
  <2>1. Phases!Restore(t)
    BY <1>4, <1>10 DEF Phases!Restore, Phases!Move
  <2> QED BY <2>1 DEF Phases!Next
<1>11. CASE phase[t] = "closing" /\ to = "gone"
  <2>1. Phases!End(t)
    BY <1>4, <1>11 DEF Phases!End, Phases!Move
  <2> QED BY <2>1 DEF Phases!Next
<1>12. CASE phase[t] \in {"void", "gone"} /\ to = "none"
  <2>1. owner' = [owner EXCEPT ![t] = "nobody"]
    BY <1>2, <1>12
  <2>2. Phases!Forget(t)
    BY <2>1, <1>12 DEF Phases!Forget
  <2> QED BY <2>2 DEF Phases!Next
<1> QED BY <1>5, <1>6, <1>7, <1>8, <1>9, <1>10, <1>11, <1>12

\* What admission assumes of a task once it is inserted is what TaskLedger
\* implements (LifecycleImplemented), if nothing given up succeeds after all.
THEOREM PhasesImplemented ==
  ASSUME Revivals = FALSE
  PROVE  Spec => Phases!Spec
<1> DEFINE phaseVars == <<phase, [t \in Request |->
              IF phase[t] \in {"kept", "closing", "gone"} THEN "administrator"
              ELSE "nobody"], {}>>
<1>1. Init => Phases!Init
  BY DEF Init, AdmissionInit, Phases!Init
<1>2. AdmissionInv /\ [Next]_vars => [Phases!Next]_phaseVars
  <2> SUFFICES ASSUME AdmissionInv, [Next]_vars, phase' # phase
               PROVE  Phases!Next
    OBVIOUS
  <2>1. ASSUME NEW t \in Request, AdmissionStep(t)
        PROVE  phase[t] = "none" /\ phase' = [phase EXCEPT ![t] = "open"]
    <3>1. Insert(t)
      BY <2>1 DEF AdmissionStep, Arrive, Resolve, LookUpAgain, Abort
    <3>2. request[t].pc = "insert" /\ phase' = [phase EXCEPT ![t] = "open"]
      BY <3>1 DEF Insert
    <3>3. phase[t] = "none"
      BY <3>2 DEF AdmissionInv, RequestsSound
    <3> QED BY <3>2, <3>3
  <2>2. ASSUME NEW t \in Request, AdmissionStep(t)
        PROVE  Phases!Next
    BY <2>1, <2>2, PhaseMoves DEF AdmissionInv
  <2>3. ASSUME NEW t \in Request, NEW to, Proceed(t, to)
        PROVE  Phases!Next
    <3>1. phase' = [phase EXCEPT ![t] = to]
      BY <2>3 DEF Proceed
    <3> QED BY <2>3, <3>1, PhaseMoves DEF AdmissionInv
  <2>4. ~(UNCHANGED admissionVars) /\ ~Restart
    BY DEF admissionVars, Restart
  <2>5. ~UNCHANGED vars
    BY DEF vars, admissionVars
  <2> QED BY <2>2, <2>3, <2>4, <2>5 DEF Next
<1> QED BY <1>1, <1>2, AdmissionInvariant, PTL DEF Spec, Phases!Spec

\* Conversely, admission leaves out nothing that may become of a task: each move
\* of ObjectLifecycle is one of Proceed, but that files no PUT is made for are not
\* kept and that retention waits for requests with the task's key.
THEOREM MovesAdmitted ==
  ASSUME NEW t \in Request,
         \/ Phases!Fail(t) \/ Phases!Close(t) \/ Phases!End(t)
         \/ (Phases!Keep(t) \/ Phases!Restore(t)) /\ request[t].size # 0
         \/ Phases!Forget(t) /\ ~Contended(t),
         UNCHANGED <<settingsVars, request, answer>>
  PROVE  \E to \in {"void", "kept", "closing", "gone", "none"} : Proceed(t, to)
<1> USE DEF Proceed, Phases!Move
<1>1. CASE Phases!Fail(t)
  <2>1. Proceed(t, "void")
    BY <1>1 DEF Phases!Fail
  <2> QED BY <2>1
<1>2. CASE Phases!Close(t)
  <2>1. Proceed(t, "closing")
    BY <1>2 DEF Phases!Close
  <2> QED BY <2>1
<1>3. CASE Phases!Restore(t) /\ request[t].size # 0
  <2>1. Proceed(t, "kept")
    BY <1>3 DEF Phases!Restore
  <2> QED BY <2>1
<1>4. CASE Phases!End(t)
  <2>1. Proceed(t, "gone")
    BY <1>4 DEF Phases!End
  <2> QED BY <2>1
<1>5. CASE Phases!Keep(t) /\ request[t].size # 0
  <2>1. Proceed(t, "kept")
    BY <1>5 DEF Phases!Keep
  <2> QED BY <2>1
<1>6. CASE Phases!Forget(t) /\ ~Contended(t)
  <2>1. Proceed(t, "none")
    BY <1>6 DEF Phases!Forget
  <2> QED BY <2>1
<1> QED BY <1>1, <1>2, <1>3, <1>4, <1>5, <1>6
=============================================================================
