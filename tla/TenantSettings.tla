--------------------------- MODULE TenantSettings ---------------------------
(***************************************************************************)
(* The settings of one tenant in ovlt-core: the tenant_settings row and    *)
(* the handlers that save its three sections (lockout policy, token        *)
(* lifetimes, registration policy).                                        *)
(*                                                                         *)
(* A save is three statements without a transaction around them: get reads *)
(* the whole row, upsert looks whether there is a row, and then updates or *)
(* inserts all of it, its own section from the request and the others from *)
(* what get read.                                                          *)
(***************************************************************************)
EXTENDS Naturals

CONSTANTS
    Savers,          \* saves being served concurrently
    Sections,        \* put_lockout, put_token_ttl, put_registration
    Values,          \* what a section may be set to
    Default,         \* TenantSettings::default()
    MaxSaves,        \* bound: how often the row is written
    Absent

ASSUME SettingsAssumption ==
    /\ Default \in Values
    /\ MaxSaves \in Nat
    /\ Absent \notin [Sections -> Values]

VARIABLES
    row,        \* the tenant_settings row, Absent before the first save
    saves,      \* history: how often the row has been written
    saving      \* the save each worker is serving

settingsVars == <<row, saves, saving>>

Settings == [Sections -> Values]

\* begun: history, the value of saves when get ran
SettingsRequest == [step : {"got", "update", "insert"}, section : Sections, values : Settings, begun : 0..MaxSaves]

SettingsTypeOK ==
    /\ row \in Settings \cup {Absent}
    /\ saves \in 0..MaxSaves
    /\ saving \in [Savers -> SettingsRequest \cup {Absent}]

SettingsInit ==
    /\ row = Absent
    /\ saves = 0
    /\ saving = [w \in Savers |-> Absent]

-----------------------------------------------------------------------------
(* Helpers *)

\* get
Current == IF row = Absent THEN [s \in Sections |-> Default] ELSE row

SettingsFinish(w) == saving' = [saving EXCEPT ![w] = Absent]

-----------------------------------------------------------------------------
(* PUT /settings/lockout, /settings/tokens and /settings/registration *)

\* mutant of Get: the other sections are sent as they are by default
GetDefaults(w, s, v) ==
    /\ saving[w] = Absent
    /\ saving' = [saving EXCEPT ![w] = [step |-> "got", section |-> s, begun |-> saves,
                                  values |-> [[t \in Sections |-> Default] EXCEPT ![s] = v]]]
    /\ UNCHANGED <<row, saves>>

Get(w, s, v) ==
    /\ saving[w] = Absent
    /\ saving' = [saving EXCEPT ![w] = [step |-> "got", section |-> s, begun |-> saves,
                                  values |-> [Current EXCEPT ![s] = v]]]
    /\ UNCHANGED <<row, saves>>

\* The lookup at the start of upsert decides between update and insert.
Find(w) ==
    /\ saving[w] # Absent /\ saving[w].step = "got"
    /\ saving' = [saving EXCEPT ![w].step = IF row = Absent THEN "insert" ELSE "update"]
    /\ UNCHANGED <<row, saves>>

Update(w) ==
    /\ saving[w] # Absent /\ saving[w].step = "update"
    /\ saves < MaxSaves
    /\ row' = saving[w].values
    /\ saves' = saves + 1
    /\ SettingsFinish(w)

\* mutant of Insert: a conflict is resolved by overwriting
InsertOverwrites(w) ==
    /\ saving[w] # Absent /\ saving[w].step = "insert"
    /\ saves < MaxSaves
    /\ row' = saving[w].values
    /\ saves' = saves + 1
    /\ SettingsFinish(w)

\* The primary key admits one row.
Insert(w) ==
    /\ saving[w] # Absent /\ saving[w].step = "insert"
    /\ row = Absent
    /\ saves < MaxSaves
    /\ row' = saving[w].values
    /\ saves' = saves + 1
    /\ SettingsFinish(w)

\* The insert meets a row, a statement fails, the client hangs up or the
\* process stops: the save ends with an error and without a trace.
Fail(w) ==
    /\ saving[w] # Absent
    /\ SettingsFinish(w)
    /\ UNCHANGED <<row, saves>>

SettingsNext ==
    \E w \in Savers :
        \/ \E s \in Sections, v \in Values : Get(w, s, v)
        \/ Find(w) \/ Update(w) \/ Insert(w) \/ Fail(w)

SettingsSpec == SettingsInit /\ [][SettingsNext]_settingsVars

-----------------------------------------------------------------------------
(* Properties *)

Save(w) == Update(w) \/ Insert(w)

\* the sections a step changes, but for the one s
Disturbed(s) == {t \in Sections \ {s} : Current'[t] # Current[t]}

\* A save disturbs another section only if the row was written after the save
\* began: administrators who take turns never lose a setting.
OnlyOverlapDisturbs ==
    [][\A w \in Savers :
          Save(w) /\ Disturbed(saving[w].section) # {} => saving[w].begun < saves]_settingsVars

\* However the first saves of a tenant race, none that inserts takes away what
\* another has set: the loser of the race ends with an error instead.
InsertDisturbsNothing ==
    [][\A w \in Savers : Insert(w) => Disturbed(saving[w].section) = {}]_settingsVars

-----------------------------------------------------------------------------
(* What the documentation says and the code does not do *)

\* docs/admin-tui.md:331: "saves only that section, not the entire settings
\* page", so a save changes no other section.
SavesOnlyItsSection ==
    [][\A w \in Savers : Save(w) => Disturbed(saving[w].section) = {}]_settingsVars
=============================================================================
