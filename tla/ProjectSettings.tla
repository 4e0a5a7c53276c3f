--------------------------- MODULE ProjectSettings ---------------------------
(***************************************************************************)
(* The setup of the application and of its projects: connections, shared   *)
(* workflow profiles, the configuration a project uses or owns, the editor *)
(* of a profile and the settings pane of a project (registry_db.py,        *)
(* book_manager.py, app_setup.py, project_setup.py, projects.py,           *)
(* config.py, runtime.py, workflow_profile_editor.py).                     *)
(* Of the four required steps the translator stands for all.               *)
(***************************************************************************)
EXTENDS Naturals, FiniteSets

CONSTANTS
  Connections,   \* that may be in the registry
  Gemini,        \* those that have the provider with batches, and its image backend
  Models,        \* names of models
  Profiles,      \* that may be in the registry
  Projects,      \* that may be in the registry
  MaxActs        \* bound: the user's acts

Nothing == "none"
Own == "own"           \* the connection a project of the command line brings with it
Custom == "custom"

ASSUME SettingsAssumption ==
  /\ IsFiniteSet(Connections) /\ Gemini \subseteq Connections /\ {Nothing, Own} \cap Connections = {}
  /\ IsFiniteSet(Models) /\ Models # {} /\ {Nothing, "absent"} \cap Models = {}
  /\ IsFiniteSet(Profiles) /\ {Nothing, Custom} \cap Profiles = {}
  /\ IsFiniteSet(Projects) /\ Nothing \notin Projects /\ MaxActs \in Nat

Backends == {Nothing, "gemini", "other"}
Steps == {"translator", "polish", "image"}

VARIABLES
  connections,   \* [Connections -> model, or Nothing: the connection has no default; or "absent"]
  profiles,      \* [Profiles -> config or NoConfig]
  default,       \* the profile new projects get, or Nothing
  projects,      \* [Projects -> [status, profile, config]]
  editor,        \* the editor of a profile or the pane of a project
  acts

settingsVars == <<connections, profiles, default, projects, editor, acts>>

\* A step's settings; all Nothing is a step that is not in the configuration.
Step == [conn : Connections \cup {Own, Nothing}, model : Models \cup {Nothing},
         temperature : {Nothing, "own"}, backend : Backends]
NoStep == [conn |-> Nothing, model |-> Nothing, temperature |-> Nothing, backend |-> Nothing]
NoConfig == [steps |-> [s \in Steps |-> NoStep], batch |-> FALSE, source |-> Nothing]
NoProject == [status |-> "absent", profile |-> Nothing, config |-> NoConfig]
Closed == [at |-> Nothing, id |-> Nothing, routes |-> NoConfig.steps, base |-> Nothing,
           selected |-> Nothing, touched |-> FALSE]

Present(cs) == {c \in Connections : cs[c] # "absent"}
Exists(p) == profiles[p] # NoConfig
Known(c, cs) == c = Own \/ c \in Present(cs)
\* The default model of a connection of the registry; that of the command line's
\* file comes with its project.
DefaultModel(c, cs) == IF c \in Present(cs) THEN cs[c] ELSE Nothing
OwnModel == CHOOSE m \in Models : TRUE

-----------------------------------------------------------------------------
(* What a configuration means to a task.                                   *)

\* BookManager.get_book_config
Effective(b, bs, ps) ==
  IF bs[b].profile # Nothing THEN ps[bs[b].profile] ELSE bs[b].config

\* _resolve_with_profile: the step's model, else that of its connection; and the
\* temperature of the connection, because Config.from_book notes no explicit field.
Resolved(step, cs) ==
  [conn |-> step.conn,
   model |-> IF step.model # Nothing THEN step.model
             ELSE IF step.conn = Own THEN OwnModel ELSE DefaultModel(step.conn, cs),
   temperature |-> Nothing, backend |-> IF step.backend = Nothing THEN "gemini" ELSE step.backend]

\* Config.from_dict of a snapshot, whose fields are all explicit: resolved again.
Reread(step, cs) ==
  [Resolved(step, cs) EXCEPT !.temperature = step.temperature]

\* effective_polish_step_config
EffectiveStep(config, s) ==
  IF s = "polish" /\ config.steps[s] = NoStep THEN config.steps["translator"] ELSE config.steps[s]

\* What each step of a project calls.
Calls(b, bs, ps, cs) ==
  [s \in Steps |-> LET step == EffectiveStep(Effective(b, bs, ps), s)
                   IN  IF step = NoStep THEN step ELSE Resolved(step, cs)]

\* Config.__post_init__: every step that is there has a connection and a model.
Resolves(config, cs) ==
  /\ config.steps["translator"] # NoStep
  /\ \A s \in Steps : config.steps[s] # NoStep =>
       Known(config.steps[s].conn, cs) /\ Resolved(config.steps[s], cs).model # Nothing

\* validate_persisted_config_payload looks at the required steps only.
Persistable(config) == Known(config.steps["translator"].conn, connections)

-----------------------------------------------------------------------------
(* What an editor shows of a configuration, and makes of it.               *)

\* _build_standard_route
Route(step, cs) == [step EXCEPT !.model = IF @ = Nothing THEN DefaultModel(step.conn, cs) ELSE @]

\* A mutant: the polish step that falls back shows the model of the connection.
ShownByConnection(config, cs) ==
  [s \in Steps |->
     IF s = "polish" /\ config.steps[s] = NoStep
     THEN Route([config.steps["translator"] EXCEPT !.model = Nothing, !.backend = Nothing], cs)
     ELSE Route(config.steps[s], cs)]

\* build_workflow_profile_detail: without a polish step the translator's is shown.
AsShown(config, cs) ==
  [s \in Steps |->
     IF s = "polish" /\ config.steps[s] = NoStep
     THEN [Route(config.steps["translator"], cs) EXCEPT !.backend = Nothing]
     ELSE Route(config.steps[s], cs)]

\* _build_connection_combo: a connection that is not offered is not selected.
Offered(routes, cs) ==
  [s \in Steps |-> IF routes[s].conn \in Present(cs) THEN routes[s] ELSE [routes[s] EXCEPT !.conn = Nothing]]

\* _eligible_pipeline_batch_provider, _derived_batch_route
Batchable(routes) == {routes["translator"].conn, routes["polish"].conn} \subseteq Gemini

\* _infer_image_backend: a backend that is there stays.
Backend(step) ==
  IF step.backend # Nothing THEN step.backend
  ELSE IF step.conn \in Gemini THEN "gemini" ELSE IF step.model # Nothing THEN "other" ELSE Nothing

\* build_workflow_profile_payload
AsSaved(routes, source) ==
  [steps |-> [routes EXCEPT !["image"].backend = Backend(routes["image"])],
   batch |-> Batchable(routes), source |-> source]

\* validate_workflow_routes
ValidRoutes(routes) ==
  /\ routes["translator"].conn # Nothing /\ routes["translator"].model # Nothing
  /\ \A s \in Steps \ {"translator"} : routes[s] # NoStep => routes[s].conn # Nothing /\ routes[s].model # Nothing

-----------------------------------------------------------------------------
(* Acts                                                                    *)

Act == acts < MaxActs /\ acts' = acts + 1

\* ProjectSettingsPane._apply_state of the project's state; without a usable
\* configuration there is none.
Pane(b, cs, ps, bs) ==
  LET project == bs[b]
      source == project.config.source
  IN  IF project.profile # Nothing
      THEN [Closed EXCEPT !.at = "project", !.id = b, !.selected = project.profile, !.base = project.profile]
      ELSE IF project.config = NoConfig THEN Closed
      ELSE [Closed EXCEPT !.at = "project", !.id = b, !.selected = Custom,
              !.base = IF source # Nothing /\ ps[source] # NoConfig THEN source ELSE Nothing,
              !.routes = Offered(AsShown(project.config, cs), cs)]

\* SetupInvalidatedEvent: the pane reads its project again, and drops what was edited.
RefreshPane(cs, ps, bs) ==
  editor' = IF editor.at # "project" THEN Closed
            ELSE IF bs[editor.id].status = "absent" THEN Closed ELSE Pane(editor.id, cs, ps, bs)

SetConnections(cs) ==
  /\ connections' = cs /\ RefreshPane(cs, profiles, projects)
  /\ UNCHANGED <<profiles, default, projects>>
SetProfiles(ps, d) ==
  /\ profiles' = ps /\ default' = d /\ RefreshPane(connections, ps, projects)
  /\ UNCHANGED <<connections, projects>>
SetProjects(bs, crash) ==
  /\ projects' = bs
  /\ IF crash THEN editor' = Closed ELSE RefreshPane(connections, profiles, bs)
  /\ UNCHANGED <<connections, profiles, default>>

\* The dialog is modal: with it open the window does nothing else.
AtWindow == editor.at # "profile"

\* _persist_connection; a new one, or one whose default model is changed
SaveConnection(c, model) ==
  /\ Act /\ AtWindow
  /\ connections[c] # model
  /\ SetConnections([connections EXCEPT ![c] = model])

\* delete_endpoint_profile asks nothing of those who use it.
DeleteConnection(c) ==
  /\ Act /\ AtWindow
  /\ c \in Present(connections)
  /\ SetConnections([connections EXCEPT ![c] = "absent"])

\* RegistryDB.insert_profile: the first profile is the default.
Inserted(p, config) ==
  <<[profiles EXCEPT ![p] = config], IF \A q \in Profiles : ~Exists(q) THEN p ELSE default>>

\* AppSettingsPane._on_add_profile, _edit_profile: a new profile starts as another
\* one, or with the first connection for every step.
OpenEditor(p) ==
  /\ AtWindow /\ IF Exists(p) THEN UNCHANGED acts ELSE Act
  /\ \E shown \in IF Exists(p) THEN {AsShown(profiles[p], connections)}
                  ELSE IF \E q \in Profiles : Exists(q)
                  THEN {AsShown(profiles[q], connections) : q \in {q \in Profiles : Exists(q)}}
                  ELSE {[s \in Steps |-> [NoStep EXCEPT !.conn = c, !.model = connections[c]]] :
                          c \in Present(connections)} :
       editor' = [Closed EXCEPT !.at = "profile", !.id = p, !.routes = Offered(shown, connections),
                                !.touched = ~Exists(p)]
  /\ UNCHANGED <<connections, profiles, default, projects>>

CancelEditor ==
  /\ editor.at = "profile"
  /\ editor' = Closed
  /\ UNCHANGED <<connections, profiles, default, projects, acts>>

OpenPane(b) ==
  /\ editor.at = Nothing /\ projects[b].status = "active"
  /\ Pane(b, connections, profiles, projects) # Closed
  /\ editor' = Pane(b, connections, profiles, projects)
  /\ UNCHANGED <<connections, profiles, default, projects, acts>>

Editable == editor.at = "profile" \/ (editor.at = "project" /\ editor.selected = Custom)
EditRoute(s, route) ==
  /\ Act /\ Editable
  /\ editor' = [editor EXCEPT !.routes[s] = route, !.touched = TRUE]
  /\ UNCHANGED <<connections, profiles, default, projects>>

\* _sync_model_from_connection: another connection brings its model, if it has one.
ChooseConnection(s, c) ==
  LET route == editor.routes[s]
  IN  /\ c # route.conn
      /\ EditRoute(s, [route EXCEPT !.conn = c,
                         !.model = IF c # Nothing /\ connections[c] # Nothing THEN connections[c] ELSE @])
TypeModel(s, model) == editor.routes[s].model # model /\ EditRoute(s, [editor.routes[s] EXCEPT !.model = model])

\* StepAdvancedConfigDialog: a temperature of the step's own
ToggleOverride(s) ==
  EditRoute(s, [editor.routes[s] EXCEPT !.temperature = IF @ = Nothing THEN "own" ELSE Nothing])

\* _accept_if_valid, AppSetupService.save_workflow_profile
SaveEditor ==
  /\ editor.at = "profile" /\ ValidRoutes(editor.routes)
  /\ LET p == editor.id
         config == AsSaved(editor.routes, Nothing)
     IN  /\ Persistable(config)
         /\ SetProfiles([profiles EXCEPT ![p] = config], IF Exists(p) THEN default ELSE Inserted(p, config)[2])
  /\ UNCHANGED acts

\* _on_set_default_profile saves the profile as it is shown.
SetDefault(p) ==
  /\ Act /\ AtWindow /\ Exists(p)
  /\ LET config == AsSaved(AsShown(profiles[p], connections), Nothing)
     IN  /\ Persistable(config)
         /\ SetProfiles([profiles EXCEPT ![p] = config], p)

DuplicateProfile(p, copy) ==
  /\ Act /\ AtWindow /\ Exists(p) /\ ~Exists(copy) /\ Persistable(profiles[p])
  /\ SetProfiles(Inserted(copy, profiles[p])[1], default)

\* A mutant: only the projects that are listed count.
DeleteUnlistedProfile(p) ==
  /\ Act /\ AtWindow /\ Exists(p)
  /\ \A b \in Projects : projects[b].status = "active" => projects[b].profile # p
  /\ SetProfiles([profiles EXCEPT ![p] = NoConfig], IF default = p THEN Nothing ELSE default)

\* RegistryDB.delete_profile counts every project, the deleted ones too.
DeleteProfile(p) ==
  /\ Act /\ AtWindow /\ Exists(p)
  /\ \A b \in Projects : projects[b].profile # p
  /\ SetProfiles([profiles EXCEPT ![p] = NoConfig], IF default = p THEN Nothing ELSE default)

\* recommended_workflow_profile_from_drafts: what each step had best call
Recommended(first, second, model) ==
  AsSaved([s \in Steps |-> [NoStep EXCEPT !.conn = IF s = "image" THEN second ELSE first, !.model = model]], Nothing)

\* run_setup_wizard: the connections one by one, then the profile of that name,
\* which becomes the default; the program may die among the connections.
RunWizard(p, first, second, model, whole) ==
  /\ Act /\ AtWindow
  /\ LET cs == IF whole THEN [c \in Connections |-> IF c \in {first, second} THEN model ELSE connections[c]]
               ELSE [connections EXCEPT ![first] = model]
         ps == IF whole THEN [profiles EXCEPT ![p] = Recommended(first, second, model)] ELSE profiles
     IN  /\ connections' = cs /\ profiles' = ps
         /\ default' = IF whole THEN p ELSE default
         /\ IF whole THEN RefreshPane(cs, ps, projects) ELSE editor' = Closed
  /\ UNCHANGED projects

\* ProjectsService.create_project: with a profile or the default one, or, in
\* another language, with a copy of its configuration.
CreateProject(b, p, copy) ==
  /\ Act /\ AtWindow /\ projects[b].status = "absent"
  /\ p # Nothing /\ Exists(p)
  /\ copy => Persistable(profiles[p])
  /\ SetProjects([projects EXCEPT ![b] =
       [status |-> "active", profile |-> IF copy THEN Nothing ELSE p,
        config |-> IF copy THEN [profiles[p] EXCEPT !.source = p] ELSE NoConfig]], FALSE)

\* The command line, in its own process: a project with connections of its own
\* (load_cli_config), or one deleted, for good or not; no window hears of it.
RunFromCommandLine(b) ==
  /\ Act /\ projects[b].status = "absent"
  /\ projects' = [projects EXCEPT ![b] =
       [status |-> "active", profile |-> Nothing,
        config |-> [NoConfig EXCEPT !.steps["translator"].conn = Own]]]
  /\ UNCHANGED <<connections, profiles, default, editor>>
DeleteFromCommandLine(b) ==
  /\ Act /\ projects[b].status = "active" /\ editor.id # b
  /\ projects' = [projects EXCEPT ![b].status = "deleted"]
  /\ UNCHANGED <<connections, profiles, default, editor>>

DeleteProject(b) ==
  /\ Act /\ AtWindow /\ projects[b].status = "active"
  /\ SetProjects([projects EXCEPT ![b] = NoProject], FALSE)

\* BookManager.set_book_custom_config: two commits; a crash may come between.
Customised(b, config, crash) ==
  [projects EXCEPT ![b].profile = Nothing, ![b].config = IF crash THEN @ ELSE config]

\* ProjectsService.update_project with a language
SetLanguage(b, crash) ==
  /\ Act /\ AtWindow /\ projects[b].status = "active"
  /\ LET config == Effective(b, projects, profiles)
     IN  /\ config # NoConfig /\ Persistable(config)
         /\ SetProjects(Customised(b, IF projects[b].profile = Nothing THEN config
                                      ELSE [config EXCEPT !.source = projects[b].profile], crash), crash)

\* _apply_profile_index, _ensure_custom_profile: the first time, a project's own
\* profile starts as the shared one; later it is what it was.
SelectShared(p) ==
  /\ Act /\ editor.at = "project" /\ Exists(p) /\ editor.selected # p
  /\ editor' = [editor EXCEPT !.selected = p, !.base = p, !.touched = TRUE]
  /\ UNCHANGED <<connections, profiles, default, projects>>
SelectCustom ==
  /\ Act /\ editor.at = "project" /\ editor.selected # Custom
  /\ editor' = [editor EXCEPT !.selected = Custom,
                  !.routes = IF @ # NoConfig.steps THEN @
                             ELSE Offered(AsShown(profiles[editor.selected], connections), connections)]
  /\ UNCHANGED <<connections, profiles, default, projects>>

\* ProjectSettingsPane._save, ProjectSetupService.save
SaveShared ==
  /\ editor.at = "project" /\ editor.selected \in Profiles
  /\ Exists(editor.selected)
  /\ SetProjects([projects EXCEPT ![editor.id].profile = editor.selected], FALSE)
  /\ UNCHANGED acts
SaveCustom(crash) ==
  /\ editor.at = "project" /\ editor.selected = Custom /\ ValidRoutes(editor.routes)
  /\ editor.base # Nothing => Exists(editor.base)
  /\ LET config == AsSaved(editor.routes, editor.base)
     IN  /\ Persistable(config)
         /\ SetProjects(Customised(editor.id, config, crash), crash)
  /\ UNCHANGED acts

\* Nothing is set up, or the wizard has been run.
SettingsInit ==
  /\ projects = [b \in Projects |-> NoProject]
  /\ editor = Closed /\ acts = 0
  /\ \/ /\ connections = [c \in Connections |-> "absent"]
        /\ profiles = [p \in Profiles |-> NoConfig] /\ default = Nothing
     \/ \E p \in Profiles, first, second \in Connections, model \in Models :
          /\ connections = [c \in Connections |-> IF c \in {first, second} THEN model ELSE "absent"]
          /\ profiles = [q \in Profiles |-> IF q = p THEN Recommended(first, second, model) ELSE NoConfig]
          /\ default = p

ConnectionStep ==
  \E c \in Connections : DeleteConnection(c) \/ \E m \in Models \cup {Nothing} : SaveConnection(c, m)
ProfileStep ==
  \/ \E p \in Profiles :
       \/ OpenEditor(p) \/ SetDefault(p) \/ DeleteProfile(p)
       \/ \E copy \in Profiles : DuplicateProfile(p, copy)
       \/ \E c, d \in Connections, m \in Models, whole \in BOOLEAN : RunWizard(p, c, d, m, whole)
  \/ CancelEditor \/ SaveEditor
EditStep ==
  \E s \in Steps :
    \/ \E c \in Present(connections) \cup {Nothing} : ChooseConnection(s, c)
    \/ \E m \in Models \cup {Nothing} : TypeModel(s, m)
    \/ ToggleOverride(s)
ProjectStep ==
  \/ \E b \in Projects :
       \/ OpenPane(b) \/ RunFromCommandLine(b) \/ DeleteFromCommandLine(b) \/ DeleteProject(b)
       \/ \E p \in Profiles, copy \in BOOLEAN : CreateProject(b, p, copy)
       \/ \E crash \in BOOLEAN : SetLanguage(b, crash)
  \/ \E p \in Profiles : SelectShared(p)
  \/ SelectCustom \/ SaveShared \/ \E crash \in BOOLEAN : SaveCustom(crash)

SettingsNext == ConnectionStep \/ ProfileStep \/ (Editable /\ EditStep) \/ ProjectStep
SettingsSpec == SettingsInit /\ [][SettingsNext]_settingsVars

-----------------------------------------------------------------------------
(* Properties                                                              *)

\* Saving a profile or a project's own one as it was shown, and making a profile
\* the default, leave what every step of every project calls as it was, though
\* the models shown and the polish step that only fell back are written down.
SavesUntouched ==
  \/ ~editor.touched /\ (SaveEditor \/ SaveCustom(FALSE))
  \/ \E p \in Profiles : SetDefault(p)
SavingKeepsCalls ==
  [][SavesUntouched =>
       \A b \in Projects : Effective(b, projects, profiles) # NoConfig =>
         Calls(b, projects', profiles', connections') = Calls(b, projects, profiles, connections)]_settingsVars

\* A project works until a connection one of its steps names is deleted: no other
\* change of the setup, and no connection without a model, takes that away.
\* What a task reads back from its snapshot is then what it was taken from.
ProjectsResolve ==
  \A b \in Projects :
    LET config == Effective(b, projects, profiles)
        named == {config.steps[s].conn : s \in Steps} \ {Nothing}
    IN  config # NoConfig /\ (\A c \in named : Known(c, connections)) =>
          /\ Resolves(config, connections)
          /\ \A s \in Steps : config.steps[s] # NoStep =>
               LET taken == Resolved(config.steps[s], connections)
               IN  Reread(taken, connections) = taken

\* The profile a project uses exists, as does the default, whatever is deleted
\* here while the command line deletes projects that stay in the registry.
UsedProfilesExist ==
  /\ \A b \in Projects : projects[b].profile # Nothing => Exists(projects[b].profile)
  /\ default # Nothing => Exists(default)

\* Whatever is saved, copied and deleted, a project finds the profile it is set to, and
\* while the connections its steps name are there, each step finds what it calls.
ProjectsStayUsable == ProjectsResolve /\ UsedProfilesExist

\* A project calls something, and what it calls does not change by a save of what was shown.
CallsAreKept == []ProjectsStayUsable /\ SavingKeepsCalls

\* What the step's dialog says of its fields: they override the connection.
OverridesApply ==
  \A b \in Projects, s \in Steps :
    LET config == Effective(b, projects, profiles)
    IN  Resolves(config, connections) /\ config.steps[s].temperature = "own" =>
          Resolved(config.steps[s], connections).temperature = "own"
==============================================================================
