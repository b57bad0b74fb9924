----------------------------- MODULE AppSettings -----------------------------
(***************************************************************************)
(* AppSettingsScreen (routes/app-settings.tsx) together with the settings *)
(* it fetches and saves.                                                   *)
(*                                                                         *)
(* The screen keeps one XHasChanged flag per scalar field, the Artifactory *)
(* API key flags, and the list of Artifactory repository rows. Its scalar  *)
(* inputs are uncontrolled: the DOM holds their value (draft), mounted     *)
(* from the fetched settings; while a save is pending the inputs are       *)
(* replaced by a skeleton and mounted again from the settings afterwards.  *)
(* The backend (server) and the query cache (settings) are modelled from   *)
(* the spec: a save replaces the fields it carries, and is followed by a   *)
(* refetch before the mutation settles.                                    *)
(***************************************************************************)
EXTENDS SettingsFields, ArtifactoryIntegrations

CONSTANTS
    Absent,          \* a missing value: no data yet, no save pending, a key left out
    InputValues,     \* InputValues[f]: the values the user may leave in field f
    RepoKeys,        \* the texts the user may type as a repository key
    ApiKeyValues,    \* the texts the user may type as the Artifactory API key
    RawTypeLists,    \* the lists GET /api/settings/artifactory/repository-types may return
    InitialServers,  \* the stored settings the model starts from
    ExternalWriters, \* whether another client may change the stored settings
    LostResponses    \* whether the answer to a stored save may be lost

VARIABLES
    server,                       \* the settings stored by the backend
    settings,                     \* useSettings() data, or Absent before the first fetch
    repoTypesFromApi,             \* useArtifactoryRepositoryTypes() data, or Absent
    pending,                      \* the payload of the save in flight, or Absent
    draft,                        \* DOM value of each scalar input
    hasChanged,                   \* the per-field XHasChanged states
    artifactoryApiKeyHasChanged,
    artifactoryClearApiKey,
    artifactoryApiKeyInputValue,
    apiKeyDom,                    \* DOM value of the API key password input
    clearSwitchOn,                \* toggled state of the clear-key SettingsSwitch
    artifactoryIntegrations       \* the repository rows

fetched == <<server, settings, repoTypesFromApi, pending>>
keyVars == <<artifactoryApiKeyHasChanged, artifactoryClearApiKey,
             artifactoryApiKeyInputValue, apiKeyDom, clearSwitchOn>>
vars    == <<fetched, draft, hasChanged, keyVars, artifactoryIntegrations>>

-----------------------------------------------------------------------------
(* Derived values of a render.                                              *)

\* repoTypesFromApi ?? SUPPORTED_ARTIFACTORY_REPO_TYPES
repositoryTypes == IF repoTypesFromApi = Absent THEN SupportedTypes ELSE repoTypesFromApi

isPending == pending # Absent

\* !shouldBeLoading: the inputs are in the DOM.
Mounted == settings # Absent /\ ~isPending

\* settings?.ARTIFACTORY_REPOSITORIES (undefined normalises to {}).
StoredRepos == IF settings = Absent THEN <<>> ELSE settings.repos

artifactoryRepositoriesPayload == integrationsToRepositoryMap(artifactoryIntegrations)

artifactoryReposHaveChanged ==
    ~repositoryMapsEqual(StoredRepos, artifactoryRepositoriesPayload)

formIsClean ==
    /\ \A f \in Fields : ~hasChanged[f]
    /\ ~artifactoryApiKeyHasChanged
    /\ ~artifactoryClearApiKey
    /\ ~artifactoryReposHaveChanged

\* isDisabled={isPending || formIsClean} of the submit button.
SubmitDisabled == isPending \/ formIsClean

\* The options of a row's type select: the row's own type and the types no
\* other row uses; its onChange reports the chosen value.
TypeSelectOptions(row) == AvailableOptions(artifactoryIntegrations, row, repositoryTypes)

\* disabled={!integration.repositoryType} of the row's search input.
KeyInputDisabled(row) == row.repositoryType = ""

\* Mutants of the key payload: the input sent untrimmed; a typed key sent
\* in preference to a clear request.
ApiKeyPayloadUntrimmed ==
    IF ~(artifactoryClearApiKey \/ artifactoryApiKeyHasChanged) THEN Absent
    ELSE IF artifactoryClearApiKey THEN "" ELSE apiKeyDom

ApiKeyPayloadTypedFirst ==
    IF ~(artifactoryClearApiKey \/ artifactoryApiKeyHasChanged) THEN Absent
    ELSE IF artifactoryApiKeyHasChanged THEN Trim[apiKeyDom] ELSE ""

\* payload.artifactory_api_key: left out, "" (clear) or the trimmed input.
ApiKeyPayload ==
    IF ~(artifactoryClearApiKey \/ artifactoryApiKeyHasChanged) THEN Absent
    ELSE IF artifactoryClearApiKey THEN "" ELSE Trim[apiKeyDom]

\* The payload formAction builds from the FormData and the state.
Payload ==
    [fields |-> [f \in Fields |-> Sent(f, draft[f])],
     repos  |-> artifactoryRepositoriesPayload,
     apiKey |-> ApiKeyPayload]

-----------------------------------------------------------------------------
(* The backend and the query cache (spec-modelled).                         *)

\* GET /api/settings: the secret itself is never returned.
Read(doc) == [fields |-> doc.fields, repos |-> doc.repos, apiKeySet |-> doc.apiKey # Null]

\* POST /api/settings: fields present replace the stored ones; an absent
\* key leaves the stored key, "" clears it.
ApplySave(doc, p) ==
    [fields |-> p.fields,
     repos  |-> p.repos,
     apiKey |-> IF p.apiKey = Absent THEN doc.apiKey
                ELSE IF p.apiKey = "" THEN Null ELSE p.apiKey]

\* The inputs as they are mounted from settings s.
MountedDraft(s) == [f \in Fields |-> Shown(f, s.fields[f])]

(***************************************************************************)
(* The two effects keyed on settings, run after the render that sees new   *)
(* settings s1 (old settings s0): the rows are rebuilt when the stored map *)
(* changed; the Artifactory host, CLI URL and key flags are reset when the *)
(* host, the CLI URL or ARTIFACTORY_API_KEY_SET changed.                   *)
(***************************************************************************)
RowsAfter(s0, s1) ==
    IF s0 = Absent \/ s0.repos # s1.repos
    THEN mapRepositoriesToIntegrations(s1.repos)
    ELSE artifactoryIntegrations

ArtifactoryFieldsChanged(s0, s1) ==
    \/ s0 = Absent
    \/ s0.apiKeySet # s1.apiKeySet
    \/ \E f \in Fields \cap {"host", "cliUrl"} : s0.fields[f] # s1.fields[f]

\* The XHasChanged flags after the Artifactory effect.
FlagsAfter(s0, s1) ==
    IF ArtifactoryFieldsChanged(s0, s1)
    THEN [f \in Fields |-> IF f \in {"host", "cliUrl"} THEN FALSE ELSE hasChanged[f]]
    ELSE hasChanged

SettingsEffects(s0, s1) ==
    /\ artifactoryIntegrations' = RowsAfter(s0, s1)
    /\ hasChanged' = FlagsAfter(s0, s1)
    /\ IF ArtifactoryFieldsChanged(s0, s1)
       THEN /\ artifactoryApiKeyHasChanged' = FALSE
            /\ artifactoryClearApiKey' = FALSE
            /\ artifactoryApiKeyInputValue' = ""
       ELSE UNCHANGED <<artifactoryApiKeyHasChanged, artifactoryClearApiKey,
                        artifactoryApiKeyInputValue>>

\* The clear switch is rendered only while ARTIFACTORY_API_KEY_SET, and is
\* mounted untoggled.
ClearSwitchAfter(s0, s1) ==
    IF s0 # Absent /\ s0.apiKeySet /\ s1.apiKeySet THEN clearSwitchOn ELSE FALSE

-----------------------------------------------------------------------------
(* Fetches.                                                                 *)

\* useSettings() delivers settings that differ from the cached ones (first
\* load, or a refetch after another client wrote). Mounted inputs keep their
\* DOM value; on the first load they are mounted from the settings.
SettingsFetched ==
    LET s1 == Read(server) IN
    /\ s1 # settings
    /\ settings' = s1
    /\ SettingsEffects(settings, s1)
    /\ clearSwitchOn' = ClearSwitchAfter(settings, s1)
    /\ draft' = IF settings = Absent THEN MountedDraft(s1) ELSE draft
    /\ UNCHANGED <<server, repoTypesFromApi, pending, apiKeyDom>>

\* useArtifactoryRepositoryTypes() resolves with the normalised types.
RepositoryTypesFetched ==
    /\ repoTypesFromApi = Absent
    /\ \E raw \in RawTypeLists : repoTypesFromApi' = normalizeRepositoryTypes(raw)
    /\ UNCHANGED <<server, settings, pending, draft, hasChanged, keyVars,
                   artifactoryIntegrations>>

\* Another client saves settings (a second tab).
ExternalWrite ==
    /\ ExternalWriters
    /\ \E doc \in InitialServers : doc # server /\ server' = doc
    /\ UNCHANGED <<settings, repoTypesFromApi, pending, draft, hasChanged, keyVars,
                   artifactoryIntegrations>>

-----------------------------------------------------------------------------
(* Change handlers of the scalar inputs.                                    *)

\* checkIfXHasChanged(value): the input now holds v.
EditField(f, v) ==
    /\ Mounted
    /\ Rendered(f)
    /\ v \in InputValues[f] \ {draft[f]}
    /\ draft' = [draft EXCEPT ![f] = v]
    /\ hasChanged' = [hasChanged EXCEPT ![f] = Changed(f, v, settings.fields[f])]
    /\ UNCHANGED <<fetched, keyVars, artifactoryIntegrations>>

\* handleArtifactoryApiKeyInputChange(value)
ApiKeyInputChange(v) ==
    /\ Mounted
    /\ v \in ApiKeyValues \ {apiKeyDom}
    /\ apiKeyDom' = v
    /\ artifactoryApiKeyInputValue' = v
    /\ artifactoryApiKeyHasChanged' = (Trim[v] # "")
    /\ artifactoryClearApiKey' = IF Trim[v] # "" THEN FALSE ELSE artifactoryClearApiKey
    /\ UNCHANGED <<fetched, draft, hasChanged, clearSwitchOn, artifactoryIntegrations>>

\* Mutant: toggling off forgets a key typed before.
ToggleClearApiKeyForgetsInput ==
    LET checked == ~clearSwitchOn IN
    /\ Mounted
    /\ settings.apiKeySet
    /\ clearSwitchOn' = checked
    /\ artifactoryClearApiKey' = checked
    /\ artifactoryApiKeyHasChanged' = checked
    /\ UNCHANGED <<fetched, draft, hasChanged, apiKeyDom, artifactoryApiKeyInputValue,
                   artifactoryIntegrations>>

\* onToggle of the clear-key switch.
ToggleClearApiKey ==
    LET checked == ~clearSwitchOn IN
    /\ Mounted
    /\ settings.apiKeySet
    /\ clearSwitchOn' = checked
    /\ artifactoryClearApiKey' = checked
    /\ artifactoryApiKeyHasChanged' =
           IF checked THEN TRUE ELSE Trim[artifactoryApiKeyInputValue] # ""
    /\ UNCHANGED <<fetched, draft, hasChanged, apiKeyDom, artifactoryApiKeyInputValue,
                   artifactoryIntegrations>>

-----------------------------------------------------------------------------
(* Repository rows.                                                         *)

\* handleAddArtifactoryIntegration; the button is disabled while pending or
\* when there are as many rows as repository types.
AddIntegration ==
    /\ Mounted
    /\ Len(repositoryTypes) > 0
    /\ Len(artifactoryIntegrations) < Len(repositoryTypes)
    /\ \E id \in NewIds \ RowIds(artifactoryIntegrations) :
           artifactoryIntegrations' = Append(artifactoryIntegrations, createIntegration("", "", id))
    /\ UNCHANGED <<fetched, draft, hasChanged, keyVars>>

\* handleRemoveArtifactoryIntegration(id)
RemoveIntegration(id) ==
    /\ Mounted
    /\ artifactoryIntegrations' = RemoveRow(artifactoryIntegrations, id)
    /\ UNCHANGED <<fetched, draft, hasChanged, keyVars>>

\* handleArtifactoryTypeChange(id, value): value is an option of the row's
\* select (SettingsSelect only reports a change to another option).
ChangeIntegrationType(i, value) ==
    LET row == artifactoryIntegrations[i] IN
    /\ Mounted
    /\ value \in TypeSelectOptions(row) \ {row.repositoryType}
    /\ artifactoryIntegrations' =
           MapRow(artifactoryIntegrations, row.id, ChangeType(row, value, repositoryTypes))
    /\ UNCHANGED <<fetched, draft, hasChanged, keyVars>>

\* handleArtifactoryRepositoryChange(id)(value), from the search input, which
\* is disabled while the row has no type.
ChangeIntegrationKey(i, value) ==
    LET row == artifactoryIntegrations[i] IN
    /\ Mounted
    /\ ~KeyInputDisabled(row)
    /\ value \in RepoKeys \ {row.repositoryKey}
    /\ artifactoryIntegrations' =
           MapRow(artifactoryIntegrations, row.id, [row EXCEPT !.repositoryKey = value])
    /\ UNCHANGED <<fetched, draft, hasChanged, keyVars>>

-----------------------------------------------------------------------------
(* Saving.                                                                  *)

\* formAction: the submit button is disabled while pending or clean.
Submit ==
    /\ Mounted
    /\ ~SubmitDisabled
    /\ pending' = Payload
    /\ UNCHANGED <<server, settings, repoTypesFromApi, draft, hasChanged, keyVars,
                   artifactoryIntegrations>>

\* Mutants of onSettled: a flag left out of the resets.
SettleKeepsHost(s1, flags) ==
    /\ pending' = Absent
    /\ hasChanged' = [f \in Fields |-> IF f \in {"solvability", "host"} THEN flags[f] ELSE FALSE]
    /\ artifactoryApiKeyHasChanged' = FALSE
    /\ artifactoryClearApiKey' = FALSE
    /\ artifactoryApiKeyInputValue' = ""
    /\ draft' = MountedDraft(s1)
    /\ apiKeyDom' = ""
    /\ clearSwitchOn' = FALSE

SettleKeepsGitName(s1, flags) ==
    /\ pending' = Absent
    /\ hasChanged' = [f \in Fields |-> IF f \in {"solvability", "gitName"} THEN flags[f] ELSE FALSE]
    /\ artifactoryApiKeyHasChanged' = FALSE
    /\ artifactoryClearApiKey' = FALSE
    /\ artifactoryApiKeyInputValue' = ""
    /\ draft' = MountedDraft(s1)
    /\ apiKeyDom' = ""
    /\ clearSwitchOn' = FALSE

\* onSettled resets every flag but solvabilityAnalysisSwitchHasChanged, and
\* the key input (flags: the flags after the settings effects); the inputs
\* are mounted again from settings s1.
Settle(s1, flags) ==
    /\ pending' = Absent
    /\ hasChanged' = [f \in Fields |-> IF f = "solvability" THEN flags[f] ELSE FALSE]
    /\ artifactoryApiKeyHasChanged' = FALSE
    /\ artifactoryClearApiKey' = FALSE
    /\ artifactoryApiKeyInputValue' = ""
    /\ draft' = MountedDraft(s1)
    /\ apiKeyDom' = ""
    /\ clearSwitchOn' = FALSE

\* The POST succeeds; the settings query is refetched and its effects run,
\* then onSuccess and onSettled run.
SaveSucceeded ==
    LET doc == ApplySave(server, pending)
        s1  == Read(doc)
    IN
    /\ isPending
    /\ server' = doc
    /\ settings' = s1
    /\ artifactoryIntegrations' = RowsAfter(settings, s1)
    /\ Settle(s1, FlagsAfter(settings, s1))
    /\ UNCHANGED repoTypesFromApi

\* The POST fails: onError shows a toast, onSettled runs.
SaveFailed ==
    /\ isPending
    /\ Settle(settings, hasChanged)
    /\ UNCHANGED <<server, settings, repoTypesFromApi, artifactoryIntegrations>>

\* The backend stores the save but its answer is lost (a timeout or a
\* dropped connection): the mutation fails, so onError and onSettled run and
\* no refetch follows; the inputs are mounted again from the old settings.
SaveResponseLost ==
    /\ LostResponses
    /\ isPending
    /\ server' = ApplySave(server, pending)
    /\ Settle(settings, hasChanged)
    /\ UNCHANGED <<settings, repoTypesFromApi, artifactoryIntegrations>>

-----------------------------------------------------------------------------
Init ==
    /\ server \in InitialServers
    /\ settings = Absent
    /\ repoTypesFromApi = Absent
    /\ pending = Absent
    /\ draft = [f \in Fields |-> Absent]
    /\ hasChanged = [f \in Fields |-> FALSE]
    /\ artifactoryApiKeyHasChanged = FALSE
    /\ artifactoryClearApiKey = FALSE
    /\ artifactoryApiKeyInputValue = ""
    /\ apiKeyDom = ""
    /\ clearSwitchOn = FALSE
    /\ artifactoryIntegrations = <<>>

Next ==
    \/ SettingsFetched
    \/ RepositoryTypesFetched
    \/ ExternalWrite
    \/ \E f \in Fields : \E v \in InputValues[f] : EditField(f, v)
    \/ \E v \in ApiKeyValues : ApiKeyInputChange(v)
    \/ ToggleClearApiKey
    \/ AddIntegration
    \/ \E id \in RowIds(artifactoryIntegrations) : RemoveIntegration(id)
    \/ \E i \in DOMAIN artifactoryIntegrations, t \in Types : ChangeIntegrationType(i, t)
    \/ \E i \in DOMAIN artifactoryIntegrations, k \in RepoKeys : ChangeIntegrationKey(i, k)
    \/ Submit
    \/ SaveSucceeded
    \/ SaveFailed
    \/ SaveResponseLost

\* The backend answers every request it receives (with success or an error).
Fairness == WF_vars(SaveSucceeded \/ SaveFailed \/ SaveResponseLost) /\ WF_vars(SettingsFetched)

Spec == Init /\ [][Next]_vars /\ Fairness
-----------------------------------------------------------------------------
(* Properties.                                                              *)

ApiKeyPayloads == {Absent, ""} \cup {Trim[k] : k \in ApiKeyValues}

TypeOK ==
    /\ DOMAIN server.fields = Fields /\ DOMAIN server.repos \subseteq Types
    /\ server.apiKey \in {Null} \cup {d.apiKey : d \in InitialServers} \cup (ApiKeyPayloads \ {Absent, ""})
    /\ repoTypesFromApi = Absent \/ repoTypesFromApi \in Seq(Types)
    /\ settings = Absent \/ (DOMAIN settings.fields = Fields /\ settings.apiKeySet \in BOOLEAN)
    /\ pending = Absent \/ (DOMAIN pending.fields = Fields /\ pending.apiKey \in ApiKeyPayloads)
    /\ DOMAIN draft = Fields /\ DOMAIN hasChanged = Fields
    /\ \A f \in Fields : hasChanged[f] \in BOOLEAN /\ draft[f] \in InputValues[f] \cup {Absent}
    /\ {artifactoryApiKeyHasChanged, artifactoryClearApiKey, clearSwitchOn} \subseteq BOOLEAN
    /\ {artifactoryApiKeyInputValue, apiKeyDom} \subseteq ApiKeyValues
    /\ artifactoryIntegrations \in Seq([id : NewIds \cup {BaseId(t) : t \in Types},
                                        repositoryType : Types \cup {""},
                                        repositoryKey : RepoKeys])

(***************************************************************************)
(* Every change handler sets its XHasChanged flag from the input and the  *)
(* fetched settings; onSettled and the settings effects reset flags. While *)
(* the inputs are mounted, a raised flag is one the field's handler would  *)
(* raise for the input's current value: no flag is left over from a save, *)
(* a failed save or a refetch, keeping the submit button enabled for a    *)
(* form that has nothing to save.                                          *)
(***************************************************************************)
DirtyFlagsFresh ==
    Mounted => \A f \in Fields : hasChanged[f] => Changed(f, draft[f], settings.fields[f])

(***************************************************************************)
(* formIsClean disables the submit button. When it does, saving the form  *)
(* would store nothing the user entered: each scalar field would be saved *)
(* as an untouched input would save it, and no API key typed into the     *)
(* password input is left unsent. This needs each handler's comparison to  *)
(* agree with formAction's conversion, and the key flags to follow every   *)
(* sequence of typing and clear-switch toggles.                            *)
(***************************************************************************)
CleanFormHasNoPendingEdit ==
    Mounted /\ formIsClean =>
        /\ \A f \in Fields : Sent(f, draft[f]) = Sent(f, Shown(f, settings.fields[f]))
        /\ Trim[apiKeyDom] = ""

(***************************************************************************)
(* integrationsToRepositoryMap lets a later row overwrite an earlier one  *)
(* of the same type; the type selects hide the types other rows use. Every *)
(* row with a type and a non-blank key is saved with its trimmed key,     *)
(* whatever rows were added, retyped, removed or rebuilt from the settings *)
(* and whenever the repository types arrive.                               *)
(***************************************************************************)
EveryRowSaved ==
    \A i \in DOMAIN artifactoryIntegrations :
        LET row == artifactoryIntegrations[i] IN
        row.repositoryType # "" /\ KeyTrim[row.repositoryKey] # "" =>
            /\ row.repositoryType \in DOMAIN artifactoryRepositoriesPayload
            /\ artifactoryRepositoriesPayload[row.repositoryType] = KeyTrim[row.repositoryKey]

(***************************************************************************)
(* The add button is disabled once there are as many rows as repository   *)
(* types, so that a new row has a type left to choose. Every row without  *)
(* a type can be given one: its select offers a type that no other row    *)
(* uses, whenever the repository types arrive.                            *)
(***************************************************************************)
BlankRowCanBeTyped ==
    Mounted =>
        \A i \in DOMAIN artifactoryIntegrations :
            LET row == artifactoryIntegrations[i] IN
            row.repositoryType = "" => TypeSelectOptions(row) # {}

(***************************************************************************)
(* The Artifactory key in the save payload is "" when clearing was        *)
(* requested, else the typed key when one is typed, else left out (the    *)
(* stored key is kept). Typing clears a pending clear request; toggling    *)
(* the clear switch off must bring back a key typed before.               *)
(***************************************************************************)
SecretPayloadIntent ==
    Mounted =>
        ApiKeyPayload = IF artifactoryClearApiKey THEN ""
                        ELSE IF Trim[apiKeyDom] # "" THEN Trim[apiKeyDom]
                        ELSE Absent

(***************************************************************************)
(* The clear-key switch shown toggled on, with no new key typed, means a  *)
(* save clears the stored key.                                             *)
(***************************************************************************)
ClearSwitchHonoured ==
    Mounted /\ clearSwitchOn /\ Trim[apiKeyDom] = "" => ApiKeyPayload = ""

(***************************************************************************)
(* A save sends every scalar field; a field whose input still shows what  *)
(* was mounted from the settings is sent with its stored value.           *)
(***************************************************************************)
UntouchedFieldsKept ==
    [][~isPending /\ isPending' =>
         \A f \in Fields : draft[f] = Shown(f, settings.fields[f]) =>
             pending'.fields[f] = settings.fields[f]]_vars

(***************************************************************************)
(* After a failed save the user's edits are still in the form and still   *)
(* marked changed, so the save can be retried.                             *)
(***************************************************************************)
FailedSaveKeepsEdits ==
    [][SaveFailed => draft' = draft /\ hasChanged' = hasChanged]_vars
=============================================================================
