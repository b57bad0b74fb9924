# TLA+ models of the app settings screen

This directory holds TLA+ models of the OpenHands frontend's application settings
screen (`src/frontend/src/routes/app-settings.tsx`) and the hooks and service it
uses. The models can be checked with TLC.

## The system

`AppSettingsScreen` is a React form. It has these parts:

- **Scalar fields**: language, analytics consent, sound notifications, the two
  SaaS-only switches (proactive conversation starters, solvability analysis), the
  budget per task, git user name and email, Artifactory host and CLI install URL.
  Each input is *uncontrolled*. It is mounted with a default value taken from the
  fetched settings, and the DOM keeps its value after that. Each input's change
  handler (`checkIfXHasChanged`) compares the value with the fetched settings and
  sets an `XHasChanged` state.
- **Artifactory API key**: a password input and an uncontrolled "clear key"
  switch. The switch is rendered only while `ARTIFACTORY_API_KEY_SET`. Three states
  (`artifactoryApiKeyHasChanged`, `artifactoryClearApiKey`,
  `artifactoryApiKeyInputValue`) decide what `formAction` sends.
- **Artifactory repository rows**: controlled state (`artifactoryIntegrations`).
  They are rebuilt from `ARTIFACTORY_REPOSITORIES` whenever the stored map changes.
  Each row has a type select, whose options hide the types other rows use, and a
  search input for the key.
- **Queries and the mutation**: `useSettings` (the settings), and
  `useArtifactoryRepositoryTypes` (the repository types, normalised by
  `normalizeRepositoryTypes`). `useSaveSettings` does the POST. While it is
  pending, the inputs are replaced by a skeleton. Its `onSettled` resets the flags,
  and it runs on success and on error.
- **Two effects keyed on settings**: one rebuilds the rows. The other resets the
  host, CLI URL and key flags when the host, the CLI URL or
  `ARTIFACTORY_API_KEY_SET` changes.
- **The submit button**: it is disabled while pending, and while `formIsClean`
  (no flag is set and the rows equal the stored map).

These parts interact in ways that are hard to test. The flags and the DOM values
are separate state, and each is reset by a different mechanism: onSettled, the
effects, and the remount. A refetch can bring settings from another client. The
repository types can arrive after the rows were built.

## Modules

| Module | Models | State / operators |
|---|---|---|
| `SettingsFields` | the per-field conversions of `app-settings.tsx` | `Shown` (the value an input is mounted with), `Changed` (what each `checkIfXHasChanged` computes), `Sent` (formAction's conversion), and the language lookups |
| `ArtifactoryIntegrations` | the pure row helpers of `app-settings.tsx` and `normalizeRepositoryTypes` | `createIntegration`, `mapRepositoriesToIntegrations`, `integrationsToRepositoryMap`, `repositoryMapsEqual`, `normalizeRepositoryTypes`, `AvailableOptions`, `ChangeType` |
| `AppSettings` | the screen, the query cache and the backend | the variables listed below; one action per handler |
| `SearchSuggestions` | the abstract promise of the search input (spec 4.2) | `category`, `query` (the committed text), `menu` (closed, loading, or a list); the menu lists only the result of the current category and query, and a result is replaced only when they change |
| `ArtifactoryRepositorySearch` | `ArtifactoryRepositorySearchInput` (`src/unnamed/part_001`), `useArtifactoryRepositorySearch`, `useDebounce`, the query cache, and the parent row | variables `repositoryType`, `value` (props), `inputValue`, `debouncedQuery`, `timers` (pending debounce timeouts), `isOpen`, `cache`, `inflight`, `errorKey`, `edits`; actions `Type`, `Focus`, `Blur`, `Select`, `ChangeRepositoryType` (SettingsSelect onChange), `ResetValue` (rows rebuilt), `Rebind` (the input element reused for another row's type and key), `Remount` (the save's skeleton), `DebounceFire`, `StartFetch`, `Respond`, `Fail` |
| `MC_ArtifactoryRepositorySearch` | model values for the search input | two types, texts `""`, `" "`, `"a"`, `"ab"`; `"a"` has a result under npm and none under pypi |
| `MC_AppSettings` | model values and tables for TLC | string tables (`Trim`, parse of the budget, language labels), small input sets, initial stored settings |

The variables of `AppSettings` are:

- `server`: the stored document.
- `settings`: the query data.
- `repoTypesFromApi`: the repository types from the API.
- `pending`: the payload in flight.
- `draft`: the DOM value of each scalar input.
- `hasChanged`: the `XHasChanged` flags.
- The three key states.
- `apiKeyDom` and `clearSwitchOn`: the DOM state of the key input and of the
  clear switch.
- `artifactoryIntegrations`: the rows.

The actions, and the code each one models:

- `SettingsFetched`: a settings fetch or refetch, with the two effects.
- `RepositoryTypesFetched`: the repository types arrive.
- `ExternalWrite`: another tab saves.
- `EditField(f, v)`: a `checkIfXHasChanged` handler.
- `ApiKeyInputChange`: a change of the key input.
- `ToggleClearApiKey`: a toggle of the clear switch.
- `AddIntegration`, `RemoveIntegration`, `ChangeIntegrationType`,
  `ChangeIntegrationKey`: the row handlers.
- `Submit`: formAction.
- `SaveSucceeded` and `SaveFailed`: the POST answers. Each includes the refetch,
  the effects, onSettled and the remount.
- `SaveResponseLost`: the backend stores the save, but its answer is lost (a
  timeout or a dropped connection). The client runs onError and onSettled as for
  a failure, and no refetch follows. This fault is enabled by the constant
  `LostResponses`.

The guards use the render's gating: `SubmitDisabled` (the submit button),
`TypeSelectOptions` (the options of a row's type select) and `KeyInputDisabled`
(a row's search input).

`PROJECT.json` "map" gives the source lines of every definition.

Data is abstracted as follows:

- Strings are a handful of TLA+ strings. `String.trim` and `parseMaxBudgetPerTask`
  are tables over them.
- JS `null`/`undefined` are the model value `Null`.
- A `Partial<Record<type, string>>` is a TLA+ function.
- Row ids from `Math.random` are distinct model values. `SYMMETRY` is taken over
  them; the checked properties are all safety properties, so this is sound.

These parts are modelled from the spec, because their code is not in this
repository:

- The backend's POST semantics (`ApplySave`): fields sent replace the stored ones;
  an absent key keeps the stored key; `""` clears it.
- Another client's writes (`ExternalWrite`).
- The backend side of a save whose answer is lost (`SaveResponseLost` stores it).
- The assumption that the settings refetch completes before the mutation settles.

## Runs

Runs that pass, each with `Spec` and its properties:

- `form` (`AppSettings_form.cfg`): analytics, host, CLI URL and the API key.
  - `TypeOK`.
  - `DirtyFlagsFresh`: a raised flag is one the handler would raise for the
    current input.
  - `CleanFormHasNoPendingEdit`: when the submit button is disabled, saving would
    store nothing the user typed.
  - `SecretPayloadIntent`: the key payload is `""` if clearing was requested,
    otherwise the typed key, otherwise absent.
  - 318,400 distinct states, about 30 s.
- `fields` (`AppSettings_fields.cfg`): language, budget, git user name and sound,
  with stored `null`s. Checks `DirtyFlagsFresh` and
  `CleanFormHasNoPendingEdit`. 28,904 states. The type invariant is checked
  once, in `form`.
- `rows` (`AppSettings_rows.cfg`): two repository types and two new row ids.
  - Repository types arrive late, from lists with upper case names, duplicates and
    an unsupported name.
  - Another client may write, and a save's answer may be lost. A lost answer
    leaves the rows as they were until a later refetch rebuilds them.
  - Checks `EveryRowSaved`: every row with a type and a non-blank key is in the
    payload with its trimmed key. It speaks of the rows on screen. Rows that a
    rebuild discards (after another client's write, or the refetch after a lost
    answer) are outside it.
  - 844,936 states, about 2 minutes.
- `search` (`ArtifactoryRepositorySearch.cfg`, MaxEdits 6, 35,289 states, no
  deadlock check because an input with nobody left to act stops):
  - `TypeOK`: every cached entry is the answer for its own key.
  - `MenuFollowsQuery`: `Suggestions!Spec`, the refinement of `SearchSuggestions`
    with `category <- repositoryType`, `query <- debouncedQuery`, `menu <- Menu`.
    The menu never lists the answer to an earlier debounced query or to the
    row's previous type, and never shows loading for a query that cannot be
    searched, whatever order the answers arrive in. The property is stated
    against the debounced query, not the text the input shows. Until the
    debounce timeout fires, the two differ. After a type change or `Rebind`
    the menu may list the new type's result for the old text while the input
    shows another text. The spec allows this, because only the debounced query
    drives the fetch.

Runs expected to find a violation, each of which records a finding in
PROJECT.json:

- `saas` (`DirtyFlagsFresh`): `onSettled` forgets
  `setSolvabilityAnalysisSwitchHasChanged(false)`. After a save of the solvability
  switch the form stays dirty.
- `clearswitch` (`ClearSwitchHonoured`): typing a key clears
  `artifactoryClearApiKey` but not the uncontrolled switch. Erasing the key leaves
  the switch on while the save keeps the stored key.
- `consent` (`UntouchedFieldsKept`): a `null` analytics consent is sent as `false`
  by any save.
- `hiddenswitch` (`UntouchedFieldsKept`): outside SaaS mode the hidden switches are
  sent as `false`.
- `failedsave` (`FailedSaveKeepsEdits`): the spec says a failed save keeps the
  edits and flags. In the code, onSettled resets the flags, and the skeleton's
  remount restores the stored values.
- `external` (`CleanFormHasNoPendingEdit` with `ExternalWriters`): after a refetch,
  the inputs keep the old values while the form is clean.
- `lostresponse` (`CleanFormHasNoPendingEdit` with `LostResponses`, no other
  client): the backend stores a save of the analytics switch, but its answer is
  lost. The inputs are mounted again from the old settings. The next refetch
  brings the stored value, but the switch still shows the old one in a clean form.
  The next save would write the old value back. With lost answers, two other
  properties fail from the same cause (a refetch that changes the baseline under
  mounted inputs). `DirtyFlagsFresh` fails because an analytics flag raised
  before the refetch stays raised against the new value. `SecretPayloadIntent`
  fails because the effect resets the key flags while the typed key stays in its
  input. The run records the most damaging of the three.
- `latetypes` (`BlankRowCanBeTyped`): a blank row is added while the built-in type
  list is used. The API then returns only the type of the stored row, and the blank
  row's select offers no type.

Every property of a passing run has a mutant in PROJECT.json. A mutant is a
plausible slip in the code, and the run finds it:

- the key sent untrimmed;
- the key branches swapped;
- a flag missing from onSettled;
- the toggle-off forgetting a typed key;
- the language compared with the default;
- the option filter missing;
- an answer stored under the key observed now instead of its own;
- a global "anything fetching" flag instead of the observed key's.

## Bounds

Each instance picks a few fields, because the fields interact only through the
shared save. For each field there are 2 to 4 input values, chosen to hit every
case of its conversion:

- blank;
- whitespace that trim removes;
- a value equal to the default;
- text the budget parser rejects;
- a `null` stored value.

Two repository types and two row ids are enough to reach the following: a full
set of rows (the add button's bound), two rows competing for one type, and a row
retyped to a type another row frees. The key values include `" k"`, whose trim
equals `"k"`.

For the search input, `MaxEdits` bounds the user's and the parent's changes.
Six changes are enough for these cases: typing, selecting, a type change, a
key reset, a remount and retyping, in any order with the timeouts and the
answers, while up to two requests are in flight.

## Fairness

`AppSettings`'s `Spec` assumes weak fairness of the save's outcome (success,
failure or a lost answer) and of the settings fetch. The mutation always
settles one way or another, and the query refetches settings that changed.

`ArtifactoryRepositorySearch`'s `Spec` has no fairness, because only safety is
checked of it. The debounce timeouts share one delay, so `DebounceFire` fires
the oldest pending one, as browsers do. With the cleanup in `useDebounce`, at
most one timeout is ever pending.

No fairness is assumed of the user or the parent.

## Not modelled, and next steps

- In the search input: the keyboard highlight, the staleTime and gcTime
  (time is not modelled, so cached answers neither expire nor are refetched),
  and the query engine's retries, which are folded into one answer or
  failure. `useDebounce` and downshift are not in this repository; they are
  modelled from their documented behaviour.
- After a type change, the old text is searched under the new type before the
  debounce timeout empties the query. The model allows this wasted request.
- The refetch completing after `onSettled`. `useSaveSettings` is not in this
  repository, and the model assumes the refetch finishes first.
- Liveness of the search input. That the last debounced text is eventually
  searched follows from the timeouts firing and the engine fetching and
  answering, and a property stating it would restate that fairness. A key
  whose request failed while observed is not fetched again until another key
  is observed. The menu then shows the empty-results row, which is what the
  spec asks of a failed search.
- Rows discarded by a rebuild (`app-settings.tsx:203-206`). After another
  client's write, or the refetch that follows a lost answer, the rows the user
  edited since are replaced by the stored ones. No run checks this.
- Liveness of the form beyond its fairness. The form's only runtime steps are
  the settings fetch and the save's outcome. Any liveness property of the form
  ("a pending save ends", "the inputs are mounted again") would restate the
  weak fairness of those steps.
- Row id collisions from `Math.random`. Two new rows would need the same
  eight base-36 characters, a chance of about 1 in 2.8e12 per pair. A random id
  cannot equal a rebuilt row's `artifactory-<type>`. That would need
  `toString(36)` to be exactly `0.<type>`, which needs the type name read as a
  base-36 fraction to be a dyadic rational, and none of the 20 names is. The
  model draws new ids as distinct model values, and the hazard is not listed.
- Toasts, i18n and layout.
