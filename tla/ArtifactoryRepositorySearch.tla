--------------------- MODULE ArtifactoryRepositorySearch ---------------------
(***************************************************************************)
(* ArtifactoryRepositorySearchInput (one repository row's key input) with  *)
(* useDebounce, useArtifactoryRepositorySearch and the query cache under   *)
(* it, and the parent row that owns the key (value) and the type.          *)
(*                                                                         *)
(* The input keeps its text in inputValue; useDebounce copies it to        *)
(* debouncedQuery when a timer fires; the query is keyed on the type and   *)
(* the debounced query, its results are cached per key, and requests are   *)
(* never cancelled, so answers arrive in any order. The parent resets the  *)
(* key when the row's type changes or the rows are rebuilt from the saved  *)
(* settings, and remounts the input after a save.                          *)
(***************************************************************************)
EXTENDS SequencesExt, FiniteSets, Naturals

CONSTANTS
    Types,      \* the repository types the row's select offers
    Queries,    \* the texts the input may hold, results included
    Trim,       \* String.prototype.trim, as a table
    Results,    \* Results[key]: what GET .../repositories/search returns for a key
    Absent,     \* no cached data; no failed key
    MaxEdits    \* bound on the user's and the parent's changes in a behaviour

VARIABLES
    repositoryType,   \* prop: integration.repositoryType ("" for none)
    value,            \* prop: integration.repositoryKey
    inputValue,       \* React.useState(value ?? "")
    debouncedQuery,   \* useDebounce(inputValue, 300)
    timers,           \* the values of the pending debounce timeouts, in the order set
    isOpen,           \* the downshift menu state
    cache,            \* the query cache: key -> data, or Absent
    inflight,         \* keys whose search request has not answered yet
    errorKey,         \* the observed key whose last request failed, or Absent
    edits             \* changes made so far (bounded by MaxEdits)

vars == <<repositoryType, value, inputValue, debouncedQuery, timers, isOpen,
          cache, inflight, errorKey, edits>>

\* queryKey: ["artifactory", "repositories", "search", repositoryType || null, query, limit]
queryKey(t, q) == <<t, q>>

Keys == {queryKey(t, q) : t \in Types \cup {""}, q \in Queries}

CurKey == queryKey(repositoryType, debouncedQuery)

\* enabled: !!query.trim() && !disabled, with disabled || !repositoryType
\* and disabled = !integration.repositoryType.
enabled == Trim[debouncedQuery] # "" /\ repositoryType # ""

\* Mutant: any search in flight counts (a global useIsFetching).
isFetchingAny == inflight # {}

isFetching == CurKey \in inflight

\* const { data: repositories = [] }
repositories == IF cache[CurKey] = Absent THEN <<>> ELSE cache[CurKey]

\* What the menu shows: nothing, the loading row, or the list (empty: the
\* empty-results row).
Menu ==
    [state |-> IF ~isOpen THEN "closed" ELSE IF isFetching THEN "loading" ELSE "list",
     items |-> IF isOpen /\ ~isFetching THEN repositories ELSE <<>>]

(***************************************************************************)
(* useDebounce: an effect on [value, delay] sets a timeout that copies the *)
(* value, and its cleanup clears the previous timeout. The effect runs     *)
(* only when the input's text changes.                                     *)
(***************************************************************************)
Rearm(v) == IF v = inputValue THEN timers ELSE <<v>>

\* A new key is observed: a failure of another key no longer holds it back.
Observe(t, q) == errorKey' = IF queryKey(t, q) = CurKey THEN errorKey ELSE Absent

Edit == edits < MaxEdits /\ edits' = edits + 1

-----------------------------------------------------------------------------
(* The user.                                                                *)

\* onInputValueChange: setInputValue and onChange, which sets the row's key;
\* downshift opens the menu on typing. The input is disabled without a type.
Type(v) ==
    /\ repositoryType # ""
    /\ v \in Queries \ {inputValue}
    /\ Edit
    /\ inputValue' = v
    /\ value' = v
    /\ timers' = Rearm(v)
    /\ isOpen' = TRUE
    /\ UNCHANGED <<repositoryType, debouncedQuery, cache, inflight, errorKey>>

\* onFocus: openMenu() unless disabled or without a type.
Focus ==
    /\ ~isOpen
    /\ repositoryType # ""
    /\ isOpen' = TRUE
    /\ UNCHANGED <<repositoryType, value, inputValue, debouncedQuery, timers,
                   cache, inflight, errorKey, edits>>

\* Blur or escape closes the menu.
Blur ==
    /\ isOpen
    /\ isOpen' = FALSE
    /\ UNCHANGED <<repositoryType, value, inputValue, debouncedQuery, timers,
                   cache, inflight, errorKey, edits>>

\* onSelectedItemChange on a listed item: setInputValue and onChange; the
\* menu closes. Items are only listed while not fetching.
Select(item) ==
    /\ isOpen
    /\ ~isFetching
    /\ item \in ToSet(repositories)
    /\ Edit
    /\ inputValue' = item
    /\ value' = item
    /\ timers' = Rearm(item)
    /\ isOpen' = FALSE
    /\ UNCHANGED <<repositoryType, debouncedQuery, cache, inflight, errorKey>>

-----------------------------------------------------------------------------
(* The parent row.                                                          *)

\* SettingsSelect onChange -> handleArtifactoryTypeChange: another type
\* empties the row's key, and the effect on [value] empties the input; the
\* focus has moved to the select, so the menu is closed.
ChangeRepositoryType(t) ==
    /\ t \in Types \ {repositoryType}
    /\ Edit
    /\ repositoryType' = t
    /\ value' = ""
    /\ inputValue' = ""
    /\ timers' = Rearm("")
    /\ isOpen' = FALSE
    /\ Observe(t, debouncedQuery)
    /\ UNCHANGED <<debouncedQuery, cache, inflight>>

\* The rows are rebuilt from saved settings holding another key for this
\* row's type: the effect on [value] copies it into the input.
ResetValue(v) ==
    /\ v \in Queries \ {value}
    /\ Edit
    /\ value' = v
    /\ inputValue' = v
    /\ timers' = Rearm(v)
    /\ UNCHANGED <<repositoryType, debouncedQuery, isOpen, cache, inflight, errorKey>>

\* The rows are rebuilt from refetched settings without the skeleton, and
\* the element keyed artifactory-<type> that rendered this input now holds
\* the row of another type (a row keeps its id when retyped): React keeps
\* the input's state, both props change, and the menu stays as it was.
Rebind(t, v) ==
    /\ t \in Types \ {repositoryType}
    /\ Edit
    /\ repositoryType' = t
    /\ value' = v
    /\ inputValue' = v
    /\ timers' = Rearm(v)
    /\ Observe(t, debouncedQuery)
    /\ UNCHANGED <<debouncedQuery, isOpen, cache, inflight>>

\* A save shows the skeleton and mounts the input again: its state starts
\* from value, pending timeouts are cleared, the cache and requests remain.
Remount ==
    /\ Edit
    /\ inputValue' = value
    /\ debouncedQuery' = value
    /\ timers' = <<>>
    /\ isOpen' = FALSE
    /\ errorKey' = Absent
    /\ UNCHANGED <<repositoryType, value, cache, inflight>>

-----------------------------------------------------------------------------
(* Timers and the query engine.                                             *)

\* The oldest pending debounce timeout fires: setDebouncedValue(v). The
\* timeouts share one delay, so they fire in the order they were set.
DebounceFire ==
    /\ timers # <<>>
    /\ debouncedQuery' = Head(timers)
    /\ timers' = Tail(timers)
    /\ Observe(repositoryType, Head(timers))
    /\ UNCHANGED <<repositoryType, value, inputValue, isOpen, cache, inflight, edits>>

\* useQuery fetches an enabled key with no data, unless a request for it is
\* in flight or it failed while observed.
StartFetch ==
    /\ enabled
    /\ cache[CurKey] = Absent
    /\ ~isFetching
    /\ errorKey # CurKey
    /\ inflight' = inflight \cup {CurKey}
    /\ UNCHANGED <<repositoryType, value, inputValue, debouncedQuery, timers, isOpen,
                   cache, errorKey, edits>>

\* Mutant: an answer stored as the data of whatever key is observed now.
RespondToCurrent(k) ==
    /\ k \in inflight
    /\ cache' = [cache EXCEPT ![CurKey] = Results[k]]
    /\ inflight' = inflight \ {k}
    /\ UNCHANGED <<repositoryType, value, inputValue, debouncedQuery, timers, isOpen,
                   errorKey, edits>>

\* searchArtifactoryRepositories answers; the data is cached under its key.
Respond(k) ==
    /\ k \in inflight
    /\ cache' = [cache EXCEPT ![k] = Results[k]]
    /\ inflight' = inflight \ {k}
    /\ UNCHANGED <<repositoryType, value, inputValue, debouncedQuery, timers, isOpen,
                   errorKey, edits>>

\* The request fails after the query engine's retries.
Fail(k) ==
    /\ k \in inflight
    /\ inflight' = inflight \ {k}
    /\ errorKey' = IF k = CurKey THEN k ELSE errorKey
    /\ UNCHANGED <<repositoryType, value, inputValue, debouncedQuery, timers, isOpen,
                   cache, edits>>

-----------------------------------------------------------------------------
\* A new row has no type and no key; a stored row has both.
Init ==
    /\ \/ repositoryType = "" /\ value = ""
       \/ repositoryType \in Types /\ value \in Queries
    /\ inputValue = value
    /\ debouncedQuery = value
    /\ timers = <<>>
    /\ isOpen = FALSE
    /\ cache = [k \in Keys |-> Absent]
    /\ inflight = {}
    /\ errorKey = Absent
    /\ edits = 0

Next ==
    \/ \E v \in Queries : Type(v) \/ ResetValue(v)
    \/ DebounceFire
    \/ Focus \/ Blur
    \/ \E item \in Queries : Select(item)
    \/ \E t \in Types : ChangeRepositoryType(t)
    \/ \E t \in Types, v \in Queries : Rebind(t, v)
    \/ Remount
    \/ StartFetch
    \/ \E k \in Keys : Respond(k) \/ Fail(k)

\* Only safety is checked of this input, so the specification has no fairness.
Spec == Init /\ [][Next]_vars
-----------------------------------------------------------------------------
(* Properties.                                                              *)

TypeOK ==
    /\ repositoryType \in Types \cup {""}
    /\ {value, inputValue, debouncedQuery} \subseteq Queries
    /\ timers \in Seq(Queries)
    /\ isOpen \in BOOLEAN
    /\ \A k \in Keys : cache[k] = Absent \/ cache[k] = Results[k]
    /\ inflight \subseteq Keys
    /\ errorKey \in Keys \cup {Absent}
    /\ edits \in 0..MaxEdits

(***************************************************************************)
(* The menu refines SearchSuggestions: what it lists is the result of the *)
(* current type and debounced query, a loading row only for a search that *)
(* may run, and a listed result is never overwritten by the late answer of *)
(* an earlier debounced query or of the row's previous type. The text the  *)
(* input shows may differ from the debounced query until its timeout       *)
(* fires. The query key, the per-key cache and the isFetching of the       *)
(* observed key must agree for this, with answers arriving in any order.   *)
(***************************************************************************)
Suggestions == INSTANCE SearchSuggestions
    WITH Categories <- Types \cup {""},
         category   <- repositoryType,
         query      <- debouncedQuery,
         menu       <- Menu

MenuFollowsQuery == Suggestions!Spec

=============================================================================
