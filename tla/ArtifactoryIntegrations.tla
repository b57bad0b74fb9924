------------------------ MODULE ArtifactoryIntegrations ------------------------
(***************************************************************************)
(* The Artifactory repository rows of the app settings form and the pure   *)
(* helpers of routes/app-settings.tsx and                                  *)
(* hooks/query/use-artifactory-repository-types.ts that convert between    *)
(* rows, the ARTIFACTORY_REPOSITORIES map and the list of repository       *)
(* types. A map Partial<Record<type, string>> is a TLA+ function whose     *)
(* domain is the set of types present.                                     *)
(***************************************************************************)
EXTENDS Sequences, SequencesExt, FiniteSets

CONSTANTS
    SupportedTypes,   \* Object.values(ArtifactoryRepositoryTypes), in order
    RawTypeName,      \* type.trim().toLowerCase() over the names the API may return
    KeyTrim,          \* String.prototype.trim over the modelled repository keys
    NewIds            \* ids createIntegration() draws with Math.random()

Types == ToSet(SupportedTypes)

\* The id mapRepositoriesToIntegrations gives a stored row: `artifactory-${type}`.
BaseId(t) == <<"artifactory", t>>

\* createIntegration(repositoryType, repositoryKey, id)
createIntegration(t, k, id) == [id |-> id, repositoryType |-> t, repositoryKey |-> k]

(***************************************************************************)
(* mapRepositoriesToIntegrations: one row per stored entry. Object.entries *)
(* order is the order of the stored map; the model lists the entries in    *)
(* SupportedTypes order.                                                   *)
(***************************************************************************)
mapRepositoriesToIntegrations(repos) ==
    LET present == SelectSeq(SupportedTypes, LAMBDA t : t \in DOMAIN repos)
    IN  [i \in 1..Len(present) |->
            createIntegration(present[i], repos[present[i]], BaseId(present[i]))]

(***************************************************************************)
(* integrationsToRepositoryMap: rows without a type are skipped, keys are  *)
(* trimmed and blank keys dropped; a later row of the same type overwrites *)
(* an earlier one (result[type] = trimmed).                                *)
(***************************************************************************)
AddRow(result, row) ==
    IF row.repositoryType = "" \/ KeyTrim[row.repositoryKey] = ""
    THEN result
    ELSE (row.repositoryType :> KeyTrim[row.repositoryKey]) @@ result

integrationsToRepositoryMap(rows) == FoldLeft(AddRow, <<>>, rows)

\* normalizeRepositoryMap: trimmed values, blank ones dropped.
normalizeRepositoryMap(m) ==
    [t \in {u \in DOMAIN m : KeyTrim[m[u]] # ""} |-> KeyTrim[m[t]]]

\* repositoryMapsEqual: same number of keys, and every key of a has the
\* same value in b.
repositoryMapsEqual(a, b) ==
    LET na == normalizeRepositoryMap(a)
        nb == normalizeRepositoryMap(b)
    IN  /\ Cardinality(DOMAIN na) = Cardinality(DOMAIN nb)
        /\ \A k \in DOMAIN na : k \in DOMAIN nb /\ na[k] = nb[k]

(***************************************************************************)
(* normalizeRepositoryTypes: canonicalise the names, keep the supported    *)
(* ones, drop repeats (first occurrence kept), fall back to every          *)
(* supported type when nothing is left.                                    *)
(***************************************************************************)
KeepFirst(acc, t) == IF Contains(acc, t) THEN acc ELSE Append(acc, t)

normalizeRepositoryTypes(raw) ==
    LET canon     == [i \in 1..Len(raw) |-> RawTypeName[raw[i]]]
        supported == SelectSeq(canon, LAMBDA t : t \in Types)
        unique    == FoldLeft(KeepFirst, <<>>, supported)
    IN  IF Len(unique) > 0 THEN unique ELSE SupportedTypes

(***************************************************************************)
(* The options the type select of one row offers: every repository type   *)
(* not chosen by another row, and always the row's own type.               *)
(***************************************************************************)
UsedTypes(rows, id) ==
    {rows[i].repositoryType : i \in {j \in DOMAIN rows : rows[j].id # id
                                                     /\ rows[j].repositoryType # ""}}

\* Mutant: types used by other rows not filtered out.
AvailableOptionsAll(rows, row, repositoryTypes) == ToSet(repositoryTypes)

AvailableOptions(rows, row, repositoryTypes) ==
    {t \in ToSet(repositoryTypes) : t = row.repositoryType \/ t \notin UsedTypes(rows, row.id)}

(***************************************************************************)
(* handleArtifactoryTypeChange on one row: a value outside the current     *)
(* repository types is coerced to "", and a changed type empties the key. *)
(***************************************************************************)
ChangeType(row, value, repositoryTypes) ==
    LET nextType == IF Contains(repositoryTypes, value) THEN value ELSE ""
    IN  [row EXCEPT !.repositoryType = nextType,
                    !.repositoryKey  = IF nextType # row.repositoryType THEN "" ELSE @]

\* prev.map(...): the row with the given id becomes new, the others stay.
MapRow(rows, id, new) ==
    [i \in DOMAIN rows |-> IF rows[i].id = id THEN new ELSE rows[i]]

\* prev.filter((integration) => integration.id !== id)
RemoveRow(rows, id) == SelectSeq(rows, LAMBDA r : r.id # id)

\* The ids in use by the rows.
RowIds(rows) == {rows[i].id : i \in DOMAIN rows}
=============================================================================
