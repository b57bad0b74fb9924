--------------------------- MODULE MC_AppSettings ---------------------------
(***************************************************************************)
(* Model values and tables for checking AppSettings with TLC.              *)
(***************************************************************************)
EXTENDS AppSettings, TLC

CONSTANTS n1, n2

\* String.prototype.trim over every string the instances use.
MCTrim ==
    ("" :> "") @@ (" " :> "") @@ ("h" :> "h") @@ ("h " :> "h") @@
    ("k" :> "k") @@ (" k" :> "k") @@ ("k2" :> "k2") @@
    ("s" :> "s") @@ ("s " :> "s") @@ ("old" :> "old") @@
    ("u" :> "u") @@ ("u " :> "u") @@ ("d" :> "d")

MCLanguageLabel == ("en" :> "English") @@ ("de" :> "Deutsch")
MCDefaultGit    == ("gitName" :> "openhands") @@ ("gitEmail" :> "openhands@all-hands.dev")
MCParseBudget   == ("" :> Null) @@ ("5" :> 5) @@ ("x" :> Null)
MCBudgetText    == (5 :> "5")

MCSupportedTypes == <<"pypi", "npm">>
MCRawTypeName    == ("npm" :> "npm") @@ (" NPM" :> "npm") @@ ("pypi" :> "pypi")
                    @@ ("rubygems" :> "rubygems")
MCRawTypeLists   == {<<"pypi">>, <<" NPM", "npm">>, <<"rubygems">>}
MCNewIds         == {n1, n2}

\* A smaller instance of the repository types, for the form instance.
MCOneType        == <<"npm">>
MCOneTypeLists   == {<<" NPM">>}
MCFormRepoKeys   == {"", "k"}

\* The values a user may leave in each input.
MCInputValues ==
    ("language" :> {"English", "Deutsch"}) @@
    ("analytics" :> BOOLEAN) @@ ("sound" :> BOOLEAN) @@
    ("proactive" :> BOOLEAN) @@ ("solvability" :> BOOLEAN) @@
    ("budget" :> {"", "5", "x"}) @@
    ("gitName" :> {"", "h", "openhands"}) @@ ("gitEmail" :> {"", "h"}) @@
    ("host" :> {"", "h", "h "}) @@ ("cliUrl" :> {"", "u", "u ", "d"})

MCRepoKeys     == {"", "k", " k", "k2"}
MCApiKeyValues == {"", " ", "s "}
MCNoApiKey     == {""}

\* Row ids drawn by createIntegration are only compared for equality.
IdSymmetry == Permutations(MCNewIds)

-----------------------------------------------------------------------------
(* Stored settings to start from, one set per instance.                     *)

Docs(FieldDocs, Repos, Keys) ==
    {[fields |-> fd, repos |-> r, apiKey |-> k] : fd \in FieldDocs, r \in Repos, k \in Keys}

\* Form instance: the analytics switch, the Artifactory host, CLI URL and key.
FormFieldDocs ==
    {("analytics" :> a) @@ ("host" :> h) @@ ("cliUrl" :> u) :
        a \in BOOLEAN, h \in {Null, "h"}, u \in {Null, "u"}}
FormServers == Docs(FormFieldDocs, {<<>>}, {Null, "old"})

\* A stored key, for the clear switch.
FormServersKey == Docs({("analytics" :> FALSE)}, {<<>>}, {"old"})

\* Fields instance: the language, budget, git user name and a switch.
FieldsFieldDocs ==
    {("language" :> l) @@ ("budget" :> b) @@ ("gitName" :> g) @@ ("sound" :> n) :
        l \in {"en", "de"}, b \in {Null, 5}, g \in {Null, "h"}, n \in BOOLEAN}
FieldsServers == Docs(FieldsFieldDocs, {<<>>}, {Null})

\* SaaS instance: the solvability-analysis switch.
SaaSFieldDocs == {("solvability" :> v) : v \in BOOLEAN}
SaaSServers   == Docs(SaaSFieldDocs, {<<>>}, {Null})

\* Consent instance: analytics consent not given yet (null).
ConsentServers == Docs({("analytics" :> a) : a \in {TRUE, FALSE, Null}}, {<<>>}, {Null})

\* Hidden-switch instance: a SaaS-only switch in the open-source mode.
HiddenServers == Docs({("proactive" :> p) : p \in BOOLEAN}, {<<>>}, {Null})

\* Rows instance: one switch and the repository map.
RowFieldDocs == {("analytics" :> a) : a \in BOOLEAN}
RowServers   == Docs(RowFieldDocs, {<<>>, ("npm" :> "k")}, {Null})
=============================================================================
