------------------------ MODULE MC_ArtifactoryRepositorySearch ------------------------
(***************************************************************************)
(* An instance of ArtifactoryRepositorySearch for TLC: two repository      *)
(* types, a blank text, a whitespace text and two searchable texts. The    *)
(* same text has different results under the two types, and results are   *)
(* texts the user may select and search again.                             *)
(***************************************************************************)
EXTENDS ArtifactoryRepositorySearch

MCTypes   == {"npm", "pypi"}
MCQueries == {"", " ", "a", "ab"}
MCTrim    == ("" :> "") @@ (" " :> "") @@ ("a" :> "a") @@ ("ab" :> "ab")

MCResults ==
    (<<"npm", "a">> :> <<"ab">>) @@ (<<"npm", "ab">> :> <<"ab">>)
    @@ (<<"pypi", "a">> :> <<>>) @@ (<<"pypi", "ab">> :> <<"ab">>)
==========================================================================================
