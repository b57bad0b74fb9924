--------------------------- MODULE SearchSuggestions ---------------------------
(***************************************************************************)
(* What the repository search input promises its user, with the debounce   *)
(* timer, the query cache and the requests in flight hidden. The menu is   *)
(* closed, shows a loading row, or lists suggestions; the list is always   *)
(* the search result of the current category and committed (debounced)    *)
(* query, or empty. Once a result for the current query is listed, it is   *)
(* only replaced when the query or the category changes: a late answer to  *)
(* an earlier query never overwrites it.                                   *)
(***************************************************************************)
CONSTANTS
    Categories,   \* the repository types, and "" for none selected
    Queries,      \* the texts a query may hold
    Trim,         \* String.prototype.trim, as a table
    Results       \* Results[<<category, query>>]: what the search endpoint returns

VARIABLES category, query, menu

\* The menu: closed, the loading row, or a list (empty: the empty-results row).
Closed  == [state |-> "closed", items |-> <<>>]
Loading == [state |-> "loading", items |-> <<>>]
List(s) == [state |-> "list", items |-> s]

\* A search may run: a category is selected and the query is not blank.
Searchable(c, q) == c # "" /\ Trim[q] # ""

\* What an open menu may show for a category and query.
View(c, q) ==
    IF Searchable(c, q) THEN {Loading, List(<<>>), List(Results[<<c, q>>])} ELSE {List(<<>>)}

Init ==
    /\ category \in Categories
    /\ query \in Queries
    /\ menu = Closed

Open ==
    /\ menu = Closed
    /\ menu' \in View(category, query)
    /\ UNCHANGED <<category, query>>

Close ==
    /\ menu # Closed
    /\ menu' = Closed
    /\ UNCHANGED <<category, query>>

\* The committed query or the category changes; an open menu may close.
Requery ==
    /\ category' \in Categories
    /\ query' \in Queries
    /\ <<category', query'>> # <<category, query>>
    /\ menu' \in {Closed} \cup (IF menu = Closed THEN {} ELSE View(category', query'))

\* The search for the current query starts.
Load ==
    /\ menu = List(<<>>)
    /\ Searchable(category, query)
    /\ menu' = Loading
    /\ UNCHANGED <<category, query>>

\* The search for the current query ends, with its result or with nothing.
Arrive ==
    /\ menu = Loading
    /\ menu' \in {List(<<>>), List(Results[<<category, query>>])}
    /\ UNCHANGED <<category, query>>

Next == Open \/ Close \/ Requery \/ Load \/ Arrive

Spec == Init /\ [][Next]_<<category, query, menu>>
=============================================================================
