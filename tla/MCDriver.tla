------------------------------ MODULE MCDriver ------------------------------
(***************************************************************************)
(* A rule list for model checking Driver: one process exempted by its path *)
(* before the wildcard that redirects the others.                          *)
(***************************************************************************)
EXTENDS Driver, TLC

CONSTANT Updater

Wildcard(a) == [action |-> a, isWildcard |-> TRUE, isPathRule |-> FALSE,
                inName |-> {}, inPath |-> {}]
InPath(a, p) == [action |-> a, isWildcard |-> FALSE, isPathRule |-> TRUE,
                 inName |-> {}, inPath |-> {p}]

MCRuleLists == {<<InPath("block", Updater), Wildcard("redirect")>>}

\* No rule of the list is about a name: the path is found or not.  With a path that
\* is not found the exempted process is, to the rules, any other process.
MCLookups == {{"name"}, {"name", "path"}}

\* Connections and threads are interchangeable.
MCSymmetry == Permutations(Conn) \cup Permutations(User)
=============================================================================
