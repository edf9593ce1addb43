------------------------ MODULE MCKongFileReconciler ------------------------
(***************************************************************************)
(* Model-checking instance of KongFileReconciler: two KongFile objects,   *)
(* two specs each, the three kinds of class annotation.                   *)
(***************************************************************************)
EXTENDS KongFileReconciler, TLC

CONSTANTS k1, k2   \* the two object keys

MCKeys == {k1, k2}

\* Object k1 moves between two versions of one CONTENT page; object k2 is
\* a CONTENT page beside it or, with a kind the code does not know, a file
\* Build gives no path.
Page(name, kind, content) ==
    [layout |-> "L", path |-> "docs", title |-> "T", name |-> name,
     content |-> content, kind |-> kind]

MCSpecsOf ==
    (k1 :> {Page("a", CONTENT, "v1"), Page("a", CONTENT, "v2")}) @@
    (k2 :> {Page("b", CONTENT, "v1"), Page("b", "PAGE", "v1")})

\* Specs that never change an object's backend path.
MCFixedPathSpecsOf ==
    (k1 :> {Page("a", CONTENT, "v1"), Page("a", CONTENT, "v2")}) @@
    (k2 :> {Page("b", CONTENT, "v1")})

\* Object k2 shares k1's backend path: "docs" + "a/x" and "docs/a" + "x".
MCCollidingSpecsOf ==
    (k1 :> {[Page("a/x", CONTENT, "v1") EXCEPT !.path = "docs"]}) @@
    (k2 :> {[Page("x", CONTENT, "v2") EXCEPT !.path = "docs/a"]})

MCFilePaths ==
    {BuildPath(s) : s \in UNION {MCSpecsOf[k] : k \in MCKeys}} \ {""}

MCCollidingFilePaths ==
    {BuildPath(s) : s \in UNION {MCCollidingSpecsOf[k] : k \in MCKeys}} \ {""}

=============================================================================
