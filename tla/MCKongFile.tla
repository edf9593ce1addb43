----------------------------- MODULE MCKongFile -----------------------------
(***************************************************************************)
(* Bounded check of the pure KongFile functions: every pair of specs      *)
(* drawn from small sets of strings, and every class annotation, is an    *)
(* initial state; the properties are invariants over those inputs.        *)
(***************************************************************************)
EXTENDS KongFile

CONSTANT ClassName   \* --controller-class (default "kong")

\* Input strings: empty, plain, and values containing "/" so that path and
\* name can split a path differently.
Paths == {"", "docs", "docs/v1"}
Names == {"", "a", "v1/a"}
Kinds == {CONTENT, ASSET, SPECIFICATION, "", "PAGE"}
Specs == KongFileSpecs({"", "L"}, Paths, {"", "T"}, Names, {"hi"}, Kinds)
Annotations == {NoAnnotation, "", ClassName, "other"}

VARIABLES s1, s2, annot
vars == <<s1, s2, annot>>

Init == s1 \in Specs /\ s2 \in Specs /\ annot \in Annotations
Next == UNCHANGED vars
Spec == Init /\ [][Next]_vars

Admitted(spec) == ValidateKongFile("obj", spec)[1]

-----------------------------------------------------------------------------
(* Properties *)

\* Spec section 8: backend paths of different kinds never collide, so a
\* CONTENT file can never overwrite an ASSET or SPECIFICATION file (Build).
KindsNeverCollide ==
    /\ Admitted(s1) /\ Admitted(s2)
    /\ s1.kind # s2.kind
    /\ {s1.kind, s2.kind} \subseteq {CONTENT, ASSET, SPECIFICATION}
    => BuildPath(s1) # BuildPath(s2)

\* Spec sections 3 and 4.3: the admission webhook rejects malformed
\* objects "before they ever enter the loop", so every object it admits can
\* be pushed (ValidateKongFile against Build and FileService.Update's
\* empty-path check).
AdmittedSpecHasBackendPath ==
    Admitted(s1) => BuildPath(s1) # ""

=============================================================================
