------------------------------ MODULE KongFile ------------------------------
(***************************************************************************)
(* The KongFile custom resource and the pure functions the engine applies *)
(* to it:                                                                  *)
(*   - Build, the mapping of a KongFile spec to the backend file record    *)
(*     (dataplane/proxy/cached_proxy_resolver.go);                         *)
(*   - ValidateKongFile, the admission validator (admission/validator.go); *)
(*   - the controller-class filters (controllers/utils/utils.go and        *)
(*     annotations/annotations.go).                                        *)
(* Strings stay strings: Build concatenates them exactly as the code does, *)
(* so two specs whose path and name split a "/" differently really do map *)
(* to the same backend path.                                               *)
(***************************************************************************)
EXTENDS Sequences

CONSTANT NoAnnotation   \* the controller.class annotation key is absent

\* pkg/apis/v1/kongfile_types.go: Kind is a free string; three are named.
CONTENT == "CONTENT"
SPECIFICATION == "SPECIFICATION"
ASSET == "ASSET"

\* KongFileSpec: every field is a string; title and layout only matter to
\* CONTENT files.
KongFileSpecs(Layouts, Paths, Titles, Names, Contents, Kinds) ==
    [layout: Layouts, path: Paths, title: Titles, name: Names,
     content: Contents, kind: Kinds]

-----------------------------------------------------------------------------
(* Build: the backend path and the rendered contents of a KongFile.  A   *)
(* kind outside the three named ones leaves both strings empty.           *)

\* Mutant: the ASSET branch copied from the CONTENT one.
BuildPathAssetAsContent(spec) ==
    CASE spec.kind = CONTENT       -> "content/" \o spec.path \o "/" \o spec.name
      [] spec.kind = ASSET         -> "content/" \o spec.path \o "/" \o spec.name
      [] spec.kind = SPECIFICATION -> "specs/" \o spec.path \o "/" \o spec.name
      [] OTHER                     -> ""

\* Mutant: the file name left out of the path.
BuildPathWithoutName(spec) ==
    CASE spec.kind = CONTENT       -> "content/" \o spec.path \o "/"
      [] spec.kind = ASSET         -> "base/assets/" \o spec.path \o "/"
      [] spec.kind = SPECIFICATION -> "specs/" \o spec.path \o "/"
      [] OTHER                     -> ""

BuildPath(spec) ==
    CASE spec.kind = CONTENT       -> "content/" \o spec.path \o "/" \o spec.name
      [] spec.kind = ASSET         -> "base/assets/" \o spec.path \o "/" \o spec.name
      [] spec.kind = SPECIFICATION -> "specs/" \o spec.path \o "/" \o spec.name
      [] OTHER                     -> ""

BuildContents(spec) ==
    IF spec.kind = CONTENT
    THEN "---\n" \o "title: " \o spec.title \o "\n"
                 \o "layout: " \o spec.layout \o "\n" \o "---\n" \o spec.content
    ELSE IF spec.kind \in {ASSET, SPECIFICATION} THEN spec.content ELSE ""

Build(spec) == [path |-> BuildPath(spec), contents |-> BuildContents(spec)]

-----------------------------------------------------------------------------
(* ValidateKongFile: the rules in the order the code tests them; the      *)
(* first that fails decides.  Result: <<allowed, reason>>.                *)

ValidateKongFile(name, spec) ==
    CASE name = ""       -> <<FALSE, "ErrKongFileNameEmpty">>
      [] spec.name = ""  -> <<FALSE, "ErrKongFileSpecNameEmpty">>
      [] spec.path = ""  -> <<FALSE, "ErrKongFileSpecPathEmpty">>
      [] spec.kind = CONTENT /\ spec.title = ""  -> <<FALSE, "ErrKongFileSpecTitleEmpty">>
      [] spec.kind = CONTENT /\ spec.layout = "" -> <<FALSE, "ErrKongFileSpecLayoutEmpty">>
      [] OTHER           -> <<TRUE, "">>

-----------------------------------------------------------------------------
(* Controller-class filters.  annot is the value of the                   *)
(* developer.konghq.com/controller.class annotation, or NoAnnotation.     *)

\* HasAnnotation: the key is present and its value is the expected one.
HasAnnotation(annot, expectedValue) ==
    annot # NoAnnotation /\ annot = expectedValue

\* The filter Reconcile applies before pushing an object.
MatchesControllerClassName(annot, className) == HasAnnotation(annot, className)

IsControllerClassAnnotationConfigured(annot, className) ==
    annot # NoAnnotation /\ annot = className

\* Hard-wired to true in the code.
IsControllerClassSpecConfigured(annot, className) == TRUE

\* GeneratePredicateFuncsForControllerClassFilter: the watch predicates.
\* Create, Delete and Generic events use PredicateForObject; Update events
\* use PredicateForUpdate, whose operator precedence makes the spec check
\* (always true) win whatever the other flags say.
PredicateForObject(annot, className, specCheckEnabled, annotationCheckEnabled) ==
    \/ annotationCheckEnabled /\ IsControllerClassAnnotationConfigured(annot, className)
    \/ specCheckEnabled /\ IsControllerClassSpecConfigured(annot, className)

PredicateForUpdate(old, new, className, specCheckEnabled, annotationCheckEnabled) ==
    \/ (annotationCheckEnabled /\ IsControllerClassAnnotationConfigured(old, className))
       \/ IsControllerClassAnnotationConfigured(new, className)
    \/ (specCheckEnabled /\ IsControllerClassSpecConfigured(old, className))
       \/ IsControllerClassSpecConfigured(new, className)

\* annotations.go: the class matching modes; a missing key reads as "".
IgnoreClassMatch == 0
ExactOrEmptyClassMatch == 1
ExactClassMatch == 2

AnnotationValue(annot) == IF annot = NoAnnotation THEN "" ELSE annot

validController(controllerAnnotationValue, controllerClass, handling) ==
    CASE handling = IgnoreClassMatch -> TRUE
      [] handling = ExactOrEmptyClassMatch ->
            controllerAnnotationValue = "" \/ controllerAnnotationValue = controllerClass
      [] handling = ExactClassMatch -> controllerAnnotationValue = controllerClass

=============================================================================
