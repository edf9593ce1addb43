---------------------------- MODULE KongFileSync ----------------------------
(***************************************************************************)
(* What the KongFile engine promises about an object's status, stated     *)
(* without the proxy, the cache, the work queue or the process:            *)
(*   - users create, edit, mark for deletion and remove objects, and never *)
(*     set status.validated themselves;                                    *)
(*   - the engine publishes to the backend only the current spec of a live *)
(*     object of its class that is neither being deleted nor validated,    *)
(*     and only a spec that has a backend path;                            *)
(*   - the engine sets status.validated only on a live object of its class *)
(*     that is not being deleted and whose current spec it published;      *)
(*   - the engine never changes a spec, an annotation or a deletion mark,  *)
(*     and never clears status.validated.                                  *)
(* KongFileReconciler implements this specification under the mapping in  *)
(* KongFileReconciler.                                                     *)
(***************************************************************************)
EXTENDS KongFile

CONSTANTS Keys, NoObject, SpecsOf, Annotations, ClassName

VARIABLES objects,    \* key -> [spec, annot, validated, marked] or NoObject
          published   \* key -> specs of the object the backend accepted

vars == <<objects, published>>

Live(k) == objects[k] # NoObject

Init ==
    /\ objects = [k \in Keys |-> NoObject]
    /\ published = [k \in Keys |-> {}]

UserCreate(k, s, a) ==
    /\ ~Live(k)
    /\ objects' = [objects EXCEPT ![k] =
                     [spec |-> s, annot |-> a, validated |-> FALSE, marked |-> FALSE]]
    /\ UNCHANGED published

UserEdit(k, s, a) ==
    /\ Live(k) /\ ~objects[k].marked
    /\ objects' = [objects EXCEPT ![k].spec = s, ![k].annot = a]
    /\ UNCHANGED published

UserMark(k) ==
    /\ Live(k) /\ ~objects[k].marked
    /\ objects' = [objects EXCEPT ![k].marked = TRUE]
    /\ UNCHANGED published

\* Removal ends the object's lifetime and its publication history.
UserRemove(k) ==
    /\ Live(k)
    /\ objects' = [objects EXCEPT ![k] = NoObject]
    /\ published' = [published EXCEPT ![k] = {}]

Eligible(k) ==
    /\ Live(k)
    /\ ~objects[k].marked
    /\ MatchesControllerClassName(objects[k].annot, ClassName)
    /\ ~objects[k].validated

Publish(k) ==
    /\ Eligible(k)
    /\ BuildPath(objects[k].spec) # ""
    /\ published' = [published EXCEPT ![k] = @ \cup {objects[k].spec}]
    /\ UNCHANGED objects

Validate(k) ==
    /\ Eligible(k)
    /\ objects[k].spec \in published[k]
    /\ objects' = [objects EXCEPT ![k].validated = TRUE]
    /\ UNCHANGED published

Next ==
    \E k \in Keys :
        \/ \E s \in SpecsOf[k], a \in Annotations : UserCreate(k, s, a) \/ UserEdit(k, s, a)
        \/ UserMark(k)
        \/ UserRemove(k)
        \/ Publish(k)
        \/ Validate(k)

Spec == Init /\ [][Next]_vars

=============================================================================
