---------------------------- MODULE CacheStores ----------------------------
(***************************************************************************)
(* The proxy's local cache store (internal/store/store.go, CacheStores):  *)
(* a map from the object key namespace/name to the last KongFile handed   *)
(* to the proxy.  Every operation holds the store's RWMutex for its whole *)
(* duration, so each is one atomic step.  The unsupported-kind branches   *)
(* are unreachable: the engine only hands it KongFiles.                   *)
(***************************************************************************)
CONSTANTS Keys,      \* object keys namespace/name (keyFunc)
          NoObject   \* the key has no entry

VARIABLE cache

Init == cache = [k \in Keys |-> NoObject]

\* Get: (item, exists); exists <=> the result is not NoObject.
Get(k) == cache[k]

\* Add: client-go's store adds by updating, so an existing entry of key k
\* is overwritten rather than refused.  Nothing in the engine calls it.
Add(k, obj) == cache' = [cache EXCEPT ![k] = obj]

\* Update: insert or overwrite the entry of key k.
Update(k, obj) == cache' = [cache EXCEPT ![k] = obj]

\* Delete: remove the entry; deleting a missing key is not an error.
Delete(k) == cache' = [cache EXCEPT ![k] = NoObject]

=============================================================================
