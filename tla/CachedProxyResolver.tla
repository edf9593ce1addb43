------------------------- MODULE CachedProxyResolver -------------------------
(***************************************************************************)
(* The proxy (internal/dataplane/proxy/cached_proxy_resolver.go): it      *)
(* writes each KongFile to the local cache store and sends the matching   *)
(* backend call, with no rollback of the cache write when the call fails. *)
(* It is composed of CacheStores and FileService, which share its         *)
(* variables.  An object handed to the proxy is its KongFile spec; the    *)
(* key k is its namespace/name.  The initialize() checks are reduced to   *)
(* the database mode they record (an unsupported mode makes               *)
(* NewCacheBasedProxyWithStagger fail and the process exit).              *)
(***************************************************************************)
EXTENDS KongFile

CONSTANTS Keys, NoObject, FilePaths, NoFile, ServiceFaults,
          dbmode   \* root configuration "database" value

\* initialize(): the database modes the proxy accepts; any other makes
\* NewCacheBasedProxyWithStagger fail.
SupportedDbModes == {"off", "", "postgres"}

ASSUME dbmode \in SupportedDbModes

VARIABLES cache,          \* CacheStores
          backend,        \* the backend's files, changed only via FileService
          configApplied   \* "true if config has been applied at least once"

\* The proxy's mutable state (CachedProxyResolver struct).
vars == <<cache, backend, configApplied>>

Store == INSTANCE CacheStores
Service == INSTANCE FileService

Init == Store!Init /\ Service!Init /\ configApplied = FALSE

\* UpdateObject: cache write, then Update(Build(obj)); the call's error is
\* returned (r # "ok") and the cache write stays.  configApplied is left
\* alone: nothing in the code ever sets it.
UpdateObject(k, obj, r) ==
    /\ Store!Update(k, obj)
    /\ Service!Update(Build(obj), r)
    /\ UNCHANGED configApplied

\* DeleteObject: cache delete, then Delete(Build(obj)); same policy.
DeleteObject(k, obj, r) ==
    /\ Store!Delete(k)
    /\ Service!Delete(Build(obj), r)
    /\ UNCHANGED configApplied

\* ObjectExists: Get(Build(obj)); "error" when Get fails, otherwise
\* whether the returned record is non-nil.
ObjectExistsResults(obj) ==
    { IF g \in {"found", "empty"} THEN "true"
      ELSE IF g \in {"failed", "invalid"} THEN "error" ELSE "false" :
        g \in Service!GetResults(Build(obj)) }

\* ObjectExistsInCache: the cached object, or NoObject.
ObjectExistsInCache(k) == Store!Get(k)

\* IsReady: without a database, only once config was applied.
IsReady == IF dbmode = "off" THEN configApplied ELSE TRUE

=============================================================================
