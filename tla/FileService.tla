---------------------------- MODULE FileService ----------------------------
(***************************************************************************)
(* The backend client (internal/kong/file_service.go) together with the   *)
(* backend's file table it changes.  backend maps a file path to its      *)
(* contents, or NoFile.  A call's outcome is one of                       *)
(*   "ok"      the request was applied and the answer arrived;            *)
(*   "lost"    the request was applied but the caller got an error        *)
(*             (answer lost, connection reset after the write);           *)
(*   "failed"  the request was not applied and the caller got an error;   *)
(*   "invalid" the path was empty: no request was sent.                   *)
(* ServiceFaults says which calls may fail at all ("update", "delete",    *)
(* "get").                                                                *)
(***************************************************************************)
EXTENDS TLC

CONSTANTS FilePaths,      \* every non-empty path Build can produce
          NoFile,         \* no file at this path
          ServiceFaults   \* subset of {"update", "delete", "get"}

VARIABLE backend

Init == backend = [p \in FilePaths |-> NoFile]

\* isEmptyString: Build never produces a whitespace-only path, so the
\* TrimSpace in the code only matters for "".
isEmptyString(s) == s = ""

CallOutcomes(call) ==
    {"ok"} \cup (IF call \in ServiceFaults THEN {"lost", "failed"} ELSE {})

Applied(r) == r \in {"ok", "lost"}

\* Mutant: Update without the empty-path check.
UpdateWithoutPathCheck(file, r) ==
    /\ r \in CallOutcomes("update")
    /\ backend' = IF Applied(r)
                  THEN (file.path :> file.contents) @@ backend
                  ELSE backend

\* Update: PUT /files/{path} with the record (an upsert: the backend
\* stores whatever path it is sent).
Update(file, r) ==
    IF isEmptyString(file.path)
    THEN r = "invalid" /\ UNCHANGED backend
    ELSE /\ r \in CallOutcomes("update")
         /\ backend' = IF Applied(r)
                       THEN (file.path :> file.contents) @@ backend
                       ELSE backend

\* Delete: DELETE /files/{path}.
Delete(file, r) ==
    IF isEmptyString(file.path)
    THEN r = "invalid" /\ UNCHANGED backend
    ELSE /\ r \in CallOutcomes("delete")
         /\ backend' = IF Applied(r)
                       THEN [backend EXCEPT ![file.path] = NoFile]
                       ELSE backend

\* Get: GET /files/{path}; the possible results.  Get returns either a
\* non-nil record with a nil error or a nil record with an error: never
\* (nil, nil).  For a missing file the client either surfaces the 404 as an
\* error ("failed") or decodes an empty record ("empty"); which one depends
\* on the HTTP client library, so both are allowed.
GetResults(file) ==
    IF isEmptyString(file.path) THEN {"invalid"}
    ELSE IF backend[file.path] # NoFile
         THEN {"found"} \cup (IF "get" \in ServiceFaults THEN {"failed"} ELSE {})
         ELSE {"failed", "empty"}

=============================================================================
