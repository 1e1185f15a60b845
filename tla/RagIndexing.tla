---------------------------- MODULE RagIndexing ----------------------------
(***************************************************************************)
(* The RAG indexing pipeline of the backend, for one project: the commands *)
(* index / reindex / abort (rag/services/mod.rs), the retry loop around    *)
(* the phases of one attempt (rag/indexing.rs), the abort registry         *)
(* RAG_INDEX_ABORT_HANDLES, the read-write guard of the store and the      *)
(* tables the phases write (rag/store).                                    *)
(*                                                                         *)
(* A run is one invocation of run_indexing. Several may be in flight for   *)
(* the same project. A client is any other command that takes the guard of *)
(* the store: search and list (read), set_embedding_model, remove_project  *)
(* and update_project (write).                                             *)
(***************************************************************************)
EXTENDS Naturals, FiniteSets

CONSTANTS
  Files,        (* relative paths of the project                            *)
  Texts,        (* UTF-8 contents; a content stands for its xxh3 hash too   *)
  NonUtf8,      (* a content that is not UTF-8 (and has no NUL byte)        *)
  Models,       (* embedding models                                         *)
  Runs,         (* invocations of run_indexing                              *)
  Clients,      (* other users of the store's guard                         *)
  None,         (* no file, no row, no handle, nobody                       *)
  MaxAttempts,  (* INDEX_MAX_RETRIES + 1                                    *)
  MaxEdits,     (* bound: changes of the directory                          *)
  MaxFaults,    (* bound: failures of SQLite, of Ollama or of the disk      *)
  MaxCrashes    (* bound: process crashes                                   *)

ASSUME ConstantsAssumption ==
  /\ None \notin Files \cup Texts \cup Models \cup Runs \cup Clients \cup {NonUtf8}
  /\ NonUtf8 \notin Texts
  /\ None \notin [text : Texts, model : Models]
  /\ Runs \cap Clients = {}
  /\ MaxAttempts \in Nat \ {0}
  /\ MaxEdits \in Nat /\ MaxFaults \in Nat /\ MaxCrashes \in Nat

VARIABLES
  disk,       (* content of each path; None: no such (text-like) file       *)
  exists,     (* the projects row is there                                  *)
  model,      (* projects.embedding_model                                   *)
  status,     (* projects.status                                            *)
  hash,       (* files.file_hash by path; None: no row                      *)
  vec,        (* what the chunks and vec_chunks rows of a path were made of *)
  slot,       (* RAG_INDEX_ABORT_HANDLES[project]: the run it can cancel    *)
  cancelled,  (* the runs whose CancellationToken is cancelled              *)
  writer,     (* who holds the write guard                                  *)
  readers,    (* the clients that hold a read guard                         *)
  pc,         (* where each run is                                          *)
  attempt,    (* its pass through the retry loop                            *)
  using,      (* the embedding model it read when it started                *)
  force,      (* reindex rather than index                                  *)
  seen,       (* contents cached by its diff phase                          *)
  todo,       (* files it still has to store                                *)
  gone,       (* tracked files it found deleted                             *)
  current,    (* the file it is storing                                     *)
  transient,  (* is_transient() of its last error                           *)
  edits, faults, crashes

project == <<exists, model, status, hash, vec>>
registry == <<slot, cancelled>>
guard == <<writer, readers>>
work == <<using, force, seen, todo, gone, current>>
budget == <<edits, faults, crashes>>
vars == <<disk, project, registry, guard, pc, attempt, work, transient, budget>>

Statuses == {"idle", "indexing", "ready", "error"}

\* In the retry loop with a token registered, up to the removal of the handle.
Registered == {"attempt", "begin", "diff", "purge", "embed", "store", "upsert",
               "insert", "complete", "failed", "finish", "succeeded"}
Starting == {"lookup", "replace", "register"}
Ended == {"ok", "error", "lost"}
PCs == {"new"} \cup Starting \cup Registered \cup Ended

Content == Texts \cup {NonUtf8, None}
Vectors == [text : Texts, model : Models]

TypeOK ==
  /\ disk \in [Files -> Content]
  /\ exists \in BOOLEAN
  /\ model \in Models
  /\ status \in Statuses
  /\ hash \in [Files -> Texts \cup {None}]
  /\ vec \in [Files -> Vectors \cup {None}]
  /\ slot \in Runs \cup {None}
  /\ cancelled \in SUBSET Runs
  /\ writer \in Runs \cup Clients \cup {None}
  /\ readers \in SUBSET Clients
  /\ pc \in [Runs -> PCs]
  /\ attempt \in [Runs -> 0..MaxAttempts]
  /\ using \in [Runs -> Models \cup {None}]
  /\ force \in [Runs -> BOOLEAN]
  /\ seen \in [Runs -> [Files -> Content]]
  /\ todo \in [Runs -> SUBSET Files]
  /\ gone \in [Runs -> SUBSET Files]
  /\ current \in [Runs -> Files \cup {None}]
  /\ transient \in [Runs -> BOOLEAN]
  /\ edits \in 0..MaxEdits
  /\ faults \in 0..MaxFaults
  /\ crashes \in 0..MaxCrashes

-----------------------------------------------------------------------------
(* The guard: Arc<RwLock<RagStore>>.                                       *)

CanRead == writer = None
CanWrite == writer = None /\ readers = {}

\* Something the code cannot prevent goes wrong: a statement, a read, a request.
Fault == faults < MaxFaults /\ faults' = faults + 1
Sound == UNCHANGED faults

Goto(r, l) == pc' = [pc EXCEPT ![r] = l]

\* An error leaves run_pipeline; is_transient decides whether it is retried.
Fail(r, t) ==
  /\ Goto(r, "failed")
  /\ transient' = [transient EXCEPT ![r] = t]

\* ctx.check_cancelled, cancel_token.is_cancelled. As if a token was never read:
NeverCancelled(r) == FALSE
IsCancelled(r) == r \in cancelled

\* As if the attempts were not counted:
RetryUncounted(r, t) ==
  IF t
  THEN Goto(r, "attempt") /\ UNCHANGED attempt
  ELSE Goto(r, "finish") /\ UNCHANGED attempt
\* As if one attempt too many were made:
RetryOnceMore(r, t) ==
  IF t /\ attempt[r] <= MaxAttempts
  THEN Goto(r, "attempt") /\ attempt' = [attempt EXCEPT ![r] = @ + 1]
  ELSE Goto(r, "finish") /\ UNCHANGED attempt
\* The retry loop after a failed attempt: again, or out of the loop.
Retry(r, t) ==
  IF t /\ attempt[r] < MaxAttempts
  THEN Goto(r, "attempt") /\ attempt' = [attempt EXCEPT ![r] = @ + 1]
  ELSE Goto(r, "finish") /\ UNCHANGED attempt

\* As if the cascade from files to chunks were missing:
FileRowsWithout(S) ==
  /\ hash' = [f \in Files |-> IF f \in S THEN None ELSE hash[f]]
  /\ UNCHANGED vec
\* The rows of the files of S go, chunks and vectors with them. Row ids are
\* never given out again, so an id a run still means to delete is void.
RowsWithout(S) ==
  /\ hash' = [f \in Files |-> IF f \in S THEN None ELSE hash[f]]
  /\ vec' = [f \in Files |-> IF f \in S THEN None ELSE vec[f]]

-----------------------------------------------------------------------------
(* The project is as an earlier session left it: indexed or not, possibly  *)
(* from an older state of the directory.                                   *)

Init ==
  /\ disk \in [Files -> Content]
  /\ exists = TRUE
  /\ model \in Models
  /\ hash \in [Files -> Texts \cup {None}]
  /\ vec = [f \in Files |-> IF hash[f] = None THEN None
                            ELSE [text |-> hash[f], model |-> model]]
  /\ status = IF \A f \in Files : hash[f] = None THEN "idle" ELSE "ready"
  /\ slot = None
  /\ cancelled = {}
  /\ writer = None
  /\ readers = {}
  /\ pc = [r \in Runs |-> "new"]
  /\ attempt = [r \in Runs |-> 0]
  /\ using = [r \in Runs |-> None]
  /\ force = [r \in Runs |-> FALSE]
  /\ seen = [r \in Runs |-> [f \in Files |-> None]]
  /\ todo = [r \in Runs |-> {}]
  /\ gone = [r \in Runs |-> {}]
  /\ current = [r \in Runs |-> None]
  /\ transient = [r \in Runs |-> FALSE]
  /\ edits = 0 /\ faults = 0 /\ crashes = 0

-----------------------------------------------------------------------------
(* The command: run_indexing up to its retry loop.                         *)

\* start_indexing (forced or not) or reindex_project (forced) is invoked.
Invoke(r, forced) ==
  /\ pc[r] = "new"
  /\ Goto(r, "lookup")
  /\ force' = [force EXCEPT ![r] = forced]
  /\ UNCHANGED <<disk, project, registry, guard, attempt, using, seen, todo, gone,
                 current, transient, budget>>

\* The project row is read under a read guard; its model is kept for all attempts.
Lookup(r) ==
  /\ pc[r] = "lookup"
  /\ CanRead
  /\ \/ /\ exists
        /\ using' = [using EXCEPT ![r] = model]
        /\ Goto(r, "replace")
        /\ Sound
     \/ /\ ~exists
        /\ Goto(r, "error")
        /\ UNCHANGED using
        /\ Sound
     \/ /\ Fault
        /\ Goto(r, "error")
        /\ UNCHANGED using
  /\ UNCHANGED <<disk, project, registry, guard, attempt, force, seen, todo, gone,
                 current, transient, edits, crashes>>

\* The handle of a run still in flight is taken out and cancelled ...
ReplacePrior(r) ==
  /\ pc[r] = "replace"
  /\ cancelled' = IF slot = None THEN cancelled ELSE cancelled \cup {slot}
  /\ slot' = None
  /\ Goto(r, "register")
  /\ UNCHANGED <<disk, project, guard, attempt, work, transient, budget>>

\* ... and this run's token put in its place: another map operation.
Register(r) ==
  /\ pc[r] = "register"
  /\ slot' = r
  /\ attempt' = [attempt EXCEPT ![r] = 1]
  /\ Goto(r, "attempt")
  /\ UNCHANGED <<disk, project, cancelled, guard, work, transient, budget>>

-----------------------------------------------------------------------------
(* One attempt: the retry loop's test, then index_project and its phases.  *)

\* The token is looked at before the backoff sleep, not after it.
StartAttempt(r) ==
  /\ pc[r] = "attempt"
  /\ Goto(r, IF IsCancelled(r) THEN "finish" ELSE "begin")
  /\ UNCHANGED <<disk, project, registry, guard, attempt, work, transient, budget>>

\* A failure here returns before the part of index_project that marks errors.
BeginIndexing(r) ==
  /\ pc[r] = "begin"
  /\ CanWrite
  /\ \/ /\ Sound
        /\ status' = IF exists THEN "indexing" ELSE status
        /\ Goto(r, "diff")
        /\ UNCHANGED attempt
     \/ /\ Fault
        /\ Retry(r, TRUE)
        /\ UNCHANGED status
  /\ UNCHANGED <<disk, exists, model, hash, vec, registry, guard, work, transient,
                 edits, crashes>>

\* As if the diff only looked for files it does not track:
Untracked(r, f) == force[r] \/ hash[f] = None
\* needs_index: forced, or the hash differs from the tracked one or there is none.
NeedsIndex(r, f) == force[r] \/ hash[f] # disk[f]

\* Discovery, phase_diff and what phase_chunk drops: every discovered file is
\* read and hashed against the tracked rows; content that is not UTF-8 is
\* skipped later, with the row it may have left as it is. Reading a file may
\* fail, which skips it; walking the directory may fail for good, the query
\* for the tracked rows for a while.
Diff(r) ==
  LET found == {f \in Files : disk[f] # None} IN
  /\ pc[r] = "diff"
  /\ CanRead
  /\ \/ /\ IsCancelled(r) /\ found # {}
        /\ Fail(r, FALSE)
        /\ Sound
        /\ UNCHANGED <<seen, todo, gone>>
     \/ /\ Fault
        /\ \E t \in BOOLEAN : Fail(r, t)
        /\ UNCHANGED <<seen, todo, gone>>
     \/ \E unread \in SUBSET found :
        /\ ~IsCancelled(r) \/ found = {}
        /\ IF unread = {} THEN Sound ELSE Fault
        /\ seen' = [seen EXCEPT ![r] =
                     [f \in Files |-> IF f \in unread THEN NonUtf8 ELSE disk[f]]]
        /\ todo' = [todo EXCEPT ![r] =
                     {f \in found \ unread : disk[f] # NonUtf8 /\ NeedsIndex(r, f)}]
        /\ gone' = [gone EXCEPT ![r] = {f \in Files \ found : hash[f] # None}]
        /\ Goto(r, "purge")
        /\ UNCHANGED transient
  /\ UNCHANGED <<disk, project, registry, guard, attempt, using, force, current,
                 edits, crashes>>

\* phase_delete_stale: one transaction per file under one write guard, the
\* token looked at before each; a failure leaves the files done so far deleted.
PurgeStale(r) ==
  /\ pc[r] = "purge"
  /\ CanWrite
  /\ \E done \in SUBSET gone[r] :
     /\ RowsWithout(done)
     /\ gone' = [q \in Runs |-> gone[q] \ done]
     /\ \/ /\ done = gone[r]
           /\ ~IsCancelled(r) \/ done = {}
           /\ Goto(r, "embed")
           /\ Sound
           /\ UNCHANGED transient
        \/ /\ done # gone[r]
           /\ IsCancelled(r)
           /\ Fail(r, FALSE)
           /\ Sound
        \/ /\ done # gone[r]
           /\ Fault
           /\ Fail(r, TRUE)
  /\ UNCHANGED <<disk, exists, model, status, registry, guard, attempt, using, force,
                 seen, todo, current, edits, crashes>>

\* phase_chunk and phase_embed: a request to the embedder fails before the
\* token is looked at; the last look comes after all vectors are there.
Embed(r) ==
  /\ pc[r] = "embed"
  /\ CanWrite
  /\ \/ /\ Fault
        /\ Fail(r, TRUE)
     \/ /\ Sound
        /\ IsCancelled(r)
        /\ Fail(r, FALSE)
     \/ /\ Sound
        /\ ~IsCancelled(r)
        /\ Goto(r, "store")
        /\ UNCHANGED transient
  /\ UNCHANGED <<disk, project, registry, guard, attempt, work, edits, crashes>>

\* phase_store, the head of the loop over files.
NextFile(r) ==
  /\ pc[r] = "store"
  /\ \/ /\ todo[r] = {}
        /\ Goto(r, "complete")
        /\ UNCHANGED <<current, transient>>
     \/ /\ todo[r] # {}
        /\ IsCancelled(r)
        /\ Fail(r, FALSE)
        /\ UNCHANGED current
     \/ \E f \in todo[r] :
        /\ ~IsCancelled(r)
        /\ current' = [current EXCEPT ![r] = f]
        /\ Goto(r, "upsert")
        /\ UNCHANGED transient
  /\ UNCHANGED <<disk, project, registry, guard, attempt, using, force, seen, todo,
                 gone, budget>>

\* As if the guard were taken for each statement:
GuardPerStatement(r) == writer' = None
\* One guard for all statements about a file.
GuardPerFile(r) == writer' = r

\* The write guard is taken and kept for the file. upsert_file commits the new
\* hash on its own (its foreign key refuses it for a deleted project); then
\* the old chunks are deleted, and an error of that is ignored.
UpsertFile(r) ==
  LET f == current[r] IN
  /\ pc[r] = "upsert"
  /\ CanWrite
  /\ \/ /\ exists
        /\ hash' = [hash EXCEPT ![f] = seen[r][f]]
        /\ \/ vec' = [vec EXCEPT ![f] = None] /\ Sound
           \/ UNCHANGED vec /\ Fault
        /\ GuardPerFile(r)
        /\ Goto(r, "insert")
        /\ UNCHANGED transient
     \/ /\ IF exists THEN Fault ELSE Sound
        /\ Fail(r, TRUE)
        /\ UNCHANGED <<hash, vec, writer>>
  /\ UNCHANGED <<disk, exists, model, status, registry, readers, attempt, work,
                 edits, crashes>>

\* insert_chunks_with_embeddings: one transaction; rows that were not deleted
\* make it fail (UNIQUE(file_id, chunk_index)). The guard is dropped.
InsertChunks(r) ==
  LET f == current[r] IN
  /\ pc[r] = "insert"
  /\ \/ /\ vec[f] = None
        /\ vec' = [vec EXCEPT ![f] = [text |-> seen[r][f], model |-> using[r]]]
        /\ todo' = [todo EXCEPT ![r] = @ \ {f}]
        /\ Goto(r, "store")
        /\ Sound
        /\ UNCHANGED transient
     \/ /\ IF vec[f] = None THEN Fault ELSE Sound
        /\ Fail(r, TRUE)
        /\ UNCHANGED <<vec, todo>>
  /\ writer' = None
  /\ UNCHANGED <<disk, exists, model, status, hash, registry, readers, attempt, using,
                 force, seen, gone, current, edits, crashes>>

\* The statistics and phase_complete. A deleted project has no statistics; a query
\* that fails may do so after the status is set.
Complete(r) ==
  /\ pc[r] = "complete"
  /\ CanWrite
  /\ \/ /\ exists
        /\ status' = "ready"
        /\ Goto(r, "succeeded")
        /\ Sound
        /\ UNCHANGED transient
     \/ /\ exists
        /\ status' \in {status, "ready"}
        /\ Fault
        /\ Fail(r, TRUE)
     \/ /\ ~exists
        /\ Fail(r, TRUE)
        /\ Sound
        /\ UNCHANGED status
  /\ UNCHANGED <<disk, exists, model, hash, vec, registry, guard, attempt, work,
                 edits, crashes>>

\* As if a failed run left the status alone:
StatusKept == status
\* try_write, then set_status(Error).
StatusAfterError == IF CanWrite /\ exists THEN "error" ELSE status

\* index_project after a failed pipeline: try_write, so whoever holds the guard
\* at this moment keeps the status from becoming Error; so does a failing
\* statement, whose error is ignored. Then the retry loop decides.
MarkError(r) ==
  /\ pc[r] = "failed"
  /\ \/ Sound /\ status' = StatusAfterError
     \/ Fault /\ UNCHANGED status
  /\ Retry(r, transient[r])
  /\ UNCHANGED <<disk, exists, model, hash, vec, registry, guard, work, transient,
                 edits, crashes>>

\* As if only the successful exit removed the handle:
HandleKeptOnError(r) == slot' = IF pc[r] = "finish" THEN slot ELSE None
\* Both exits of run_indexing: remove(project_id).
HandleRemoved(r) == slot' = None

\* The handle is removed by the project's name, whichever run it belongs to.
Finish(r) ==
  /\ \/ pc[r] = "succeeded" /\ Goto(r, "ok")
     \/ pc[r] = "finish" /\ Goto(r, "error")
  /\ HandleRemoved(r)
  /\ UNCHANGED <<disk, project, cancelled, guard, attempt, work, transient, budget>>

-----------------------------------------------------------------------------
(* The other commands, the directory and the process.                      *)

\* abort_index
Abort ==
  /\ slot # None
  /\ cancelled' = cancelled \cup {slot}
  /\ slot' = None
  /\ UNCHANGED <<disk, project, guard, pc, attempt, work, transient, budget>>

\* search, assemble_context, list_files, get_file_chunks, list_projects: a read
\* guard is held for the length of the queries.
BeginRead(c) ==
  /\ CanRead
  /\ c \notin readers
  /\ readers' = readers \cup {c}
  /\ UNCHANGED <<disk, project, registry, writer, pc, attempt, work, transient, budget>>

EndRead(c) ==
  /\ c \in readers
  /\ readers' = readers \ {c}
  /\ UNCHANGED <<disk, project, registry, writer, pc, attempt, work, transient, budget>>

\* set_embedding_model: a different model wipes the index in one transaction. With
\* the model it has it changes nothing, like update_project here: it takes the guard.
SetEmbeddingModel(c, m) ==
  /\ CanWrite
  /\ exists
  /\ writer' = c
  /\ IF m = model
     THEN UNCHANGED <<model, status, hash, vec, gone>>
     ELSE /\ model' = m
          /\ status' = "idle"
          /\ RowsWithout(Files)
          /\ gone' = [r \in Runs |-> {}]
  /\ UNCHANGED <<disk, exists, registry, readers, pc, attempt, using, force, seen,
                 todo, current, transient, budget>>

\* remove_project: the rows go by cascade; a run in flight is not cancelled.
RemoveProject(c) ==
  /\ CanWrite
  /\ exists
  /\ writer' = c
  /\ exists' = FALSE
  /\ RowsWithout(Files)
  /\ gone' = [r \in Runs |-> {}]
  /\ UNCHANGED <<disk, model, status, registry, readers, pc, attempt, using, force,
                 seen, todo, current, transient, budget>>

EndWrite(c) ==
  /\ writer = c
  /\ writer' = None
  /\ UNCHANGED <<disk, project, registry, readers, pc, attempt, work, transient, budget>>

\* The user edits, creates or deletes a file.
EditFile(f, x) ==
  /\ edits < MaxEdits
  /\ disk[f] # x
  /\ disk' = [disk EXCEPT ![f] = x]
  /\ edits' = edits + 1
  /\ UNCHANGED <<project, registry, guard, pc, attempt, work, transient, faults, crashes>>

\* The process dies and is started again: the tables stay as the last commit
\* left them, and opening the store resets nothing.
Crash ==
  /\ crashes < MaxCrashes
  /\ crashes' = crashes + 1
  /\ pc' = [r \in Runs |-> IF pc[r] \in {"new"} \cup Ended THEN pc[r] ELSE "lost"]
  /\ slot' = None
  /\ writer' = None
  /\ readers' = {}
  /\ UNCHANGED <<disk, project, cancelled, attempt, work, transient, edits, faults>>

-----------------------------------------------------------------------------
\* A step that waits for a guard, and one that does not.
Acquire(r) ==
  \/ Lookup(r) \/ BeginIndexing(r) \/ Diff(r) \/ PurgeStale(r) \/ Embed(r)
  \/ UpsertFile(r) \/ Complete(r)
Proceed(r) ==
  \/ ReplacePrior(r) \/ Register(r) \/ StartAttempt(r) \/ NextFile(r)
  \/ InsertChunks(r) \/ MarkError(r) \/ Finish(r)
Release(c) == EndRead(c) \/ EndWrite(c)

Next ==
  \/ \E r \in Runs, forced \in BOOLEAN : Invoke(r, forced)
  \/ \E r \in Runs : Acquire(r)
  \/ \E r \in Runs : Proceed(r)
  \/ Abort
  \/ \E c \in Clients : BeginRead(c)
  \/ \E c \in Clients, m \in Models : SetEmbeddingModel(c, m)
  \/ \E c \in Clients : RemoveProject(c)
  \/ \E c \in Clients : Release(c)
  \/ \E f \in Files, x \in Content : EditFile(f, x)
  \/ Crash

Spec == Init /\ [][Next]_vars

\* tokio polls every task that can go on, and its RwLock serves waiters in the
\* order they came, so a waiter that can be served again and again is served.
Fairness ==
  /\ \A r \in Runs : SF_vars(Acquire(r)) /\ WF_vars(Proceed(r))
  /\ \A c \in Clients : WF_vars(Release(c))

FairSpec == Spec /\ Fairness

-----------------------------------------------------------------------------
(* Safety.                                                                 *)

\* A handle in the registry is one of a run that is still in its retry loop: an
\* abort acknowledged with true stops something, and the tray, which asks
\* whether the registry is empty, never keeps the window for a run that ended.
HandleMeansRun == slot # None => pc[slot] \in Registered

\* Chunks and vectors hang on a files row, and nothing of a removed project comes
\* back, whatever a run that was under way still writes.
NoOrphanRows ==
  /\ \A f \in Files : hash[f] = None => vec[f] = None
  /\ ~exists => \A f \in Files : hash[f] = None

\* Whenever the write guard is free the chunks of every tracked file were made of
\* the content whose hash is recorded: what the next diff skips as unchanged is
\* indexed. InsertChunks is where the two tables meet.
NoPartialFile ==
  writer = None =>
    \A f \in Files : hash[f] # None => /\ vec[f] # None
                                       /\ vec[f].text = hash[f]

\* It holds as long as no statement fails and the process does not die.
NoPartialFileIfSound == faults = 0 /\ crashes = 0 => NoPartialFile

\* Outside of a commit in progress the status Indexing belongs to a run: a project is
\* never left in it with nothing running. It is so as long as nobody else holds the
\* guard when a run fails, no statement fails and the process does not die.
NotStuckIndexing ==
  status = "indexing" =>
    \E r \in Runs : pc[r] \in Registered \ {"succeeded", "finish"}

\* A run that was not cancelled can be: abort_index reaches it by the project.
LiveRunIsAbortable ==
  \A r \in Runs :
    pc[r] \in Registered \ {"succeeded", "finish"} /\ r \notin cancelled => slot = r

\* The step that marks the project Ready finds the index equal to what the run's
\* diff read: text files with their chunks, and no row for a file that was gone. It
\* is meant for a run alone: an overtaken one may store after its successor.
FreshWhenReady ==
  \A r \in Runs : pc[r] = "complete" /\ pc'[r] = "succeeded" =>
    \A f \in Files :
      /\ seen[r][f] \in Texts => hash[f] = seen[r][f] /\ vec[f].text = seen[r][f]
      /\ seen[r][f] = None => hash[f] = None
ReadyIsFresh == [][FreshWhenReady]_vars

\* A run cancelled before its vectors are there never ends Ready, through any
\* number of attempts and whether or not there is anything to store.
CancelledRunNeverReady ==
  \A r \in Runs :
    [](/\ r \in cancelled
       /\ pc[r] \in {"attempt", "begin", "diff", "purge", "embed"}
       => [](pc[r] # "succeeded"))

(* Liveness.                                                               *)

\* Every run ends, under faults, retries, aborts, replaced handles and other
\* users of the guard.
EveryRunEnds == \A r \in Runs : pc[r] # "new" ~> pc[r] \in Ended
=============================================================================
