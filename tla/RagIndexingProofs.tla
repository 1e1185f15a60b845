------------------------- MODULE RagIndexingProofs -------------------------
(* Theorems about RagIndexing, for any files, contents, models, runs and   *)
(* clients and any bounds.                                                 *)
EXTENDS RagIndexing, TLAPS

-----------------------------------------------------------------------------
(* Types.                                                                  *)

\* What a run carries from one phase to the next: a model once it has looked the
\* project up, text to store for every file on its list, and, while it stores
\* one, a file of the list.
RunInv ==
  \A r \in Runs :
    /\ pc[r] \in Registered \cup {"replace", "register"} => using[r] \in Models
    /\ \A f \in todo[r] : seen[r][f] \in Texts
    /\ pc[r] \in {"upsert", "insert"} => current[r] \in todo[r]

Typing == TypeOK /\ RunInv

LEMMA InitTyping == Init => Typing
  <1> SUFFICES ASSUME Init PROVE Typing
    OBVIOUS
  <1>1. MaxAttempts \in Nat /\ MaxEdits \in Nat /\ MaxFaults \in Nat /\ MaxCrashes \in Nat
    BY ConstantsAssumption
  <1>2. vec \in [Files -> Vectors \cup {None}]
    BY DEF Init, Vectors, Content
  <1>3. TypeOK
    BY <1>1, <1>2 DEF Init, TypeOK, Content, Statuses, PCs
  <1>4. RunInv
    BY DEF Init, RunInv, Registered
  <1> QED
    BY <1>3, <1>4 DEF Typing

\* A run goes to one of its places.
LEMMA PlaceTyped ==
  ASSUME TypeOK, NEW r \in Runs, NEW l \in PCs, Goto(r, l)
  PROVE  pc' \in [Runs -> PCs]
  BY DEF TypeOK, Goto

LEMMA FaultsTyped == ASSUME TypeOK, Fault \/ Sound PROVE faults' \in 0..MaxFaults
  BY ConstantsAssumption DEF TypeOK, Fault, Sound

\* The retry loop counts its attempts up to the bound.
LEMMA RetryTyped ==
  ASSUME TypeOK, NEW r \in Runs, NEW t \in BOOLEAN, Retry(r, t)
  PROVE  attempt' \in [Runs -> 0..MaxAttempts]
  <1>1. attempt \in [Runs -> 0..MaxAttempts] /\ MaxAttempts \in Nat
    BY ConstantsAssumption DEF TypeOK
  <1>2. CASE UNCHANGED attempt
    BY <1>1, <1>2
  <1>3. CASE attempt[r] < MaxAttempts /\ attempt' = [attempt EXCEPT ![r] = @ + 1]
    <2>1. attempt[r] + 1 \in 0..MaxAttempts
      BY <1>1, <1>3
    <2> QED
      BY <1>1, <1>3, <2>1
  <1> QED
    BY <1>2, <1>3 DEF Retry

LEMMA StepTyping == Typing /\ [Next]_vars => Typing'
  <1> SUFFICES ASSUME Typing, [Next]_vars PROVE Typing'
    OBVIOUS
  <1>0. TypeOK /\ RunInv
    BY DEF Typing
  <1>1. ASSUME NEW r \in Runs, NEW forced \in BOOLEAN, Invoke(r, forced)
        PROVE  Typing'
    <2>1. pc' \in [Runs -> PCs]
      BY <1>0, <1>1 DEF TypeOK, Invoke, Goto, PCs, Registered, Starting, Ended
    <2>2. force' \in [Runs -> BOOLEAN]
      BY <1>0, <1>1 DEF TypeOK, Invoke
    <2>3. TypeOK'
      BY <1>0, <1>1, <2>1, <2>2 DEF TypeOK, Invoke, project, registry, guard, work, budget
    <2>4. RunInv'
      BY <1>0, <1>1
      DEF TypeOK, RunInv, Registered, Goto, Invoke, project, registry, guard, work, budget
    <2> QED
      BY <2>3, <2>4 DEF Typing
  <1>2. ASSUME NEW r \in Runs, Lookup(r)
        PROVE  Typing'
    <2>1. pc' \in [Runs -> PCs]
      BY <1>0, <1>2 DEF TypeOK, Lookup, Goto, PCs, Registered, Starting, Ended
    <2>2. using' \in [Runs -> Models \cup {None}]
      BY <1>0, <1>2 DEF TypeOK, Lookup
    <2>3. faults' \in 0..MaxFaults
      <3>1. Fault \/ Sound
        BY <1>2 DEF Lookup
      <3> QED
        BY <1>0, <3>1, FaultsTyped
    <2>4. TypeOK'
      BY <1>0, <1>2, <2>1, <2>2, <2>3
      DEF TypeOK, Lookup, project, registry, guard, work, budget
    <2>5. RunInv'
      BY <1>0, <1>2
      DEF TypeOK, RunInv, Registered, Goto, Lookup, project, registry, guard, work, budget
    <2> QED
      BY <2>4, <2>5 DEF Typing
  <1>3. ASSUME NEW r \in Runs, BeginIndexing(r)
        PROVE  Typing'
    <2>1. pc' \in [Runs -> PCs]
      <3>1. PICK l \in {"diff", "attempt", "finish"} : Goto(r, l)
        BY <1>3 DEF BeginIndexing, Retry
      <3> QED
        BY <1>0, <3>1, PlaceTyped DEF PCs, Registered
    <2>2. attempt' \in [Runs -> 0..MaxAttempts]
      <3>1. CASE UNCHANGED attempt
        BY <1>0, <3>1 DEF TypeOK
      <3>2. CASE Retry(r, TRUE)
        BY <1>0, <3>2, RetryTyped
      <3> QED
        BY <1>3, <3>1, <3>2 DEF BeginIndexing
    <2>3. status' \in Statuses
      BY <1>0, <1>3 DEF TypeOK, BeginIndexing, Statuses
    <2>4. faults' \in 0..MaxFaults
      <3>1. Fault \/ Sound
        BY <1>3 DEF BeginIndexing
      <3> QED
        BY <1>0, <3>1, FaultsTyped
    <2>5. TypeOK'
      BY <1>0, <1>3, <2>1, <2>2, <2>3, <2>4
      DEF TypeOK, BeginIndexing, project, registry, guard, work, budget
    <2>6. RunInv'
      BY <1>0, <1>3
      DEF TypeOK, RunInv, Registered, Goto, BeginIndexing, Retry, project, registry, guard,
          work, budget
    <2> QED
      BY <2>5, <2>6 DEF Typing
  <1>4. ASSUME NEW r \in Runs, Diff(r)
        PROVE  Typing'
    <2>1. pc' \in [Runs -> PCs]
      <3>1. PICK l \in {"failed", "purge"} : Goto(r, l)
        BY <1>4 DEF Diff, Fail
      <3> QED
        BY <1>0, <3>1, PlaceTyped DEF PCs, Registered
    <2>2. transient' \in [Runs -> BOOLEAN]
      BY <1>0, <1>4 DEF TypeOK, Diff, Fail
    <2>3. faults' \in 0..MaxFaults
      <3>1. Fault \/ Sound
        BY <1>4 DEF Diff
      <3> QED
        BY <1>0, <3>1, FaultsTyped
    <2> DEFINE found == {f \in Files : disk[f] # None}
    <2>4. CASE UNCHANGED <<seen, todo, gone>>
      <3>1. pc' = [pc EXCEPT ![r] = pc'[r]] /\ pc'[r] \notin {"upsert", "insert"}
        BY <1>0, <1>4 DEF TypeOK, Diff, Fail, Goto
      <3>2. TypeOK'
        BY <1>0, <1>4, <2>1, <2>2, <2>3, <2>4 DEF TypeOK, Diff, project, registry, guard
      <3>3. RunInv'
        BY <1>0, <1>4, <2>4, <3>1 DEF TypeOK, RunInv, Registered, Diff
      <3> QED
        BY <3>2, <3>3 DEF Typing
    <2>5. ASSUME NEW unread \in SUBSET found,
                 seen' = [seen EXCEPT ![r] =
                           [f \in Files |-> IF f \in unread THEN NonUtf8 ELSE disk[f]]],
                 todo' = [todo EXCEPT ![r] =
                           {f \in found \ unread : disk[f] # NonUtf8 /\ NeedsIndex(r, f)}],
                 gone' = [gone EXCEPT ![r] = {f \in Files \ found : hash[f] # None}],
                 Goto(r, "purge")
          PROVE  Typing'
      <3>1. [f \in Files |-> IF f \in unread THEN NonUtf8 ELSE disk[f]] \in [Files -> Content]
        BY <1>0 DEF TypeOK, Content
      <3>2. seen' \in [Runs -> [Files -> Content]]
        BY <1>0, <2>5, <3>1 DEF TypeOK
      <3>3. todo' \in [Runs -> SUBSET Files] /\ gone' \in [Runs -> SUBSET Files]
        BY <1>0, <2>5 DEF TypeOK
      <3>4. TypeOK'
        BY <1>0, <1>4, <2>1, <2>2, <2>3, <3>2, <3>3
        DEF TypeOK, Diff, project, registry, guard
      <3>5. \A f \in todo'[r] : seen'[r][f] \in Texts
        BY <1>0, <2>5 DEF TypeOK, Content
      <3>6. \A q \in Runs \ {r} : todo'[q] = todo[q] /\ seen'[q] = seen[q] /\ pc'[q] = pc[q]
        BY <1>0, <2>5 DEF TypeOK, Goto
      <3>7. pc'[r] = "purge"
        BY <1>0, <2>5 DEF TypeOK, Goto
      <3>8. using' = using /\ current' = current /\ pc[r] = "diff"
        BY <1>4 DEF Diff
      <3>9. RunInv'
        BY <1>0, <3>5, <3>6, <3>7, <3>8 DEF RunInv, Registered
      <3> QED
        BY <3>4, <3>9 DEF Typing
    <2> QED
      BY <1>4, <2>4, <2>5 DEF Diff
  <1>5. ASSUME NEW r \in Runs, PurgeStale(r)
        PROVE  Typing'
    <2>1. pc' \in [Runs -> PCs]
      <3>1. PICK l \in {"failed", "embed"} : Goto(r, l)
        BY <1>5 DEF PurgeStale, Fail
      <3> QED
        BY <1>0, <3>1, PlaceTyped DEF PCs, Registered
    <2>2. transient' \in [Runs -> BOOLEAN]
      BY <1>0, <1>5 DEF TypeOK, PurgeStale, Fail
    <2>3. faults' \in 0..MaxFaults
      <3>1. Fault \/ Sound
        BY <1>5 DEF PurgeStale
      <3> QED
        BY <1>0, <3>1, FaultsTyped
    <2>4. hash' \in [Files -> Texts \cup {None}]
      BY <1>0, <1>5 DEF TypeOK, PurgeStale, RowsWithout
    <2>5. vec' \in [Files -> Vectors \cup {None}]
      BY <1>0, <1>5 DEF TypeOK, PurgeStale, RowsWithout
    <2>6. gone' \in [Runs -> SUBSET Files]
      BY <1>0, <1>5 DEF TypeOK, PurgeStale
    <2>7. TypeOK'
      BY <1>0, <1>5, <2>1, <2>2, <2>3, <2>4, <2>5, <2>6
      DEF TypeOK, PurgeStale, project, registry, guard, work, budget
    <2>8. RunInv'
      BY <1>0, <1>5
      DEF TypeOK, RunInv, Registered, Goto, PurgeStale, Fail, project, registry, guard,
          work, budget
    <2> QED
      BY <2>7, <2>8 DEF Typing
  <1>6. ASSUME NEW r \in Runs, Embed(r)
        PROVE  Typing'
    <2>1. pc' \in [Runs -> PCs]
      <3>1. PICK l \in {"failed", "store"} : Goto(r, l)
        BY <1>6 DEF Embed, Fail
      <3> QED
        BY <1>0, <3>1, PlaceTyped DEF PCs, Registered
    <2>2. transient' \in [Runs -> BOOLEAN]
      BY <1>0, <1>6 DEF TypeOK, Embed, Fail
    <2>3. faults' \in 0..MaxFaults
      <3>1. Fault \/ Sound
        BY <1>6 DEF Embed
      <3> QED
        BY <1>0, <3>1, FaultsTyped
    <2>4. TypeOK'
      BY <1>0, <1>6, <2>1, <2>2, <2>3
      DEF TypeOK, Embed, project, registry, guard, work, budget
    <2>5. RunInv'
      BY <1>0, <1>6
      DEF TypeOK, RunInv, Registered, Goto, Embed, Fail, project, registry, guard, work,
          budget
    <2> QED
      BY <2>4, <2>5 DEF Typing
  <1>7. ASSUME NEW r \in Runs, UpsertFile(r)
        PROVE  Typing'
    <2>1. pc' \in [Runs -> PCs]
      <3>1. PICK l \in {"failed", "insert"} : Goto(r, l)
        BY <1>7 DEF UpsertFile, Fail
      <3> QED
        BY <1>0, <3>1, PlaceTyped DEF PCs, Registered
    <2>2. transient' \in [Runs -> BOOLEAN]
      BY <1>0, <1>7 DEF TypeOK, UpsertFile, Fail
    <2>3. faults' \in 0..MaxFaults
      <3>1. Fault \/ Sound
        BY <1>7 DEF UpsertFile
      <3> QED
        BY <1>0, <3>1, FaultsTyped
    <2>4. hash' \in [Files -> Texts \cup {None}]
      BY <1>0, <1>7 DEF TypeOK, UpsertFile, RunInv
    <2>5. vec' \in [Files -> Vectors \cup {None}]
      BY <1>0, <1>7 DEF TypeOK, UpsertFile
    <2>6. writer' \in Runs \cup Clients \cup {None}
      BY <1>0, <1>7 DEF TypeOK, UpsertFile, GuardPerFile
    <2>7. TypeOK'
      BY <1>0, <1>7, <2>1, <2>2, <2>3, <2>4, <2>5, <2>6
      DEF TypeOK, UpsertFile, project, registry, guard, work, budget
    <2>8. RunInv'
      BY <1>0, <1>7
      DEF TypeOK, RunInv, Registered, Goto, UpsertFile, Fail, project, registry, guard,
          work, budget
    <2> QED
      BY <2>7, <2>8 DEF Typing
  <1>8. ASSUME NEW r \in Runs, Complete(r)
        PROVE  Typing'
    <2>1. pc' \in [Runs -> PCs]
      <3>1. PICK l \in {"failed", "succeeded"} : Goto(r, l)
        BY <1>8 DEF Complete, Fail
      <3> QED
        BY <1>0, <3>1, PlaceTyped DEF PCs, Registered
    <2>2. transient' \in [Runs -> BOOLEAN]
      BY <1>0, <1>8 DEF TypeOK, Complete, Fail
    <2>3. faults' \in 0..MaxFaults
      <3>1. Fault \/ Sound
        BY <1>8 DEF Complete
      <3> QED
        BY <1>0, <3>1, FaultsTyped
    <2>4. status' \in Statuses
      BY <1>0, <1>8 DEF TypeOK, Complete, Statuses
    <2>5. TypeOK'
      BY <1>0, <1>8, <2>1, <2>2, <2>3, <2>4
      DEF TypeOK, Complete, project, registry, guard, work, budget
    <2>6. RunInv'
      BY <1>0, <1>8
      DEF TypeOK, RunInv, Registered, Goto, Complete, Fail, project, registry, guard, work,
          budget
    <2> QED
      BY <2>5, <2>6 DEF Typing
  <1>9. ASSUME NEW r \in Runs, ReplacePrior(r)
        PROVE  Typing'
    <2>1. pc' \in [Runs -> PCs]
      BY <1>0, <1>9 DEF TypeOK, ReplacePrior, Goto, PCs, Registered, Starting, Ended
    <2>2. slot' \in Runs \cup {None}
      BY <1>0, <1>9 DEF TypeOK, ReplacePrior
    <2>3. cancelled' \in SUBSET Runs
      BY <1>0, <1>9 DEF TypeOK, ReplacePrior
    <2>4. TypeOK'
      BY <1>0, <1>9, <2>1, <2>2, <2>3
      DEF TypeOK, ReplacePrior, project, registry, guard, work, budget
    <2>5. RunInv'
      BY <1>0, <1>9
      DEF TypeOK, RunInv, Registered, Goto, ReplacePrior, project, registry, guard, work,
          budget
    <2> QED
      BY <2>4, <2>5 DEF Typing
  <1>10. ASSUME NEW r \in Runs, Register(r)
         PROVE  Typing'
    <2>1. pc' \in [Runs -> PCs]
      BY <1>0, <1>10 DEF TypeOK, Register, Goto, PCs, Registered, Starting, Ended
    <2>2. slot' \in Runs \cup {None}
      BY <1>0, <1>10 DEF TypeOK, Register
    <2>3. attempt' \in [Runs -> 0..MaxAttempts]
      BY <1>0, <1>10, ConstantsAssumption DEF TypeOK, Register
    <2>4. TypeOK'
      BY <1>0, <1>10, <2>1, <2>2, <2>3
      DEF TypeOK, Register, project, registry, guard, work, budget
    <2>5. RunInv'
      BY <1>0, <1>10
      DEF TypeOK, RunInv, Registered, Goto, Register, project, registry, guard, work, budget
    <2> QED
      BY <2>4, <2>5 DEF Typing
  <1>11. ASSUME NEW r \in Runs, StartAttempt(r)
         PROVE  Typing'
    <2>1. pc' \in [Runs -> PCs]
      BY <1>0, <1>11 DEF TypeOK, StartAttempt, Goto, PCs, Registered, Starting, Ended
    <2>2. TypeOK'
      BY <1>0, <1>11, <2>1 DEF TypeOK, StartAttempt, project, registry, guard, work, budget
    <2>3. RunInv'
      BY <1>0, <1>11
      DEF TypeOK, RunInv, Registered, Goto, StartAttempt, project, registry, guard, work,
          budget
    <2> QED
      BY <2>2, <2>3 DEF Typing
  <1>12. ASSUME NEW r \in Runs, NextFile(r)
         PROVE  Typing'
    <2>1. pc' \in [Runs -> PCs]
      <3>1. PICK l \in {"failed", "complete", "upsert"} : Goto(r, l)
        BY <1>12 DEF NextFile, Fail
      <3> QED
        BY <1>0, <3>1, PlaceTyped DEF PCs, Registered
    <2>2. transient' \in [Runs -> BOOLEAN]
      BY <1>0, <1>12 DEF TypeOK, NextFile, Fail
    <2>3. current' \in [Runs -> Files \cup {None}]
      BY <1>0, <1>12 DEF TypeOK, NextFile
    <2>4. TypeOK'
      BY <1>0, <1>12, <2>1, <2>2, <2>3
      DEF TypeOK, NextFile, project, registry, guard, work, budget
    <2>5. RunInv'
      BY <1>0, <1>12
      DEF TypeOK, RunInv, Registered, Goto, NextFile, Fail, project, registry, guard, work,
          budget
    <2> QED
      BY <2>4, <2>5 DEF Typing
  <1>13. ASSUME NEW r \in Runs, InsertChunks(r)
         PROVE  Typing'
    <2>1. pc' \in [Runs -> PCs]
      <3>1. PICK l \in {"failed", "store"} : Goto(r, l)
        BY <1>13 DEF InsertChunks, Fail
      <3> QED
        BY <1>0, <3>1, PlaceTyped DEF PCs, Registered
    <2>2. transient' \in [Runs -> BOOLEAN]
      BY <1>0, <1>13 DEF TypeOK, InsertChunks, Fail
    <2>3. faults' \in 0..MaxFaults
      <3>1. Fault \/ Sound
        BY <1>13 DEF InsertChunks
      <3> QED
        BY <1>0, <3>1, FaultsTyped
    <2>4. vec' \in [Files -> Vectors \cup {None}]
      <3>1. seen[r][current[r]] \in Texts /\ using[r] \in Models
        BY <1>0, <1>13 DEF InsertChunks, RunInv, Registered
      <3>2. [text |-> seen[r][current[r]], model |-> using[r]] \in Vectors
        BY <3>1 DEF Vectors
      <3> QED
        BY <1>0, <1>13, <3>2 DEF TypeOK, InsertChunks
    <2>5. todo' \in [Runs -> SUBSET Files]
      <3>1. todo' = [todo EXCEPT ![r] = @ \ {current[r]}] \/ todo' = todo
        BY <1>13 DEF InsertChunks
      <3> QED
        BY <1>0, <3>1 DEF TypeOK
    <2>6. writer' \in Runs \cup Clients \cup {None}
      BY <1>0, <1>13 DEF TypeOK, InsertChunks
    <2>7. TypeOK'
      BY <1>0, <1>13, <2>1, <2>2, <2>3, <2>4, <2>5, <2>6
      DEF TypeOK, InsertChunks, project, registry, guard, work, budget
    <2>8. RunInv'
      BY <1>0, <1>13
      DEF TypeOK, RunInv, Registered, Goto, InsertChunks, Fail, project, registry, guard,
          work, budget
    <2> QED
      BY <2>7, <2>8 DEF Typing
  <1>14. ASSUME NEW r \in Runs, MarkError(r)
         PROVE  Typing'
    <2>1. pc' \in [Runs -> PCs]
      <3>1. PICK l \in {"attempt", "finish"} : Goto(r, l)
        BY <1>14 DEF MarkError, Retry
      <3> QED
        BY <1>0, <3>1, PlaceTyped DEF PCs, Registered
    <2>2. attempt' \in [Runs -> 0..MaxAttempts]
      BY <1>0, <1>14, ConstantsAssumption DEF TypeOK, MarkError, Retry
    <2>3. status' \in Statuses
      BY <1>0, <1>14 DEF TypeOK, MarkError, StatusAfterError, Statuses
    <2>4. faults' \in 0..MaxFaults
      <3>1. Fault \/ Sound
        BY <1>14 DEF MarkError
      <3> QED
        BY <1>0, <3>1, FaultsTyped
    <2>5. TypeOK'
      BY <1>0, <1>14, <2>1, <2>2, <2>3, <2>4
      DEF TypeOK, MarkError, project, registry, guard, work, budget
    <2>6. RunInv'
      BY <1>0, <1>14
      DEF TypeOK, RunInv, Registered, Goto, MarkError, Retry, project, registry, guard,
          work, budget
    <2> QED
      BY <2>5, <2>6 DEF Typing
  <1>15. ASSUME NEW r \in Runs, Finish(r)
         PROVE  Typing'
    <2>1. pc' \in [Runs -> PCs]
      BY <1>0, <1>15 DEF TypeOK, Finish, Goto, PCs, Registered, Starting, Ended
    <2>2. slot' \in Runs \cup {None}
      BY <1>0, <1>15 DEF TypeOK, Finish, HandleRemoved
    <2>3. TypeOK'
      BY <1>0, <1>15, <2>1, <2>2 DEF TypeOK, Finish, project, registry, guard, work, budget
    <2>4. RunInv'
      BY <1>0, <1>15
      DEF TypeOK, RunInv, Registered, Goto, Finish, project, registry, guard, work, budget
    <2> QED
      BY <2>3, <2>4 DEF Typing
  <1>16. CASE Abort
    BY <1>0, <1>16 DEF Typing, TypeOK, RunInv, Abort, project, guard, work, budget
  <1>17. ASSUME NEW c \in Clients, BeginRead(c) \/ EndRead(c) \/ EndWrite(c)
         PROVE  Typing'
    BY <1>0, <1>17
    DEF Typing, TypeOK, RunInv, project, registry, work, budget, BeginRead, EndRead,
        EndWrite
  <1>18. ASSUME NEW c \in Clients, NEW m \in Models, SetEmbeddingModel(c, m)
         PROVE  Typing'
    BY <1>0, <1>18
    DEF Typing, TypeOK, RunInv, Statuses, registry, budget, SetEmbeddingModel, RowsWithout
  <1>19. ASSUME NEW c \in Clients, RemoveProject(c)
         PROVE  Typing'
    BY <1>0, <1>19 DEF Typing, TypeOK, RunInv, registry, budget, RemoveProject, RowsWithout
  <1>20. ASSUME NEW f \in Files, NEW x \in Content, EditFile(f, x)
         PROVE  Typing'
    BY <1>0, <1>20, ConstantsAssumption
    DEF Typing, TypeOK, RunInv, project, registry, guard, work, EditFile
  <1>21. CASE Crash
    BY <1>0, <1>21, ConstantsAssumption
    DEF Typing, TypeOK, RunInv, PCs, Registered, Ended, project, work, Crash
  <1>22. CASE UNCHANGED vars
    BY <1>0, <1>22 DEF Typing, TypeOK, RunInv, vars, project, registry, guard, work, budget
  <1> QED
    BY <1>1, <1>2, <1>3, <1>4, <1>5, <1>6, <1>7, <1>8, <1>9, <1>10, <1>11, <1>12,
       <1>13, <1>14, <1>15, <1>16, <1>17, <1>18, <1>19, <1>20, <1>21, <1>22
    DEF Next, Acquire, Proceed, Release

\* Every variable of the pipeline keeps its type, and a run what its phases rely on.
THEOREM TypeCorrect == Spec => []TypeOK
  <1>1. Spec => []Typing
    BY InitTyping, StepTyping, PTL DEF Spec
  <1>2. Typing => TypeOK
    BY DEF Typing
  <1> QED
    BY <1>1, <1>2, PTL

-----------------------------------------------------------------------------
(* The abort registry.                                                     *)

\* A step of a run that keeps the registry: it stays in its loop if it was in it.
LEMMA HandleKept ==
  ASSUME TypeOK, HandleMeansRun, NEW r \in Runs, slot' = slot,
         pc' = [pc EXCEPT ![r] = pc'[r]],
         pc[r] \in Registered => pc'[r] \in Registered
  PROVE  HandleMeansRun'
  BY ConstantsAssumption DEF TypeOK, HandleMeansRun

LEMMA StepHandle == TypeOK /\ HandleMeansRun /\ [Next]_vars => HandleMeansRun'
  <1> SUFFICES ASSUME TypeOK, HandleMeansRun, [Next]_vars PROVE HandleMeansRun'
    OBVIOUS
  <1> DEFINE Kept(r) == /\ slot' = slot
                        /\ pc' = [pc EXCEPT ![r] = pc'[r]]
                        /\ pc[r] \in Registered => pc'[r] \in Registered
  <1>1. ASSUME NEW r \in Runs, NEW forced \in BOOLEAN, Invoke(r, forced)
        PROVE  Kept(r)
    BY <1>1 DEF TypeOK, Invoke, Goto, registry, Registered
  <1>2. ASSUME NEW r \in Runs, Lookup(r)
        PROVE  Kept(r)
    BY <1>2 DEF TypeOK, Lookup, Goto, registry, Registered
  <1>3. ASSUME NEW r \in Runs, BeginIndexing(r)
        PROVE  Kept(r)
    BY <1>3 DEF TypeOK, BeginIndexing, Retry, Goto, registry, Registered
  <1>4. ASSUME NEW r \in Runs, Diff(r)
        PROVE  Kept(r)
    BY <1>4 DEF TypeOK, Diff, Fail, Goto, registry, Registered
  <1>5. ASSUME NEW r \in Runs, PurgeStale(r)
        PROVE  Kept(r)
    BY <1>5 DEF TypeOK, PurgeStale, Fail, Goto, registry, Registered
  <1>6. ASSUME NEW r \in Runs, Embed(r)
        PROVE  Kept(r)
    BY <1>6 DEF TypeOK, Embed, Fail, Goto, registry, Registered
  <1>7. ASSUME NEW r \in Runs, UpsertFile(r)
        PROVE  Kept(r)
    BY <1>7 DEF TypeOK, UpsertFile, Fail, Goto, registry, Registered
  <1>8. ASSUME NEW r \in Runs, Complete(r)
        PROVE  Kept(r)
    BY <1>8 DEF TypeOK, Complete, Fail, Goto, registry, Registered
  <1>9. ASSUME NEW r \in Runs, StartAttempt(r)
        PROVE  Kept(r)
    BY <1>9 DEF TypeOK, StartAttempt, Goto, registry, Registered
  <1>10. ASSUME NEW r \in Runs, NextFile(r)
         PROVE  Kept(r)
    BY <1>10 DEF TypeOK, NextFile, Fail, Goto, registry, Registered
  <1>11. ASSUME NEW r \in Runs, InsertChunks(r)
         PROVE  Kept(r)
    BY <1>11 DEF TypeOK, InsertChunks, Fail, Goto, registry, Registered
  <1>12. ASSUME NEW r \in Runs, MarkError(r)
         PROVE  Kept(r)
    BY <1>12 DEF TypeOK, MarkError, Retry, Goto, registry, Registered
  <1>13. ASSUME NEW r \in Runs, ReplacePrior(r) \/ Finish(r)
         PROVE  slot' = None
    BY <1>13 DEF ReplacePrior, Finish, HandleRemoved
  <1>14. ASSUME NEW r \in Runs, Register(r)
         PROVE  slot' = r /\ pc'[r] \in Registered
    BY <1>14 DEF TypeOK, Register, Goto, Registered
  <1>15. Abort \/ Crash => slot' = None
    BY DEF Abort, Crash
  <1>16. ASSUME \/ \E c \in Clients : BeginRead(c) \/ RemoveProject(c) \/ Release(c)
                \/ \E c \in Clients, m \in Models : SetEmbeddingModel(c, m)
                \/ \E f \in Files, x \in Content : EditFile(f, x)
                \/ UNCHANGED vars
         PROVE  UNCHANGED <<slot, pc>>
    BY <1>16 DEF BeginRead, RemoveProject, Release, EndRead, EndWrite, SetEmbeddingModel,
                 EditFile, vars, registry
  <1>17. slot' = None \/ UNCHANGED <<slot, pc>> => HandleMeansRun'
    BY DEF HandleMeansRun
  <1>18. ASSUME NEW r \in Runs, Acquire(r) \/ Proceed(r)
         PROVE  HandleMeansRun'
    <2>1. CASE Kept(r)
      BY <2>1, HandleKept
    <2>2. CASE ReplacePrior(r) \/ Finish(r)
      BY <2>2, <1>13, <1>17
    <2>3. CASE Register(r)
      BY <2>3, <1>14 DEF HandleMeansRun
    <2> HIDE DEF Kept
    <2> QED
      BY <1>18, <1>2, <1>3, <1>4, <1>5, <1>6, <1>7, <1>8, <1>9, <1>10, <1>11, <1>12,
         <2>1, <2>2, <2>3
      DEF Acquire, Proceed
  <1>19. ASSUME NEW r \in Runs, NEW forced \in BOOLEAN, Invoke(r, forced)
         PROVE  HandleMeansRun'
    BY <1>1, <1>19, HandleKept
  <1> QED
    BY <1>15, <1>16, <1>17, <1>18, <1>19 DEF Next

\* A handle in the registry belongs to a run in its retry loop: run_indexing removes
\* the handle before it returns, whichever way it leaves the loop.
THEOREM HandlesAreOfRuns == Spec => []HandleMeansRun
  <1>1. Init => HandleMeansRun
    BY DEF Init, HandleMeansRun
  <1> QED
    BY <1>1, StepHandle, TypeCorrect, PTL DEF Spec

-----------------------------------------------------------------------------
(* The tables.                                                             *)

Storing(r, f) == pc[r] = "insert" /\ current[r] = f

\* Between its two statements a run holds the write guard, so that nobody else
\* touches the row it has just committed.
GuardHeld ==
  \A r \in Runs :
    pc[r] = "insert" => writer = r /\ exists /\ hash[current[r]] = seen[r][current[r]]

\* As long as everything works, the chunks of a file agree with its row, or the
\* file is the one being stored and has none.
Agreement ==
  faults = 0 /\ crashes = 0 =>
    \A f \in Files :
      /\ \A r \in Runs : Storing(r, f) => vec[f] = None
      /\ hash[f] # None => \/ vec[f] # None /\ vec[f].text = hash[f]
                           \/ \E r \in Runs : Storing(r, f)

StoreInv == GuardHeld /\ NoOrphanRows /\ Agreement

LEMMA InitStore == Init => StoreInv
  <1> SUFFICES ASSUME Init PROVE StoreInv
    OBVIOUS
  <1>1. GuardHeld
    BY DEF Init, GuardHeld
  <1>2. NoOrphanRows
    BY DEF Init, NoOrphanRows
  <1>3. \A f \in Files : hash[f] # None => vec[f] = [text |-> hash[f], model |-> model]
    BY DEF Init
  <1>4. \A f \in Files : hash[f] # None => vec[f] # None /\ vec[f].text = hash[f]
    <2> TAKE f \in Files
    <2> HAVE hash[f] # None
    <2>1. [text |-> hash[f], model |-> model] # None
      BY ConstantsAssumption DEF Init
    <2>2. vec[f] = [text |-> hash[f], model |-> model]
      BY <1>3
    <2>3. vec[f].text = hash[f]
      BY <2>2
    <2> QED
      BY <2>1, <2>2, <2>3
  <1> QED
    BY <1>1, <1>2, <1>4 DEF StoreInv, Agreement, Init, Storing

\* A step that writes no table, neither takes nor drops the guard, and leaves the runs
\* between their two statements where they are.
LEMMA QuietStep ==
  ASSUME StoreInv, UNCHANGED <<exists, hash, vec, writer>>,
         faults' = 0 /\ crashes' = 0 => faults = 0 /\ crashes = 0,
         \A r \in Runs : pc'[r] = "insert" <=> pc[r] = "insert",
         \A r \in Runs : pc[r] = "insert" => current'[r] = current[r] /\ seen'[r] = seen[r]
  PROVE  StoreInv'
  <1>1. GuardHeld'
    BY DEF StoreInv, GuardHeld
  <1>2. NoOrphanRows'
    BY DEF StoreInv, NoOrphanRows
  <1>3. \A r \in Runs, f \in Files : Storing(r, f)' <=> Storing(r, f)
    BY DEF Storing
  <1>4. Agreement'
    BY <1>3 DEF StoreInv, Agreement
  <1> QED
    BY <1>1, <1>2, <1>4 DEF StoreInv

\* A step that deletes the rows of some files while nobody holds the guard.
LEMMA DeletingStep ==
  ASSUME StoreInv, NEW S \in SUBSET Files, RowsWithout(S), writer = None,
         exists' = exists \/ S = Files,
         faults' = 0 /\ crashes' = 0 => faults = 0 /\ crashes = 0,
         \A r \in Runs : pc'[r] = "insert" => pc[r] = "insert"
  PROVE  StoreInv'
  <1>1. \A r \in Runs : pc[r] # "insert" /\ pc'[r] # "insert"
    BY ConstantsAssumption DEF StoreInv, GuardHeld
  <1>2. GuardHeld'
    BY <1>1 DEF GuardHeld
  <1>3. \A f \in Files : /\ f \in S => hash'[f] = None /\ vec'[f] = None
                         /\ f \notin S => hash'[f] = hash[f] /\ vec'[f] = vec[f]
    BY DEF RowsWithout
  <1>4. NoOrphanRows'
    BY <1>3 DEF StoreInv, NoOrphanRows
  <1>5. Agreement'
    BY <1>1, <1>3 DEF StoreInv, Agreement, Storing
  <1> QED
    BY <1>2, <1>4, <1>5 DEF StoreInv

\* Faults are only ever counted up.
LEMMA FaultsKept == ASSUME TypeOK, Fault \/ Sound PROVE faults' = 0 => faults = 0
  BY ConstantsAssumption DEF TypeOK, Fault, Sound

LEMMA StepStore == Typing /\ StoreInv /\ [Next]_vars => StoreInv'
  <1> SUFFICES ASSUME Typing, StoreInv, [Next]_vars PROVE StoreInv'
    OBVIOUS
  <1>0. TypeOK /\ RunInv
    BY DEF Typing
  <1> DEFINE Quiet == /\ UNCHANGED <<exists, hash, vec, writer, crashes>>
                      /\ Fault \/ Sound
                      /\ \A q \in Runs : pc'[q] = "insert" <=> pc[q] = "insert"
                      /\ \A q \in Runs : pc[q] = "insert" => /\ current'[q] = current[q]
                                                           /\ seen'[q] = seen[q]
  <1>1. Quiet => StoreInv'
    BY <1>0, QuietStep, FaultsKept
  <1>2. ASSUME NEW r \in Runs, NEW forced \in BOOLEAN, Invoke(r, forced)
        PROVE  Quiet
    BY <1>0, <1>2 DEF TypeOK, Invoke, Goto, Sound, project, guard, budget
  <1>3. ASSUME NEW r \in Runs, Lookup(r)
        PROVE  Quiet
    BY <1>0, <1>3 DEF TypeOK, Lookup, Goto, project, guard, work
  <1>4. ASSUME NEW r \in Runs, ReplacePrior(r)
        PROVE  Quiet
    BY <1>0, <1>4 DEF TypeOK, ReplacePrior, Goto, Sound, project, guard, work, budget
  <1>5. ASSUME NEW r \in Runs, Register(r)
        PROVE  Quiet
    BY <1>0, <1>5 DEF TypeOK, Register, Goto, Sound, project, guard, work, budget
  <1>6. ASSUME NEW r \in Runs, StartAttempt(r)
        PROVE  Quiet
    BY <1>0, <1>6 DEF TypeOK, StartAttempt, Goto, Sound, project, guard, work, budget
  <1>7. ASSUME NEW r \in Runs, BeginIndexing(r)
        PROVE  Quiet
    BY <1>0, <1>7 DEF TypeOK, BeginIndexing, Retry, Goto, guard, work
  <1>8. ASSUME NEW r \in Runs, Diff(r)
        PROVE  Quiet
    BY <1>0, <1>8 DEF TypeOK, Diff, Fail, Goto, project, guard
  <1>9. ASSUME NEW r \in Runs, Embed(r)
        PROVE  Quiet
    BY <1>0, <1>9 DEF TypeOK, Embed, Fail, Goto, project, guard, work
  <1>10. ASSUME NEW r \in Runs, NextFile(r)
         PROVE  Quiet
    BY <1>0, <1>10 DEF TypeOK, NextFile, Fail, Goto, Sound, project, guard, budget
  <1>11. ASSUME NEW r \in Runs, Complete(r)
         PROVE  Quiet
    BY <1>0, <1>11 DEF TypeOK, Complete, Fail, Goto, guard, work
  <1>12. ASSUME NEW r \in Runs, MarkError(r)
         PROVE  Quiet
    BY <1>0, <1>12 DEF TypeOK, MarkError, Retry, Goto, guard, work
  <1>13. ASSUME NEW r \in Runs, Finish(r)
         PROVE  Quiet
    BY <1>0, <1>13 DEF TypeOK, Finish, Goto, Sound, project, guard, work, budget
  <1>14. ASSUME \/ Abort
                \/ \E c \in Clients : BeginRead(c) \/ EndRead(c)
                \/ \E f \in Files, x \in Content : EditFile(f, x)
                \/ UNCHANGED vars
         PROVE  Quiet
    BY <1>14
    DEF Abort, BeginRead, EndRead, EditFile, Sound, vars, project, guard, work, budget
  <1>15. ASSUME NEW r \in Runs, PurgeStale(r)
         PROVE  StoreInv'
    <2>1. PICK done \in SUBSET gone[r] : RowsWithout(done)
      BY <1>15 DEF PurgeStale
    <2>2. done \in SUBSET Files
      BY <1>0, <2>1 DEF TypeOK
    <2>3. writer = None /\ exists' = exists /\ crashes' = crashes /\ (Fault \/ Sound)
      BY <1>15 DEF PurgeStale, CanWrite
    <2>4. \A q \in Runs : pc'[q] = "insert" => pc[q] = "insert"
      BY <1>0, <1>15 DEF TypeOK, PurgeStale, Fail, Goto
    <2> QED
      BY <1>0, <2>1, <2>2, <2>3, <2>4, FaultsKept, DeletingStep
  <1>16. ASSUME NEW c \in Clients, RemoveProject(c) \/ \E m \in Models : SetEmbeddingModel(c, m)
         PROVE  StoreInv'
    <2>1. CASE RowsWithout(Files)
      BY <1>16, <2>1, DeletingStep DEF RemoveProject, SetEmbeddingModel, CanWrite, budget
    <2>2. CASE UNCHANGED <<hash, vec, exists>> /\ writer' = c /\ writer = None
      <3>1. \A r \in Runs : pc[r] # "insert" /\ pc'[r] = pc[r]
        BY <1>16, <2>2, ConstantsAssumption
        DEF StoreInv, GuardHeld, RemoveProject, SetEmbeddingModel
      <3> QED
        BY <1>16, <2>2, <3>1
        DEF StoreInv, GuardHeld, NoOrphanRows, Agreement, Storing, RemoveProject,
            SetEmbeddingModel, budget
    <2> QED
      BY <1>16, <2>1, <2>2 DEF RemoveProject, SetEmbeddingModel, CanWrite
  <1>17. ASSUME NEW c \in Clients, EndWrite(c)
         PROVE  StoreInv'
    <2>1. \A r \in Runs : pc[r] # "insert" /\ pc'[r] = pc[r]
      BY <1>17, ConstantsAssumption DEF StoreInv, GuardHeld, EndWrite
    <2> QED
      BY <1>17, <2>1 DEF StoreInv, GuardHeld, NoOrphanRows, Agreement, Storing, EndWrite,
                         project, budget
  <1>18. ASSUME Crash
         PROVE  StoreInv'
    <2>1. \A r \in Runs : pc'[r] # "insert"
      BY <1>18 DEF Crash, Ended
    <2>2. crashes' # 0
      BY <1>0, <1>18, ConstantsAssumption DEF TypeOK, Crash
    <2> QED
      BY <1>18, <2>1, <2>2 DEF StoreInv, GuardHeld, NoOrphanRows, Agreement, Crash, project
  <1>19. ASSUME NEW r \in Runs, UpsertFile(r)
         PROVE  StoreInv'
    <2>1. CASE Fail(r, TRUE) /\ UNCHANGED <<hash, vec, writer>>
      <3>1. Quiet
        BY <1>0, <1>19, <2>1 DEF TypeOK, UpsertFile, Fail, Goto, work
      <3> QED
        BY <3>1, <1>1
    <2>2. CASE GuardPerFile(r)
      <3> DEFINE f == current[r]
      <3>1. f \in Files /\ seen[r][f] \in Texts /\ seen[r][f] # None
        BY <1>0, <1>19, ConstantsAssumption DEF TypeOK, RunInv, UpsertFile
      <3>2. writer = None /\ exists /\ exists' /\ writer' = r /\ crashes' = crashes
        BY <1>19, <2>2, ConstantsAssumption DEF UpsertFile, GuardPerFile, CanWrite
      <3>3. \A q \in Runs : pc[q] # "insert"
        BY <3>2, ConstantsAssumption DEF StoreInv, GuardHeld
      <3>4. hash' = [hash EXCEPT ![f] = seen[r][f]] /\ Goto(r, "insert")
        BY <1>19, <2>2, <3>2, ConstantsAssumption DEF UpsertFile, GuardPerFile
      <3>5. UNCHANGED <<current, seen>>
        BY <1>19 DEF UpsertFile, work
      <3>6. \A q \in Runs : pc'[q] = "insert" <=> q = r
        BY <1>0, <3>3, <3>4 DEF TypeOK, Goto
      <3>7. \/ vec' = [vec EXCEPT ![f] = None] /\ Sound
            \/ vec' = vec /\ Fault
        BY <1>19, <2>2, <3>2, ConstantsAssumption DEF UpsertFile, GuardPerFile
      <3>8. GuardHeld'
        BY <1>0, <3>1, <3>2, <3>4, <3>5, <3>6 DEF TypeOK, GuardHeld
      <3>9. NoOrphanRows'
        BY <1>0, <3>1, <3>2, <3>4, <3>7 DEF TypeOK, StoreInv, NoOrphanRows
      <3>10. /\ pc'[r] = "insert" /\ current'[r] = f
             /\ \A q \in Runs, g \in Files : Storing(q, g)' => g = f
        BY <3>5, <3>6 DEF Storing
      <3>11. Agreement'
        <4>1. SUFFICES ASSUME faults' = 0, crashes' = 0
              PROVE  \A g \in Files :
                       /\ \A q \in Runs : Storing(q, g)' => vec'[g] = None
                       /\ hash'[g] # None => \/ vec'[g] # None /\ vec'[g].text = hash'[g]
                                             \/ \E q \in Runs : Storing(q, g)'
          BY DEF Agreement
        <4>2. faults = 0 /\ crashes = 0 /\ vec' = [vec EXCEPT ![f] = None]
          BY <1>0, <3>2, <3>7, <4>1, ConstantsAssumption DEF TypeOK, Fault, Sound
        <4>3. \A g \in Files \ {f} : /\ hash'[g] = hash[g] /\ vec'[g] = vec[g]
                                     /\ \A q \in Runs : ~Storing(q, g)
          BY <1>0, <3>3, <3>4, <4>2 DEF TypeOK, Storing
        <4>4. vec'[f] = None
          BY <1>0, <3>1, <4>2 DEF TypeOK
        <4>5. \A g \in Files \ {f} :
                hash[g] # None => vec[g] # None /\ vec[g].text = hash[g]
          BY <4>2, <4>3 DEF StoreInv, Agreement
        <4>6. ASSUME NEW g \in Files, g = f PROVE \E q \in Runs : Storing(q, g)'
          BY <3>10, <4>6 DEF Storing
        <4>7. \A g \in Files, q \in Runs : Storing(q, g)' => vec'[g] = None
          BY <3>10, <4>4
        <4>8. \A g \in Files : hash'[g] # None => \/ vec'[g] # None /\ vec'[g].text = hash'[g]
                                                \/ \E q \in Runs : Storing(q, g)'
          BY <4>3, <4>5, <4>6
        <4> QED
          BY <4>7, <4>8
      <3> QED
        BY <3>8, <3>9, <3>11 DEF StoreInv
    <2> QED
      BY <1>19, <2>1, <2>2 DEF UpsertFile
  <1>20. ASSUME NEW r \in Runs, InsertChunks(r)
         PROVE  StoreInv'
    <2> DEFINE f == current[r]
    <2>1. /\ f \in Files /\ seen[r][f] \in Texts /\ seen[r][f] # None
          /\ using[r] \in Models
      BY <1>0, <1>20, ConstantsAssumption DEF TypeOK, RunInv, InsertChunks, Registered
    <2>2. pc[r] = "insert" /\ writer = r /\ exists /\ hash[f] = seen[r][f]
      BY <1>20 DEF InsertChunks, StoreInv, GuardHeld
    <2>3. UNCHANGED <<exists, hash, crashes, current, seen>>
      BY <1>20 DEF InsertChunks
    <2>4. \A q \in Runs : pc[q] = "insert" => q = r
      BY <2>2 DEF StoreInv, GuardHeld
    <2>5. \A q \in Runs : pc'[q] # "insert"
      BY <1>0, <1>20, <2>4 DEF TypeOK, InsertChunks, Fail, Goto
    <2>6. GuardHeld'
      BY <2>5 DEF GuardHeld
    <2>7. CASE vec' = [vec EXCEPT ![f] = [text |-> seen[r][f], model |-> using[r]]]
      <3>1. [text |-> seen[r][f], model |-> using[r]] # None
        BY <2>1, ConstantsAssumption
      <3>2. vec'[f] # None /\ vec'[f].text = hash[f]
        BY <1>0, <2>1, <2>2, <2>7, <3>1 DEF TypeOK
      <3>3. \A g \in Files \ {f} : vec'[g] = vec[g] /\ \A q \in Runs : ~Storing(q, g)
        BY <1>0, <2>4, <2>7 DEF TypeOK, Storing
      <3>4. NoOrphanRows'
        BY <2>1, <2>2, <2>3, <3>3 DEF StoreInv, NoOrphanRows
      <3>5. faults' = 0 => faults = 0
        BY <1>0, <1>20, FaultsKept DEF InsertChunks
      <3>6. \A q \in Runs, g \in Files : ~Storing(q, g)'
        BY <2>5 DEF Storing
      <3>7. Agreement'
        BY <2>3, <3>2, <3>3, <3>5, <3>6 DEF StoreInv, Agreement
      <3> QED
        BY <2>6, <3>4, <3>7 DEF StoreInv
    <2>8. CASE UNCHANGED vec /\ (Fault \/ vec[f] # None)
      <3>1. NoOrphanRows'
        BY <2>3, <2>8 DEF StoreInv, NoOrphanRows
      <3>2. faults' = 0 => faults = 0 /\ ~Fault
        <4>1. Fault \/ Sound
          BY <1>20 DEF InsertChunks
        <4>2. Fault => faults' # 0
          BY <1>0, ConstantsAssumption DEF TypeOK, Fault
        <4> QED
          BY <1>0, <4>1, <4>2, FaultsKept
      <3>3. vec[f] # None => ~(faults = 0 /\ crashes = 0)
        BY <2>1, <2>2 DEF StoreInv, Agreement, Storing
      <3>4. Agreement'
        BY <2>3, <2>8, <3>2, <3>3 DEF Agreement
      <3> QED
        BY <2>6, <3>1, <3>4 DEF StoreInv
    <2> QED
      BY <1>20, <2>7, <2>8 DEF InsertChunks
  <1> HIDE DEF Quiet
  <1> QED
    BY <1>1, <1>2, <1>3, <1>4, <1>5, <1>6, <1>7, <1>8, <1>9, <1>10, <1>11, <1>12, <1>13,
       <1>14, <1>15, <1>16, <1>17, <1>18, <1>19, <1>20
    DEF Next, Acquire, Proceed, Release

LEMMA StoreInvariant == Spec => []StoreInv
  <1>1. Spec => []Typing
    BY InitTyping, StepTyping, PTL DEF Spec
  <1> QED
    BY <1>1, InitStore, StepStore, PTL DEF Spec

\* Nothing of a removed project or of a deleted file comes back, through any number of
\* runs under way, failures and crashes.
THEOREM RowsBelong == Spec => []NoOrphanRows
  <1>1. StoreInv => NoOrphanRows
    BY DEF StoreInv
  <1> QED
    BY <1>1, StoreInvariant, PTL

\* Without a failing statement and without a crash, runs that overlap, retry and are
\* cancelled anywhere leave no file with a recorded hash and other chunks or none.
THEOREM FilesAreWhole == Spec => []NoPartialFileIfSound
  <1>1. ASSUME StoreInv PROVE NoPartialFileIfSound
    <2>1. writer = None => \A r \in Runs : pc[r] # "insert"
      BY <1>1, ConstantsAssumption DEF StoreInv, GuardHeld
    <2> QED
      BY <1>1, <2>1 DEF StoreInv, Agreement, Storing, NoPartialFileIfSound, NoPartialFile
  <1> QED
    BY <1>1, StoreInvariant, PTL

-----------------------------------------------------------------------------
(* Cancelled runs.                                                         *)

\* Where a run cancelled before its vectors are there may still go.
DoomedPlaces ==
  {"attempt", "begin", "diff", "purge", "embed", "failed", "finish", "error", "lost"}
Doomed(r) == r \in cancelled /\ pc[r] \in DoomedPlaces

\* A token is never withdrawn, and every phase before the vectors looks at it.
LEMMA StepDoomed ==
  ASSUME TypeOK, NEW r \in Runs, Doomed(r), [Next]_vars
  PROVE  Doomed(r)'
  <1>1. r \in cancelled'
    <2>1. cancelled \subseteq cancelled'
      BY DEF Next, Acquire, Proceed, Release, vars, registry, Invoke, Lookup, ReplacePrior,
             Register, StartAttempt, BeginIndexing, Diff, PurgeStale, Embed, NextFile,
             UpsertFile, InsertChunks, Complete, MarkError, Finish, Abort, BeginRead,
             EndRead, SetEmbeddingModel, RemoveProject, EndWrite, EditFile, Crash
    <2> QED
      BY <2>1 DEF Doomed
  <1>2. ASSUME NEW q \in Runs, NEW forced \in BOOLEAN, Invoke(q, forced)
        PROVE  pc'[r] \in DoomedPlaces
    BY <1>2 DEF TypeOK, Doomed, DoomedPlaces, Invoke, Goto
  <1>3. ASSUME NEW q \in Runs, \/ Lookup(q) \/ ReplacePrior(q) \/ Register(q)
                               \/ NextFile(q) \/ UpsertFile(q) \/ InsertChunks(q) \/ Complete(q)
        PROVE  pc'[r] \in DoomedPlaces
    <2>1. q # r
      BY <1>3 DEF Doomed, DoomedPlaces, Lookup, ReplacePrior, Register, NextFile,
                  UpsertFile, InsertChunks, Complete
    <2>2. pc'[r] = pc[r]
      BY <1>3, <2>1 DEF TypeOK, Lookup, ReplacePrior, Register, NextFile, UpsertFile,
                        InsertChunks, Complete, Goto, Fail
    <2> QED
      BY <2>2 DEF Doomed
  <1>4. ASSUME NEW q \in Runs, StartAttempt(q) \/ BeginIndexing(q)
        PROVE  pc'[r] \in DoomedPlaces
    BY <1>4 DEF TypeOK, Doomed, DoomedPlaces, StartAttempt, BeginIndexing, Retry, Goto
  <1>5. ASSUME NEW q \in Runs, Diff(q) \/ PurgeStale(q)
        PROVE  pc'[r] \in DoomedPlaces
    BY <1>5 DEF TypeOK, Doomed, DoomedPlaces, Diff, PurgeStale, Fail, Goto
  <1>6. ASSUME NEW q \in Runs, Embed(q)
        PROVE  pc'[r] \in DoomedPlaces
    BY <1>6 DEF TypeOK, Doomed, DoomedPlaces, Embed, Fail, Goto, IsCancelled
  <1>7. ASSUME NEW q \in Runs, MarkError(q) \/ Finish(q)
        PROVE  pc'[r] \in DoomedPlaces
    BY <1>7 DEF TypeOK, Doomed, DoomedPlaces, MarkError, Finish, Retry, Goto
  <1>8. CASE Crash
    BY <1>1, <1>8 DEF Doomed, DoomedPlaces, Crash, Ended
  <1>9. CASE UNCHANGED pc
    BY <1>1, <1>9 DEF Doomed
  <1>10. \/ UNCHANGED pc \/ Crash
         \/ \E q \in Runs, forced \in BOOLEAN : Invoke(q, forced)
         \/ \E q \in Runs : Acquire(q) \/ Proceed(q)
    BY DEF Next, Release, vars, Abort, BeginRead, EndRead, SetEmbeddingModel,
           RemoveProject, EndWrite, EditFile
  <1> QED
    BY <1>1, <1>2, <1>3, <1>4, <1>5, <1>6, <1>7, <1>8, <1>9, <1>10
    DEF Doomed, Acquire, Proceed

\* A run cancelled before its vectors are there never succeeds, whatever retries,
\* overtakings, faults and crashes follow: the token is looked at in every attempt.
THEOREM CancelledStaysCancelled == Spec => CancelledRunNeverReady
  <1> SUFFICES ASSUME NEW r \in Runs
               PROVE  Spec => [](/\ r \in cancelled
                                 /\ pc[r] \in {"attempt", "begin", "diff", "purge", "embed"}
                                 => [](pc[r] # "succeeded"))
    BY DEF CancelledRunNeverReady
  <1>1. /\ r \in cancelled
        /\ pc[r] \in {"attempt", "begin", "diff", "purge", "embed"}
        => Doomed(r)
    BY DEF Doomed, DoomedPlaces
  <1>2. TypeOK /\ Doomed(r) /\ [Next]_vars => Doomed(r)'
    BY StepDoomed
  <1>3. Doomed(r) => pc[r] # "succeeded"
    BY DEF Doomed, DoomedPlaces
  <1> QED
    BY <1>1, <1>2, <1>3, TypeCorrect, PTL DEF Spec

-----------------------------------------------------------------------------
(* The status.                                                             *)

Working == {"diff", "purge", "embed", "store", "upsert", "insert", "complete", "failed"}

\* Nobody but runs uses the store, and as long as nothing fails the status Indexing
\* belongs to a run that has yet to complete or to mark its error.
StatusInv ==
  /\ exists
  /\ readers = {}
  /\ writer # None => writer \in Runs /\ pc[writer] = "insert"
  /\ faults = 0 /\ crashes = 0 /\ status = "indexing" => \E r \in Runs : pc[r] \in Working

\* A run that marks its error either succeeds in it or leaves the status to the one
\* that holds the guard.
LEMMA ErrorMarked ==
  ASSUME TypeOK, StatusInv, NEW r \in Runs, MarkError(r), Sound,
         status' = "indexing"
  PROVE  \E q \in Runs : pc'[q] \in Working
  <1>1. status' = StatusAfterError
    BY ConstantsAssumption DEF MarkError, Fault, Sound, TypeOK
  <1>2. writer # None
    BY <1>1 DEF StatusAfterError, CanWrite, StatusInv
  <1>3. writer \in Runs /\ pc[writer] = "insert"
    BY <1>2 DEF StatusInv
  <1>4. writer # r
    BY <1>3 DEF MarkError
  <1>5. pc'[writer] = "insert"
    BY <1>3, <1>4 DEF TypeOK, MarkError, Retry, Goto
  <1> QED
    BY <1>3, <1>5 DEF Working

LEMMA StepStatus ==
  ASSUME Clients = {}, TypeOK, StatusInv, [Next]_vars
  PROVE  StatusInv'
  <1>1. exists' /\ readers' = {}
    BY DEF StatusInv, Next, Acquire, Proceed, Release, vars, project, guard, Invoke, Lookup,
           ReplacePrior, Register, StartAttempt, BeginIndexing, Diff, PurgeStale, Embed,
           NextFile, UpsertFile, InsertChunks, Complete, MarkError, Finish, Abort, EditFile,
           Crash
  <1> DEFINE Held == writer' # None => writer' \in Runs /\ pc'[writer'] = "insert"
             Owned == faults' = 0 /\ crashes' = 0 /\ status' = "indexing"
                        => \E r \in Runs : pc'[r] \in Working
  <1>2. ASSUME NEW r \in Runs,
               writer' = writer, pc' = [pc EXCEPT ![r] = pc'[r]], pc[r] # "insert"
        PROVE  Held
    BY <1>2 DEF StatusInv, TypeOK
  <1>3. ASSUME NEW r \in Runs, status' = status, Fault \/ Sound, crashes' = crashes,
               pc' = [pc EXCEPT ![r] = pc'[r]],
               pc[r] \in Working => pc'[r] \in Working
        PROVE  Owned
    <2>1. faults' = 0 => faults = 0
      BY <1>3, FaultsKept
    <2> QED
      BY <1>3, <2>1 DEF StatusInv, TypeOK
  <1>4. ASSUME NEW r \in Runs, NEW forced \in BOOLEAN, Invoke(r, forced)
        PROVE  Held /\ Owned
    BY <1>2, <1>3, <1>4
    DEF Invoke, Goto, TypeOK, Sound, Working, project, guard, budget
  <1>5. ASSUME NEW r \in Runs, Lookup(r)
        PROVE  Held /\ Owned
    BY <1>2, <1>3, <1>5 DEF Lookup, Goto, TypeOK, Working, project, guard
  <1>6. ASSUME NEW r \in Runs, ReplacePrior(r) \/ Register(r) \/ StartAttempt(r) \/ Finish(r)
        PROVE  Held /\ Owned
    BY <1>2, <1>3, <1>6
    DEF ReplacePrior, Register, StartAttempt, Finish, Goto, TypeOK, Sound, Working, project,
        guard, budget
  <1>7. ASSUME NEW r \in Runs, BeginIndexing(r)
        PROVE  Held /\ Owned
    <2>1. Held
      BY <1>2, <1>7 DEF BeginIndexing, Retry, Goto, TypeOK, guard
    <2>2. CASE pc'[r] = "diff"
      BY <2>1, <2>2 DEF Working
    <2>3. CASE status' = status /\ Fault
      BY <2>1, <2>3, ConstantsAssumption DEF TypeOK, Fault
    <2> QED
      BY <1>7, <2>2, <2>3 DEF BeginIndexing, Goto, TypeOK
  <1>8. ASSUME NEW r \in Runs, Diff(r) \/ Embed(r) \/ NextFile(r)
        PROVE  Held /\ Owned
    BY <1>2, <1>3, <1>8
    DEF Diff, Embed, NextFile, Fail, Goto, TypeOK, Sound, Working, project, guard, budget
  <1>9. ASSUME NEW r \in Runs, PurgeStale(r)
        PROVE  Held /\ Owned
    BY <1>2, <1>3, <1>9 DEF PurgeStale, Fail, Goto, TypeOK, Working, guard
  <1>10. ASSUME NEW r \in Runs, UpsertFile(r)
         PROVE  Held /\ Owned
    <2>1. Owned
      BY <1>3, <1>10 DEF UpsertFile, Fail, Goto, TypeOK, Working
    <2>2. Held
      BY <1>2, <1>10 DEF UpsertFile, Fail, Goto, TypeOK, GuardPerFile
    <2> QED
      BY <2>1, <2>2
  <1>11. ASSUME NEW r \in Runs, InsertChunks(r)
         PROVE  Held /\ Owned
    BY <1>3, <1>11 DEF InsertChunks, Fail, Goto, TypeOK, Working
  <1>12. ASSUME NEW r \in Runs, Complete(r)
         PROVE  Held /\ Owned
    <2>1. Held
      BY <1>2, <1>12 DEF Complete, Fail, Goto, TypeOK, guard
    <2>2. CASE status' = "ready"
      BY <2>1, <2>2
    <2>3. CASE status' = status /\ pc'[r] = "failed"
      BY <2>1, <2>3 DEF Working
    <2> QED
      BY <1>12, <2>2, <2>3 DEF Complete, Fail, Goto, TypeOK, StatusInv
  <1>13. ASSUME NEW r \in Runs, MarkError(r)
         PROVE  Held /\ Owned
    <2>1. Held
      BY <1>2, <1>13 DEF MarkError, Retry, Goto, TypeOK, guard
    <2>2. faults' = 0 => Sound
      BY <1>13, ConstantsAssumption DEF MarkError, Fault, TypeOK
    <2> QED
      BY <1>13, <2>1, <2>2, ErrorMarked
  <1>14. ASSUME Abort \/ (\E f \in Files, x \in Content : EditFile(f, x)) \/ UNCHANGED vars
         PROVE  Held /\ Owned
    BY <1>14 DEF Abort, EditFile, StatusInv, vars, project, guard, budget
  <1>15. CASE Crash
    BY <1>1, <1>15, ConstantsAssumption DEF Crash, TypeOK, StatusInv
  <1>16. Held /\ Owned => StatusInv'
    BY <1>1 DEF StatusInv
  <1> HIDE DEF Held, Owned
  <1> QED
    BY <1>4, <1>5, <1>6, <1>7, <1>8, <1>9, <1>10, <1>11, <1>12, <1>13, <1>14, <1>15, <1>16
    DEF Next, Acquire, Proceed, Release

\* While nobody else uses the store, nothing fails and the process lives, overlapping,
\* retried and cancelled runs never leave the project at "indexing": the last of them
\* to work marks it ready or failed.
THEOREM NobodyLeavesIndexing ==
  ASSUME Clients = {}
  PROVE  Spec => [](faults = 0 /\ crashes = 0 => NotStuckIndexing)
  <1>1. Init => StatusInv
    BY DEF Init, StatusInv
  <1>2. TypeOK /\ StatusInv /\ [Next]_vars => StatusInv'
    BY StepStatus
  <1>3. StatusInv => (faults = 0 /\ crashes = 0 => NotStuckIndexing)
    BY DEF StatusInv, NotStuckIndexing, Working, Registered
  <1> QED
    BY <1>1, <1>2, <1>3, TypeCorrect, PTL DEF Spec

-----------------------------------------------------------------------------
(* What a run alone stores.                                                *)

\* After the diff of a run: a text that is not to be stored any more is recorded, and a
\* file that was gone has no row unless it is still to be purged.
FreshInv ==
  \A r \in Runs :
    /\ pc[r] \in {"purge", "embed", "store", "upsert", "insert", "complete"} =>
         \A f \in Files :
           /\ seen[r][f] \in Texts /\ f \notin todo[r] => hash[f] = seen[r][f]
           /\ seen[r][f] = None => hash[f] = None \/ (pc[r] = "purge" /\ f \in gone[r])
    /\ pc[r] = "purge" => \A f \in gone[r] : seen[r][f] = None
    /\ pc[r] = "insert" => hash[current[r]] = seen[r][current[r]]
    /\ pc[r] = "complete" => todo[r] = {}

LEMMA DiffFresh ==
  ASSUME Typing, NEW r \in Runs, Runs = {r}, Diff(r)
  PROVE  FreshInv'
  <1> USE DEF Typing, TypeOK
  <1>1. CASE pc'[r] = "failed"
    BY <1>1 DEF FreshInv
  <1>2. CASE pc'[r] # "failed"
    <2> DEFINE found == {f \in Files : disk[f] # None}
    <2>1. PICK unread \in SUBSET found :
            /\ seen' = [seen EXCEPT ![r] =
                          [f \in Files |-> IF f \in unread THEN NonUtf8 ELSE disk[f]]]
            /\ todo' = [todo EXCEPT ![r] =
                          {f \in found \ unread : disk[f] # NonUtf8 /\ NeedsIndex(r, f)}]
            /\ gone' = [gone EXCEPT ![r] = {f \in Files \ found : hash[f] # None}]
            /\ Goto(r, "purge")
      BY <1>2 DEF Diff, Fail, Goto
    <2>2. hash' = hash /\ pc'[r] = "purge"
      BY <2>1 DEF Diff, Goto, project
    <2> SUFFICES ASSUME NEW f \in Files
                 PROVE  /\ seen'[r][f] \in Texts /\ f \notin todo'[r] => hash[f] = seen'[r][f]
                        /\ seen'[r][f] = None => hash[f] = None \/ f \in gone'[r]
                        /\ f \in gone'[r] => seen'[r][f] = None
      BY <2>1, <2>2 DEF FreshInv
    <2>3. seen'[r][f] = IF f \in unread THEN NonUtf8 ELSE disk[f]
      BY <2>1
    <2>4. seen'[r][f] \in Texts => f \in found /\ f \notin unread /\ disk[f] # NonUtf8
      BY <2>3, ConstantsAssumption
    <2>5. seen'[r][f] \in Texts /\ f \notin todo'[r] => ~NeedsIndex(r, f)
      BY <2>1, <2>4
    <2>6. seen'[r][f] = None => f \notin found
      BY <2>1, <2>3, ConstantsAssumption
    <2> QED
      BY <2>1, <2>3, <2>4, <2>5, <2>6 DEF NeedsIndex
  <1> QED
    BY <1>1, <1>2

LEMMA StepFresh ==
  ASSUME NEW r, Runs = {r}, Clients = {}, MaxFaults = 0, MaxCrashes = 0,
         Typing, FreshInv, [Next]_vars
  PROVE  FreshInv'
  <1> USE DEF Typing, TypeOK
  <1>0. r \in Runs
    OBVIOUS
  <1>1. ASSUME UNCHANGED <<hash, seen, todo, current>>, gone' = gone,
               \/ pc'[r] = pc[r]
               \/ pc'[r] \notin {"purge", "embed", "store", "upsert", "insert", "complete"}
        PROVE  FreshInv'
    BY <1>1 DEF FreshInv
  <1>2. ASSUME NEW forced \in BOOLEAN, Invoke(r, forced)
        PROVE  FreshInv'
    BY <1>0, <1>1, <1>2 DEF Invoke, Goto, project
  <1>3. ASSUME \/ Lookup(r) \/ ReplacePrior(r) \/ Register(r) \/ StartAttempt(r)
               \/ BeginIndexing(r) \/ Complete(r) \/ MarkError(r) \/ Finish(r)
        PROVE  FreshInv'
    <2>1. UNCHANGED <<hash, seen, todo, current>> /\ gone' = gone
      BY <1>3 DEF Lookup, ReplacePrior, Register, StartAttempt, BeginIndexing, Complete,
                  MarkError, Finish, project, work
    <2>2. pc'[r] \notin {"purge", "embed", "store", "upsert", "insert", "complete"}
      BY <1>0, <1>3 DEF Lookup, ReplacePrior, Register, StartAttempt, BeginIndexing,
                        Complete, MarkError, Finish, Retry, Goto, Fail
    <2> QED
      BY <1>1, <2>1, <2>2
  <1>4. CASE Diff(r)
    BY <1>0, <1>4, DiffFresh
  <1>5. CASE PurgeStale(r)
    <2>1. PICK done \in SUBSET gone[r] :
            /\ RowsWithout(done)
            /\ gone' = [q \in Runs |-> gone[q] \ done]
            /\ done = gone[r] \/ pc'[r] = "failed"
      BY <1>0, <1>5 DEF PurgeStale, Fail, Goto
    <2>2. CASE pc'[r] = "failed"
      BY <2>2 DEF FreshInv
    <2>3. CASE done = gone[r] /\ pc'[r] = "embed"
      <3>1. seen' = seen /\ todo' = todo /\ pc[r] = "purge"
        BY <1>5 DEF PurgeStale
      <3>2. \A f \in Files : seen[r][f] \in Texts /\ f \notin todo[r] => f \notin gone[r]
        BY <3>1, ConstantsAssumption DEF FreshInv
      <3> QED
        BY <1>0, <2>1, <2>3, <3>1, <3>2 DEF FreshInv, RowsWithout
    <2> QED
      BY <1>0, <1>5, <2>1, <2>2, <2>3 DEF PurgeStale, Fail, Goto
  <1>6. CASE Embed(r)
    BY <1>0, <1>6 DEF FreshInv, Embed, Fail, Goto, project, work
  <1>7. CASE NextFile(r)
    BY <1>0, <1>7 DEF FreshInv, NextFile, Fail, Goto, project
  <1>8. CASE UpsertFile(r)
    BY <1>0, <1>8 DEF FreshInv, RunInv, UpsertFile, Fail, Goto, work
  <1>9. CASE InsertChunks(r)
    BY <1>0, <1>9 DEF FreshInv, RunInv, InsertChunks, Fail, Goto
  <1>10. CASE Abort \/ (\E f \in Files, x \in Content : EditFile(f, x)) \/ UNCHANGED vars
    BY <1>1, <1>10 DEF Abort, EditFile, vars, project, work
  <1>11. CASE Crash
    BY <1>11, ConstantsAssumption DEF Crash
  <1> QED
    BY <1>2, <1>3, <1>4, <1>5, <1>6, <1>7, <1>8, <1>9, <1>10, <1>11
    DEF Next, Acquire, Proceed, Release

\* A run alone, without faults and crashes, marks the project ready only when its index
\* is what its diff read, whatever the user edits meanwhile, and through aborts.
THEOREM LoneRunIsFresh ==
  ASSUME NEW r, Runs = {r}, Clients = {}, MaxFaults = 0, MaxCrashes = 0
  PROVE  Spec => ReadyIsFresh
  <1> DEFINE Inv == Typing /\ StoreInv /\ FreshInv
  <1>1. Init => Inv
    BY InitTyping, InitStore DEF FreshInv, Init
  <1>2. Inv /\ [Next]_vars => Inv'
    BY StepTyping, StepStore, StepFresh
  <1>3. ASSUME Inv, Next PROVE FreshWhenReady
    <2> SUFFICES ASSUME pc[r] = "complete", pc'[r] = "succeeded", NEW f \in Files
                 PROVE  /\ seen[r][f] \in Texts => /\ hash[f] = seen[r][f]
                                                   /\ vec[f].text = seen[r][f]
                        /\ seen[r][f] = None => hash[f] = None
      BY DEF FreshWhenReady
    <2>1. /\ seen[r][f] \in Texts => hash[f] = seen[r][f]
          /\ seen[r][f] = None => hash[f] = None
      BY <1>3 DEF FreshInv
    <2>2. faults = 0 /\ crashes = 0
      BY <1>3 DEF Typing, TypeOK
    <2>3. hash[f] # None => vec[f].text = hash[f]
      BY <1>3, <2>2 DEF StoreInv, Agreement, Storing
    <2> QED
      BY <2>1, <2>3, ConstantsAssumption
  <1>4. Inv /\ [Next]_vars => [FreshWhenReady]_vars
    BY <1>3
  <1> HIDE DEF Inv
  <1> QED
    BY <1>1, <1>2, <1>4, PTL DEF Spec, ReadyIsFresh
=============================================================================
