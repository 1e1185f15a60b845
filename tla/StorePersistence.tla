--------------------------- MODULE StorePersistence ---------------------------
(***************************************************************************)
(* The life of one persisted frontend store (the settings): how it is      *)
(* written to the key-value store of the backend after every change, and   *)
(* how it is migrated, read back and merged when the window starts.        *)
(* Every step of tauri-storage.ts is an awaited command; the backend runs  *)
(* commands on a pool of threads, so that two saves overlap freely.  A     *)
(* command may be answered with null, may throw, or may run after the      *)
(* caller's own timeout has given it up.                                   *)
(*                                                                         *)
(* A settings value is the set of the user's edits it contains; the        *)
(* defaults are the empty set.  The stored value is the envelope that      *)
(* zustand writes, [version, value]; beside it the file keeps a version    *)
(* of its own.                                                             *)
(***************************************************************************)
EXTENDS Naturals, FiniteSets

CONSTANTS Version,      \* the version of the settings schema, 5 in the code
          Stores,       \* the number of persisted stores, 4 in the code
          Stored,       \* the versions in which an earlier release left settings
          MaxChanges, MaxFaults, MaxRestarts   \* bounds of the model

\* Assumed of the constants wherever this module is instantiated.
PersistenceAssumption ==
    /\ Version \in Nat \ {0} /\ Stored \subseteq 1 .. Version
    /\ Stores \in Nat \ {0}
    /\ {MaxChanges, MaxFaults, MaxRestarts} \subseteq Nat

VARIABLES mem,        \* the file as the backend holds it: data, version and who wrote it
          disk,       \* the file as it was last saved
          late,       \* writes that run although their caller has given up
          boot,       \* the next command of getItem, or "done"
          migrated,   \* the envelope that runMigrations is about to write
          screen,     \* the settings that the window works with
          saves,      \* the setItem calls: 0 for the one after a migration
          others,     \* the other stores that have not been rehydrated
          pending,    \* _pendingRehydrations
          hydrated,   \* isHydrated
          restarts,   \* how often the window has been started again
          faults,     \* how many commands have failed
          atStart,    \* history: the envelope in the file when the window started
          flawed,     \* history: a command has failed since then, or is still to land
          before      \* history: the saves completed when a save began

vars == <<mem, disk, late, boot, migrated, screen, saves, others, pending, hydrated,
          restarts, faults, atStart, flawed, before>>

Release  == MaxChanges + 1      \* who wrote the file: an earlier release,
Booting  == MaxChanges + 2      \* getItem, or the save of that number
Edits    == 0 .. MaxChanges     \* 0 stands for what the earlier release left
Writers  == 0 .. MaxChanges
NoData   == [version |-> 0, value |-> {}, here |-> FALSE]
Envelope(ver, val) == [version |-> ver, value |-> val, here |-> TRUE]
NoSave   == [phase |-> "idle", value |-> {}]
Boot     == {"load", "version", "data", "init", "setData", "setVersion", "save", "read", "done"}

(***************************************************************************)
(* What comes of a command: it is done, it is answered with null (the      *)
(* backend reported an error), it throws, or it is given up by the         *)
(* transport and done later.                                               *)
(***************************************************************************)
Outcomes == {"done"} \union (IF faults < MaxFaults THEN {"null", "thrown", "late"} ELSE {})
Throws(outcome) == outcome \in {"thrown", "late"}
Count(outcome) == /\ faults' = faults + (IF outcome = "done" THEN 0 ELSE 1)
                  /\ flawed' = (flawed \/ outcome # "done")

(* cmd_store_set of the data or of the version *)
SetData(file, env, by) == [file EXCEPT !.data = env, !.by = by]
SetVersion(file)       == [file EXCEPT !.version = Version]
Applied(file, w) == IF w.key = "data" THEN SetData(file, w.env, w.by) ELSE SetVersion(file)
Writes(outcome, w) ==
    /\ mem' = IF outcome = "done" THEN Applied(mem, w) ELSE mem
    /\ late' = IF outcome = "late" THEN late \union {w} ELSE late
    /\ UNCHANGED disk
DataWrite(env, by) == [key |-> "data", env |-> env, by |-> by]
VersionWrite       == [key |-> "version", env |-> NoData, by |-> Booting]

(* cmd_store_save *)
SavesFile(outcome) == /\ disk' = IF outcome = "done" THEN mem ELSE disk
                      /\ UNCHANGED <<mem, late>>

-----------------------------------------------------------------------------
(***************************************************************************)
(* The migrations of the settings run over what the file holds, which is   *)
(* the envelope and not the settings in it.  The one to version 2 keeps    *)
(* only keys of ChatSettings, and an envelope has none of them; the        *)
(* others add keys to the envelope and leave its version and value alone.  *)
(***************************************************************************)
Migration(to, env) == IF to = 2 THEN [env EXCEPT !.version = 0, !.value = {}] ELSE env

(* runMigrations of the framework, from the envelope's own version *)
RunMigrations(env) ==
    LET after[to \in env.version .. Version] ==
            IF to = env.version THEN env ELSE Migration(to, after[to - 1])
    IN  after[Version]

(* What zustand makes of the envelope: its value, if it has a version.     *)
MergedIfCurrent(env) == IF env.here /\ env.version = Version THEN env.value ELSE {}
Merged(env) == IF env.here /\ env.version > 0 THEN env.value ELSE {}
Outdated(env) == env.here /\ env.version > 0 /\ env.version # Version

(* onStoreRehydrated; with the counter off by one; with one call too many. *)
StoreRehydratedTwice == /\ pending' = pending - 2
                        /\ hydrated' = (pending - 2 <= 0)
StoreRehydratedEarly == /\ pending' = pending - 1
                        /\ hydrated' = (pending - 1 <= 1)
StoreRehydrated == /\ pending' = pending - 1
                   /\ hydrated' = (pending - 1 <= 0)

-----------------------------------------------------------------------------
Files(d) == {[data |-> d, version |-> d.version, by |-> Release]}

Init == /\ \E v \in Stored \union {0} :
             mem \in Files(IF v = 0 THEN NoData ELSE Envelope(v, {0}))
        /\ disk = mem /\ late = {}
        /\ boot = "load" /\ migrated = NoData /\ screen = {}
        /\ saves = [w \in Writers |-> NoSave]
        /\ others = Stores - 1 /\ pending = Stores /\ hydrated = FALSE
        /\ restarts = 0 /\ faults = 0
        /\ atStart = mem.data /\ flawed = FALSE
        /\ before = [w \in Writers |-> {}]

Completed == {w \in Writers : saves[w].phase = "saved"}

(* Starts setItem: the state is captured now and written two commands on. *)
Begins(w, value) ==
    /\ saves' = [saves EXCEPT ![w] = [phase |-> "load", value |-> value]]
    /\ before' = [before EXCEPT ![w] = Completed \ {w}]

(***************************************************************************)
(* getItem, one command at a time.  A command that throws inside           *)
(* runMigrations ends the migration and not the reading.                   *)
(***************************************************************************)
BootKeeps == UNCHANGED <<screen, saves, others, pending, hydrated, restarts, atStart, before>>
StopsAtError(outcome, next) == boot' = IF Throws(outcome) THEN "error" ELSE next
Goes(outcome, next) == boot' = IF Throws(outcome) THEN "read" ELSE next

BootLoad == \E o \in Outcomes :
    /\ boot = "load"
    /\ Goes(o, "version") /\ Count(o) /\ BootKeeps
    /\ UNCHANGED <<mem, disk, late, migrated>>

BootVersion == \E o \in Outcomes :
    /\ boot = "version"
    /\ Goes(o, IF o = "done" /\ mem.version >= Version THEN "read" ELSE "data")
    /\ Count(o) /\ BootKeeps
    /\ UNCHANGED <<mem, disk, late, migrated>>

BootData == \E o \in Outcomes :
    /\ boot = "data"
    /\ LET found == o = "done" /\ mem.data.here
       IN  /\ Goes(o, IF found THEN "setData" ELSE "init")
           /\ migrated' = IF found THEN RunMigrations(mem.data) ELSE NoData
    /\ Count(o) /\ BootKeeps
    /\ UNCHANGED <<mem, disk, late>>

(* The migrated envelope, or nothing to migrate, and then the version.     *)
BootWrite == \E o \in Outcomes :
    /\ \/ /\ boot = "setData"
          /\ Writes(o, DataWrite(migrated, Booting))
          /\ Goes(o, "setVersion")
       \/ /\ boot \in {"init", "setVersion"}
          /\ Writes(o, VersionWrite)
          /\ Goes(o, "save")
    /\ Count(o) /\ BootKeeps
    /\ UNCHANGED migrated

BootSave == \E o \in Outcomes :
    /\ boot = "save"
    /\ SavesFile(o)
    /\ Goes(o, "read") /\ Count(o) /\ BootKeeps
    /\ UNCHANGED migrated

(* The value itself, the merge, and the save that follows a migration.     *)
BootRead == \E o \in Outcomes :
    /\ boot = "read"
    /\ LET env == IF o = "done" THEN mem.data ELSE NoData
       IN  /\ screen' = Merged(env)
           /\ IF Outdated(env) THEN Begins(0, Merged(env))
                               ELSE UNCHANGED <<saves, before>>
    /\ boot' = "done"
    /\ StoreRehydrated
    /\ Count(o)
    /\ UNCHANGED <<mem, disk, late, migrated, others, restarts, atStart>>

OtherStoreRehydrated ==
    /\ others > 0
    /\ others' = others - 1
    /\ StoreRehydrated
    /\ UNCHANGED <<mem, disk, late, boot, migrated, screen, saves, restarts, faults,
                   atStart, flawed, before>>

-----------------------------------------------------------------------------
(* setGlobalSettings: the window shows the new settings and starts to save. *)
Change(k) ==
    /\ hydrated
    /\ saves[k].phase = "idle"
    /\ \A j \in 1 .. k - 1 : saves[j].phase # "idle"
    /\ screen' = screen \union {k}
    /\ Begins(k, screen')
    /\ UNCHANGED <<mem, disk, late, boot, migrated, others, pending, hydrated, restarts,
                   faults, atStart, flawed>>

SaveKeeps == UNCHANGED <<boot, migrated, screen, others, pending, hydrated, restarts,
                         atStart, before>>
Moves(w, o, next) ==
    saves' = [saves EXCEPT ![w].phase = IF Throws(o) THEN "failed" ELSE next]

SaveLoad(w) == \E o \in Outcomes :
    /\ saves[w].phase = "load"
    /\ Moves(w, o, "set") /\ Count(o) /\ SaveKeeps
    /\ UNCHANGED <<mem, disk, late>>

(* The same, going on as if a write that timed out had been done. *)
SaveSetRegardless(w) == \E o \in Outcomes :
    /\ saves[w].phase = "set"
    /\ Writes(o, DataWrite(Envelope(Version, saves[w].value), w))
    /\ Moves(w, "done", "save") /\ Count(o) /\ SaveKeeps
SaveSet(w) == \E o \in Outcomes :
    /\ saves[w].phase = "set"
    /\ Writes(o, DataWrite(Envelope(Version, saves[w].value), w))
    /\ Moves(w, o, IF o = "done" THEN "save" ELSE "unset") /\ Count(o) /\ SaveKeeps

SaveSave(w) == \E o \in Outcomes :
    /\ saves[w].phase \in {"save", "unset"}
    /\ SavesFile(o)
    /\ Moves(w, o, IF o = "done" /\ saves[w].phase = "save" THEN "saved" ELSE "failed")
    /\ Count(o) /\ SaveKeeps

-----------------------------------------------------------------------------
(* A command given up by its caller runs after all. *)
RunLate == \E w \in late :
    /\ late' = late \ {w}
    /\ mem' = Applied(mem, w)
    /\ UNCHANGED <<disk, boot, migrated, screen, saves, others, pending, hydrated,
                   restarts, faults, atStart, flawed, before>>

(* The store plugin saves by itself some time after a write, and at exit.  *)
Autosave ==
    /\ disk # mem
    /\ disk' = mem
    /\ UNCHANGED <<mem, late, boot, migrated, screen, saves, others, pending, hydrated,
                   restarts, faults, atStart, flawed, before>>

(* The process dies and comes back, or only the window is loaded again.    *)
(* Saves on their way die with the process; what was given up may still    *)
(* run after a reload.                                                     *)
Restart ==
    /\ restarts < MaxRestarts
    /\ restarts' = restarts + 1
    /\ \/ mem' = disk /\ late' = {}
       \/ mem' = mem /\ late' = late
    /\ boot' = "load" /\ migrated' = NoData /\ screen' = {}
    /\ saves' = [w \in Writers |-> IF saves[w].phase \in {"load", "set", "unset", "save"}
                                     THEN [saves[w] EXCEPT !.phase = "failed"]
                                     ELSE saves[w]]
    /\ others' = Stores - 1 /\ pending' = Stores /\ hydrated' = FALSE
    /\ atStart' = mem'.data /\ flawed' = (late' # {})
    /\ UNCHANGED <<disk, faults, before>>

BootStep == \/ BootLoad \/ BootVersion \/ BootData \/ BootWrite \/ BootSave \/ BootRead
SaveStep(w) == SaveLoad(w) \/ SaveSet(w) \/ SaveSave(w)

Next == \/ BootStep
        \/ OtherStoreRehydrated
        \/ \E k \in 1 .. MaxChanges : Change(k)
        \/ \E w \in Writers : SaveStep(w)
        \/ RunLate
        \/ Autosave
        \/ Restart

Spec == Init /\ [][Next]_vars

(* A command is answered, fails or is given up by the transport's timeout; *)
(* nothing forces a change, a late write or a restart.                     *)
FairSpec == /\ Spec
            /\ WF_vars(BootStep)
            /\ WF_vars(OtherStoreRehydrated)
            /\ \A w \in Writers : WF_vars(SaveStep(w))

-----------------------------------------------------------------------------
Envelopes == [version : 0 .. Version, value : SUBSET Edits, here : BOOLEAN]
File == [data : Envelopes, version : 0 .. Version, by : 0 .. Booting]

(* Every variable has the shape its comment gives it. *)
TypeOK == /\ mem \in File /\ disk \in File
          /\ late \subseteq [key : {"data", "version"}, env : Envelopes,
                             by : 0 .. Booting]
          /\ boot \in Boot /\ migrated \in Envelopes /\ screen \subseteq Edits
          /\ saves \in [Writers -> [phase : {"idle", "load", "set", "unset", "save",
                                             "saved", "failed"},
                                    value : SUBSET Edits]]
          /\ others \in 0 .. Stores - 1 /\ pending \in 0 .. Stores /\ hydrated \in BOOLEAN
          /\ restarts \in 0 .. MaxRestarts /\ faults \in 0 .. MaxFaults
          /\ atStart \in Envelopes /\ flawed \in BOOLEAN
          /\ before \in [Writers -> SUBSET Writers]

(***************************************************************************)
(* The counter of coordination.ts says what it is for: the window takes    *)
(* the settings for loaded only after every store has been read back, and  *)
(* the settings on the screen are then never the placeholders.             *)
(***************************************************************************)
HydratedMeansAll == hydrated <=> boot = "done" /\ others = 0

(***************************************************************************)
(* Settings that the file held when the window started are on the screen   *)
(* once it is hydrated, for every release that left them in the envelope   *)
(* of version 2 or later, unless a command failed on the way.              *)
(***************************************************************************)
RestartKeepsSettings ==
    (hydrated /\ ~flawed /\ atStart.version >= 2) => atStart.value \subseteq screen

(***************************************************************************)
(* A saved change is never replaced by the write of one that was already   *)
(* saved when it began: overlapping saves may land in either order, but a  *)
(* completed save is not undone by an earlier completed one, neither in    *)
(* memory nor on the disk, through faults, late writes and restarts.       *)
(***************************************************************************)
SavedIsNotUndone ==
    \A k \in Completed \ {0} : {mem.by, disk.by} \cap (before[k] \ {0}) = {}

(* What becomes of the settings that were saved: the three above. *)
SettingsSurvive == HydratedMeansAll /\ RestartKeepsSettings /\ SavedIsNotUndone

(* However the commands fail, every start of the window ends hydrated. *)
HydrationEnds == <>[]hydrated

=============================================================================
