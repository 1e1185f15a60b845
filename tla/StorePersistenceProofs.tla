------------------------ MODULE StorePersistenceProofs ------------------------
(***************************************************************************)
(* Proofs about StorePersistence, for any number of stores, changes,       *)
(* faults and restarts and for any version of the settings.                *)
(*                                                                         *)
(* The three promises of SettingsSurvive are not inductive.  That the      *)
(* window is hydrated when all is read back needs the counter to be the    *)
(* number of the stores to come (CountInv).  That a restart keeps the      *)
(* settings needs the file to hold, until it is read, what it held at the  *)
(* start: no save runs then (BootInv), no write is late, and the envelope  *)
(* that is about to be written is the one that was read (StartInv).  And   *)
(* that a saved change is not undone needs to be said of a save as soon as *)
(* it has written the memory, with what began before it and what may still *)
(* be written by others (SaveInv).                                         *)
(***************************************************************************)
EXTENDS StorePersistence, WellFoundedInduction, TLAPS

\* An envelope with a version is there, wherever it is.
HereInv == /\ mem.data.version > 0 => mem.data.here
           /\ disk.data.version > 0 => disk.data.here
           /\ migrated.version > 0 => migrated.here
           /\ \A w \in late : w.env.version > 0 => w.env.here

CountInv == /\ pending = others + (IF boot = "done" THEN 0 ELSE 1)
            /\ hydrated <=> pending = 0

BootInv == boot # "done" => \A w \in Writers : saves[w].phase \in {"idle", "saved", "failed"}

StartInv ==
    ~flawed => /\ late = {}
               /\ atStart.version >= 2 =>
                    /\ boot # "done" => mem.data = atStart
                    /\ boot = "setData" => migrated = atStart
                    /\ boot = "done" => atStart.value \subseteq screen

\* The saves that were complete when k began.
Earlier(k) == before[k] \ {0}
SaveInv ==
    /\ \A k \in Writers : Earlier(k) \subseteq Completed /\ k \notin before[k]
    /\ \A w \in late : w.key = "data" =>
         w.by \in {0, Booting} \/ (w.by \in Writers /\ saves[w.by].phase = "failed")
    /\ \A k \in Writers \ {0} :
         /\ saves[k].phase \in {"save", "saved"} => mem.by \notin Earlier(k)
         /\ saves[k].phase = "saved" => disk.by \notin Earlier(k)

Inv == TypeOK /\ HereInv /\ CountInv /\ BootInv /\ StartInv /\ SaveInv

-----------------------------------------------------------------------------
(* The migrations.                                                         *)

Less == {p \in Nat \X Nat : p[1] < p[2]}
LEMMA LeastExists ==
  ASSUME NEW T \in SUBSET Nat, T # {}
  PROVE  \E m \in T : \A k \in T : m <= k
  <1>1. IsWellFoundedOn(Less, Nat)
    BY NatLessThanWellFounded DEF OpToRel, Less
  <1>2. \A m, k \in Nat : <<k, m>> \notin Less => m <= k
    BY DEF Less
  <1>3. PICK m \in T : \A k \in T : <<k, m>> \notin Less
    BY <1>1, WFMin
  <1> QED
    BY <1>2, <1>3

LEMMA MigrationTyped ==
  ASSUME PersistenceAssumption, NEW env \in Envelopes, NEW to
  PROVE  /\ Migration(to, env) \in Envelopes
         /\ env.here => Migration(to, env).here
         /\ to # 2 => Migration(to, env) = env
  <1>1. PICK zero \in 0 .. Version, none \in SUBSET Edits : zero = 0 /\ none = {}
    <2>1. 0 \in 0 .. Version
      BY DEF PersistenceAssumption
    <2>2. {} \in SUBSET Edits
      OBVIOUS
    <2> QED
      BY <2>1, <2>2
  <1>2. /\ [env EXCEPT !.version = zero, !.value = none] \in Envelopes
        /\ [env EXCEPT !.version = zero, !.value = none].here = env.here
    BY DEF Envelopes
  <1> QED
    BY <1>1, <1>2 DEF Migration

\* The envelopes on the way, from the version that the file has.
Way(env, n) == {f \in [env.version .. n -> Envelopes] :
                  /\ f[env.version] = env
                  /\ \A to \in env.version .. n :
                       to # env.version => f[to] = Migration(to, f[to - 1])}

LEMMA WayExists ==
  ASSUME PersistenceAssumption, NEW env \in Envelopes, NEW n \in Nat, n >= env.version
  PROVE  Way(env, n) # {}
  <1> DEFINE a == env.version
             T == {k \in Nat : k >= a /\ Way(env, k) = {}}
  <1>1. a \in Nat
    BY DEF Envelopes, PersistenceAssumption
  <1>2. SUFFICES T = {}
    OBVIOUS
  <1>3. SUFFICES ASSUME T # {} PROVE FALSE
    OBVIOUS
  <1>4. PICK m \in T : \A k \in T : m <= k
    BY <1>3, LeastExists
  <1>5. CASE m = a
    <2> DEFINE f == [to \in a .. m |-> env]
    <2>1. f \in Way(env, m)
      BY <1>1, <1>5 DEF Way
    <2> QED
      BY <1>4, <2>1
  <1>6. CASE m # a
    <2>1. m \in Nat /\ m > a /\ m - 1 \in Nat /\ m - 1 >= a /\ m - 1 < m
      BY <1>1, <1>4, <1>6
    <2>2. PICK f : f \in Way(env, m - 1)
      <3>1. m - 1 \notin T
        BY <1>4, <2>1
      <3> QED
        BY <2>1, <3>1
    <2> DEFINE g == [to \in a .. m |-> IF to < m THEN f[to] ELSE Migration(m, f[m - 1])]
    <2>3. f \in [a .. m - 1 -> Envelopes] /\ f[a] = env
      BY <2>2 DEF Way
    <2>4. Migration(m, f[m - 1]) \in Envelopes
      BY <1>1, <2>1, <2>3, MigrationTyped
    <2>5. g \in [a .. m -> Envelopes] /\ g[a] = env
      BY <1>1, <2>1, <2>3, <2>4
    <2>6. \A to \in a .. m : to # a => g[to] = Migration(to, g[to - 1])
      <3> SUFFICES ASSUME NEW to \in a .. m, to # a
                   PROVE  g[to] = Migration(to, g[to - 1])
        OBVIOUS
      <3>1. to - 1 \in a .. m - 1 /\ g[to - 1] = f[to - 1]
        BY <1>1, <2>1
      <3>2. CASE to = m
        BY <1>1, <2>1, <3>1, <3>2
      <3>3. CASE to # m
        <4>1. to \in a .. m - 1 /\ g[to] = f[to]
          BY <1>1, <2>1, <3>3
        <4> QED
          BY <2>2, <3>1, <4>1 DEF Way
      <3> QED
        BY <3>2, <3>3
    <2> QED
      BY <1>4, <2>5, <2>6 DEF Way
  <1> QED
    BY <1>5, <1>6

\* No migration of version 2 or later touches the envelope, and all keep it.
LEMMA MigrationsKeep ==
  ASSUME PersistenceAssumption, NEW env \in Envelopes
  PROVE  /\ RunMigrations(env) \in Envelopes
         /\ env.here => RunMigrations(env).here
         /\ env.version >= 2 => RunMigrations(env) = env
  <1> DEFINE a == env.version
             after == CHOOSE f : f = [to \in a .. Version |->
                        IF to = a THEN env ELSE Migration(to, f[to - 1])]
  <1>1. a \in Nat /\ Version \in Nat /\ a <= Version
    BY DEF Envelopes, PersistenceAssumption
  <1>2. PICK f : f \in Way(env, Version)
    BY <1>1, WayExists
  <1>3. f = [to \in a .. Version |-> IF to = a THEN env ELSE Migration(to, f[to - 1])]
    BY <1>2 DEF Way
  <1>4. after = [to \in a .. Version |-> IF to = a THEN env ELSE Migration(to, after[to - 1])]
    BY <1>3
  <1>5. RunMigrations(env) = after[Version]
    BY DEF RunMigrations
  <1> HIDE DEF after
  <1> DEFINE Kept(e) == /\ e \in Envelopes /\ (env.here => e.here)
                        /\ env.version >= 2 => e = env
             T == {k \in Nat : k \in a .. Version /\ ~Kept(after[k])}
  <1>6. T = {}
    <2> SUFFICES ASSUME T # {} PROVE FALSE
      OBVIOUS
    <2>1. PICK m \in T : \A k \in T : m <= k
      BY LeastExists
    <2>2. CASE m = a
      <3>1. after[m] = env
        BY <1>1, <1>4, <2>2
      <3> QED
        BY <2>1, <3>1
    <2>3. CASE m # a
      <3>1. m \in a .. Version /\ m - 1 \in a .. Version /\ m - 1 \in Nat /\ m - 1 < m /\ m > a
        BY <1>1, <2>1, <2>3
      <3>2. Kept(after[m - 1])
        BY <2>1, <3>1
      <3>3. after[m] = Migration(m, after[m - 1])
        BY <1>4, <3>1, <2>3
      <3>4. env.version >= 2 => m # 2
        BY <1>1, <3>1
      <3>5. Kept(after[m])
        BY <3>2, <3>3, <3>4, MigrationTyped
      <3> QED
        BY <2>1, <3>5
    <2> QED
      BY <2>2, <2>3
  <1>7. Kept(after[Version])
    BY <1>1, <1>6
  <1> QED
    BY <1>5, <1>7

-----------------------------------------------------------------------------
(* The outcomes of a command and what it writes.                           *)

Late == [key : {"data", "version"}, env : Envelopes, by : 0 .. Booting]
Phases == {"idle", "load", "set", "unset", "save", "saved", "failed"}

LEMMA CountEffect ==
  ASSUME PersistenceAssumption, TypeOK, NEW o \in Outcomes, Count(o)
  PROVE  /\ faults' \in 0 .. MaxFaults /\ flawed' \in BOOLEAN
         /\ ~flawed' => ~flawed /\ o = "done"
  <1>1. faults \in 0 .. MaxFaults /\ flawed \in BOOLEAN /\ MaxFaults \in Nat
    BY DEF TypeOK, PersistenceAssumption
  <1>2. flawed' = (flawed \/ o # "done")
    BY DEF Count
  <1>3. o # "done" => faults < MaxFaults
    BY DEF Outcomes
  <1>4. faults' = faults + (IF o = "done" THEN 0 ELSE 1)
    BY DEF Count
  <1>5. faults' \in 0 .. MaxFaults
    BY <1>1, <1>3, <1>4
  <1> QED
    BY <1>1, <1>2, <1>5

LEMMA AppliedEffect ==
  ASSUME PersistenceAssumption, NEW file \in File, NEW w \in Late
  PROVE  /\ Applied(file, w) \in File
         /\ Applied(file, w).by = IF w.key = "data" THEN w.by ELSE file.by
         /\ Applied(file, w).data = IF w.key = "data" THEN w.env ELSE file.data
  <1>1. Version \in 0 .. Version
    BY DEF PersistenceAssumption
  <1>2. w.env \in Envelopes /\ w.by \in 0 .. Booting
    BY DEF Late
  <1>3. CASE w.key = "data"
    <2>1. PICK env \in Envelopes, by \in 0 .. Booting : env = w.env /\ by = w.by
      BY <1>2
    <2>2. [file EXCEPT !.data = env, !.by = by] \in File
      BY DEF File
    <2>3. [file EXCEPT !.data = env, !.by = by].data = env
      BY DEF File
    <2>4. [file EXCEPT !.data = env, !.by = by].by = by
      BY DEF File
    <2> QED
      BY <1>3, <2>1, <2>2, <2>3, <2>4 DEF Applied, SetData
  <1>4. CASE w.key # "data"
    BY <1>1, <1>4 DEF Applied, SetVersion, File
  <1> QED
    BY <1>3, <1>4

\* What a write leaves in the memory and among the late ones.
Written(o, w) ==
  /\ mem' \in File /\ late' \subseteq Late /\ disk' = disk
  /\ mem' = mem \/ (mem'.by = (IF w.key = "data" THEN w.by ELSE mem.by)
                    /\ mem'.data = (IF w.key = "data" THEN w.env ELSE mem.data))
  /\ late' \subseteq late \union {w}
  /\ o = "done" => late' = late
  /\ o = "done" /\ w.key = "data" => mem'.by = w.by /\ mem'.data = w.env
  /\ o # "done" => mem' = mem
  /\ o # "late" => late' = late
LEMMA WritesEffect ==
  ASSUME PersistenceAssumption, TypeOK, NEW o, NEW w \in Late, Writes(o, w)
  PROVE  Written(o, w)
  <1>1. mem \in File /\ late \subseteq Late
    BY DEF TypeOK, Late
  <1>2. /\ mem' = IF o = "done" THEN Applied(mem, w) ELSE mem
        /\ late' = IF o = "late" THEN late \union {w} ELSE late
        /\ disk' = disk
    BY DEF Writes
  <1>3. /\ Applied(mem, w) \in File
        /\ Applied(mem, w).by = IF w.key = "data" THEN w.by ELSE mem.by
        /\ Applied(mem, w).data = IF w.key = "data" THEN w.env ELSE mem.data
    BY <1>1, AppliedEffect
  <1> QED
    BY <1>1, <1>2, <1>3 DEF Written

LEMMA DataWriteTyped ==
  ASSUME NEW env \in Envelopes, NEW by \in 0 .. Booting
  PROVE  /\ DataWrite(env, by) \in Late /\ DataWrite(env, by).key = "data"
         /\ DataWrite(env, by).env = env /\ DataWrite(env, by).by = by
  BY DEF DataWrite, Late

LEMMA VersionWriteTyped ==
  ASSUME PersistenceAssumption
  PROVE  /\ VersionWrite \in Late /\ VersionWrite.key = "version"
         /\ VersionWrite.env.version = 0
  <1>1. NoData \in Envelopes /\ NoData.version = 0
    BY DEF NoData, Envelopes, PersistenceAssumption
  <1>2. Booting \in 0 .. Booting
    BY DEF Booting, PersistenceAssumption
  <1> QED
    BY <1>1, <1>2 DEF VersionWrite, Late

-----------------------------------------------------------------------------
(* Steps that leave the saves alone.                                       *)

\* Nobody counts on what these wrote.
Harmless(x) == x \in {0, Booting} \/ (x \in Writers /\ saves[x].phase = "failed")

LEMMA HarmlessIsLater ==
  ASSUME PersistenceAssumption, SaveInv, NEW x, Harmless(x), NEW k \in Writers
  PROVE  x \notin Earlier(k)
  <1>1. Earlier(k) \subseteq Completed \ {0}
    BY DEF SaveInv, Earlier
  <1>2. Booting \notin Writers
    BY DEF Booting, Writers, PersistenceAssumption
  <1> QED
    BY <1>1, <1>2 DEF Harmless, Completed

LEMMA FileKeepsSaves ==
  ASSUME PersistenceAssumption, SaveInv, UNCHANGED <<saves, before>>,
         \A w \in late' : w \in late \/ w.key # "data" \/ Harmless(w.by),
         mem'.by = mem.by \/ Harmless(mem'.by), disk'.by \in {disk.by, mem.by}
  PROVE  SaveInv'
  <1>1. \A k : Earlier(k)' = Earlier(k)
    BY DEF Earlier
  <1>2. Completed' = Completed
    BY DEF Completed
  <1>3. \A k \in Writers : Earlier(k)' \subseteq Completed' /\ k \notin before'[k]
    BY <1>1, <1>2 DEF SaveInv
  <1>4. \A w \in late' : w.key = "data" =>
          w.by \in {0, Booting} \/ (w.by \in Writers /\ saves'[w.by].phase = "failed")
    BY DEF SaveInv, Harmless
  <1>5. ASSUME NEW k \in Writers \ {0}
        PROVE  /\ saves'[k].phase \in {"save", "saved"} => mem'.by \notin Earlier(k)'
               /\ saves'[k].phase = "saved" => disk'.by \notin Earlier(k)'
    <2>1. saves[k].phase \in {"save", "saved"} => mem.by \notin Earlier(k)
      BY DEF SaveInv
    <2>2. saves[k].phase = "saved" => disk.by \notin Earlier(k)
      BY DEF SaveInv
    <2>3. Harmless(mem'.by) => mem'.by \notin Earlier(k)
      BY HarmlessIsLater
    <2> QED
      BY <1>1, <2>1, <2>2, <2>3
  <1> QED
    BY <1>3, <1>4, <1>5 DEF SaveInv

\* A command of getItem before the value is read: what may change besides the
\* file, and what must be said of the file.
LEMMA BootKeepsInv ==
  ASSUME PersistenceAssumption, Inv, NEW o \in Outcomes, Count(o), BootKeeps,
         boot # "done", boot' \in Boot \ {"done"},
         mem' \in File, disk' \in File, late' \subseteq Late, migrated' \in Envelopes,
         HereInv', SaveInv',
         o = "done" => late' = late,
         atStart.version >= 2 /\ ~flawed' =>
           mem'.data = atStart /\ (boot' = "setData" => migrated' = atStart)
  PROVE  Inv'
  <1>1. TypeOK /\ CountInv /\ BootInv /\ StartInv
    BY DEF Inv
  <1>2. /\ faults' \in 0 .. MaxFaults /\ flawed' \in BOOLEAN
        /\ ~flawed' => ~flawed /\ o = "done"
    BY <1>1, CountEffect
  <1>3. UNCHANGED <<screen, saves, others, pending, hydrated, restarts, atStart, before>>
    BY DEF BootKeeps
  <1>4. TypeOK'
    BY <1>1, <1>2, <1>3 DEF TypeOK, Late
  <1>5. CountInv'
    BY <1>1, <1>3 DEF CountInv
  <1>6. BootInv'
    BY <1>1, <1>3 DEF BootInv
  <1>7. StartInv'
    BY <1>1, <1>2, <1>3 DEF StartInv
  <1> QED
    BY <1>4, <1>5, <1>6, <1>7 DEF Inv

LEMMA BootReadsKeep ==
  ASSUME PersistenceAssumption, Inv, BootLoad \/ BootVersion \/ BootData
  PROVE  Inv'
  <1>1. TypeOK /\ HereInv /\ SaveInv /\ StartInv
    BY DEF Inv
  <1>2. /\ boot \in {"load", "version", "data"} /\ boot' \in Boot \ {"done"}
        /\ BootKeeps /\ UNCHANGED <<mem, disk, late>>
    BY DEF BootLoad, BootVersion, BootData, Goes, Boot
  <1>3. PICK o \in Outcomes :
          /\ Count(o)
          /\ \/ migrated' = migrated /\ boot' # "setData"
             \/ /\ migrated' = NoData /\ boot' # "setData"
             \/ migrated' = RunMigrations(mem.data) /\ mem.data.here
    BY DEF BootLoad, BootVersion, BootData, Goes
  <1>4. mem \in File /\ disk \in File /\ late \subseteq Late /\ migrated \in Envelopes
    BY <1>1 DEF TypeOK, Late
  <1>5. mem.data \in Envelopes /\ NoData \in Envelopes /\ NoData.version = 0
    BY <1>4 DEF File, NoData, Envelopes, PersistenceAssumption
  <1>6. migrated' \in Envelopes /\ (migrated'.version > 0 => migrated'.here)
    BY <1>1, <1>3, <1>4, <1>5, MigrationsKeep DEF HereInv
  <1>7. HereInv'
    BY <1>1, <1>2, <1>6 DEF HereInv
  <1>8. SaveInv'
    <2>1. saves' = saves /\ before' = before
      BY <1>2 DEF BootKeeps
    <2> QED
      BY <1>1, <1>2, <2>1, FileKeepsSaves
  <1>9. atStart.version >= 2 /\ ~flawed' =>
          mem'.data = atStart /\ (boot' = "setData" => migrated' = atStart)
    <2> SUFFICES ASSUME atStart.version >= 2, ~flawed'
                 PROVE  mem'.data = atStart /\ (boot' = "setData" => migrated' = atStart)
      OBVIOUS
    <2>1. ~flawed
      BY <1>1, <1>3, CountEffect
    <2>2. mem.data = atStart
      BY <1>1, <1>2, <2>1 DEF StartInv
    <2> QED
      BY <1>2, <1>3, <1>5, <2>2, MigrationsKeep
  <1> QED
    BY <1>2, <1>3, <1>4, <1>6, <1>7, <1>8, <1>9, BootKeepsInv

LEMMA BootWriteKeeps ==
  ASSUME PersistenceAssumption, Inv, BootWrite
  PROVE  Inv'
  <1>1. TypeOK /\ HereInv /\ SaveInv /\ StartInv
    BY DEF Inv
  <1>2. PICK o \in Outcomes :
          /\ Count(o)
          /\ \/ boot = "setData" /\ Writes(o, DataWrite(migrated, Booting))
             \/ boot \in {"init", "setVersion"} /\ Writes(o, VersionWrite)
    BY DEF BootWrite
  <1>3. /\ boot \in {"setData", "init", "setVersion"} /\ boot' \in {"read", "setVersion", "save"}
        /\ BootKeeps /\ migrated' = migrated
    BY DEF BootWrite, Goes
  <1>4. PICK w \in Late :
          /\ Writes(o, w)
          /\ \/ boot = "setData" /\ w.key = "data" /\ w.env = migrated /\ w.by = Booting
             \/ boot # "setData" /\ w.key = "version" /\ w.env.version = 0
    <2>1. CASE boot = "setData"
      <3>1. migrated \in Envelopes /\ Booting \in 0 .. Booting
        BY <1>1 DEF TypeOK, Booting, PersistenceAssumption
      <3>2. DataWrite(migrated, Booting) \in Late
        BY <3>1, DataWriteTyped
      <3> QED
        BY <1>2, <2>1, <3>1, <3>2, DataWriteTyped
    <2>2. CASE boot # "setData"
      BY <1>2, <2>2, VersionWriteTyped
    <2> QED
      BY <2>1, <2>2
  <1>5. Written(o, w)
    BY <1>1, <1>4, WritesEffect
  <1>6. disk \in File /\ migrated \in Envelopes
    BY <1>1 DEF TypeOK
  <1>7. HereInv'
    BY <1>1, <1>3, <1>4, <1>5 DEF HereInv, Written
  <1>8. SaveInv'
    <2>1. saves' = saves /\ before' = before
      BY <1>3 DEF BootKeeps
    <2>2. \A x \in late' : x \in late \/ x.key # "data" \/ Harmless(x.by)
      BY <1>4, <1>5 DEF Written, Harmless
    <2>3. mem'.by = mem.by \/ Harmless(mem'.by)
      BY <1>4, <1>5 DEF Written, Harmless
    <2>4. disk' = disk
      BY <1>5 DEF Written
    <2> QED
      BY <1>1, <2>1, <2>2, <2>3, <2>4, FileKeepsSaves
  <1>9. atStart.version >= 2 /\ ~flawed' =>
          mem'.data = atStart /\ (boot' = "setData" => migrated' = atStart)
    <2> SUFFICES ASSUME atStart.version >= 2, ~flawed'
                 PROVE  mem'.data = atStart
      BY <1>3
    <2>1. ~flawed
      BY <1>1, <1>2, CountEffect
    <2>2. mem.data = atStart /\ (boot = "setData" => migrated = atStart)
      BY <1>1, <1>3, <2>1 DEF StartInv
    <2> QED
      BY <1>4, <1>5, <2>2 DEF Written
  <1>10. /\ mem' \in File /\ disk' \in File /\ late' \subseteq Late /\ migrated' \in Envelopes
         /\ o = "done" => late' = late
    BY <1>3, <1>5, <1>6 DEF Written
  <1>11. boot # "done" /\ boot' \in Boot \ {"done"}
    BY <1>3 DEF Boot
  <1> QED
    BY <1>2, <1>3, <1>7, <1>8, <1>9, <1>10, <1>11, BootKeepsInv

LEMMA BootSaveKeeps ==
  ASSUME PersistenceAssumption, Inv, BootSave
  PROVE  Inv'
  <1>1. TypeOK /\ HereInv /\ SaveInv /\ StartInv
    BY DEF Inv
  <1>2. PICK o \in Outcomes : Count(o) /\ SavesFile(o)
    BY DEF BootSave
  <1>3. /\ boot = "save" /\ boot' = "read" /\ BootKeeps /\ migrated' = migrated
        /\ UNCHANGED <<mem, late>> /\ disk' \in {disk, mem}
    BY DEF BootSave, Goes, SavesFile
  <1>4. mem \in File /\ disk' \in File /\ late \subseteq Late /\ migrated \in Envelopes
    BY <1>1, <1>3 DEF TypeOK, Late
  <1>5. HereInv'
    BY <1>1, <1>3 DEF HereInv
  <1>6. SaveInv'
    <2>1. saves' = saves /\ before' = before
      BY <1>3 DEF BootKeeps
    <2> QED
      BY <1>1, <1>3, <2>1, FileKeepsSaves
  <1>7. atStart.version >= 2 /\ ~flawed' =>
          mem'.data = atStart /\ (boot' = "setData" => migrated' = atStart)
    BY <1>1, <1>2, <1>3, CountEffect DEF StartInv
  <1>8. boot # "done" /\ boot' \in Boot \ {"done"}
    BY <1>3 DEF Boot
  <1> QED
    BY <1>2, <1>3, <1>4, <1>5, <1>6, <1>7, <1>8, BootKeepsInv

\* A save that begins remembers the saves that are complete.
LEMMA BeginsKeeps ==
  ASSUME PersistenceAssumption, TypeOK, SaveInv, NEW w \in Writers, NEW value \in SUBSET Edits,
         w = 0 \/ saves[w].phase = "idle", Begins(w, value), UNCHANGED <<mem, disk, late>>
  PROVE  /\ saves' \in [Writers -> [phase : Phases, value : SUBSET Edits]]
         /\ before' \in [Writers -> SUBSET Writers]
         /\ SaveInv'
  <1>1. /\ saves \in [Writers -> [phase : Phases, value : SUBSET Edits]]
        /\ before \in [Writers -> SUBSET Writers]
    BY DEF TypeOK, Phases
  <1>2. /\ saves' = [saves EXCEPT ![w] = [phase |-> "load", value |-> value]]
        /\ before' = [before EXCEPT ![w] = Completed \ {w}]
    BY DEF Begins
  <1>3. "load" \in Phases /\ Completed \subseteq Writers
    BY DEF Phases, Completed
  <1>4. /\ saves' \in [Writers -> [phase : Phases, value : SUBSET Edits]]
        /\ before' \in [Writers -> SUBSET Writers]
    BY <1>1, <1>2, <1>3
  <1>5. \A k \in Writers : /\ saves'[k].phase = IF k = w THEN "load" ELSE saves[k].phase
                           /\ before'[k] = IF k = w THEN Completed \ {w} ELSE before[k]
    BY <1>1, <1>2
  <1>6. Completed \ {0} \subseteq Completed'
    BY <1>5 DEF Completed
  <1>7. \A k \in Writers : Earlier(k)' \subseteq Completed' /\ k \notin before'[k]
    BY <1>5, <1>6 DEF SaveInv, Earlier
  <1>8. \A x \in late' : x.key = "data" =>
          x.by \in {0, Booting} \/ (x.by \in Writers /\ saves'[x.by].phase = "failed")
    BY <1>5 DEF SaveInv
  <1>9. \A k \in Writers \ {0} :
          /\ saves'[k].phase \in {"save", "saved"} => mem'.by \notin Earlier(k)'
          /\ saves'[k].phase = "saved" => disk'.by \notin Earlier(k)'
    BY <1>5 DEF SaveInv, Earlier
  <1> QED
    BY <1>4, <1>7, <1>8, <1>9 DEF SaveInv

\* One store fewer is to come.
LEMMA RehydratedEffect ==
  ASSUME PersistenceAssumption, TypeOK, CountInv, StoreRehydrated, pending # 0
  PROVE  /\ pending' = pending - 1 /\ pending' \in 0 .. Stores
         /\ hydrated' \in BOOLEAN /\ (hydrated' <=> pending' = 0)
  <1>1. pending \in 1 .. Stores /\ Stores \in Nat
    BY DEF TypeOK, PersistenceAssumption
  <1>2. pending' = pending - 1 /\ hydrated' = (pending - 1 <= 0)
    BY DEF StoreRehydrated
  <1>3. pending' \in 0 .. Stores /\ ((pending - 1 <= 0) <=> pending' = 0)
    BY <1>1, <1>2
  <1>4. hydrated' = (pending - 1 <= 0)
    BY <1>2
  <1>5. hydrated' \in BOOLEAN
    BY <1>4
  <1>6. hydrated' <=> pending - 1 <= 0
    BY <1>4
  <1> QED
    BY <1>2, <1>3, <1>5, <1>6

LEMMA BootReadKeeps ==
  ASSUME PersistenceAssumption, Inv, BootRead
  PROVE  Inv'
  <1>1. TypeOK /\ HereInv /\ CountInv /\ BootInv /\ SaveInv /\ StartInv
    BY DEF Inv
  <1>2. PICK o \in Outcomes :
          LET env == IF o = "done" THEN mem.data ELSE NoData
          IN  /\ Count(o) /\ screen' = Merged(env)
              /\ IF Outdated(env) THEN Begins(0, Merged(env)) ELSE UNCHANGED <<saves, before>>
    BY DEF BootRead
  <1>3. /\ boot = "read" /\ boot' = "done" /\ StoreRehydrated
        /\ UNCHANGED <<mem, disk, late, migrated, others, restarts, atStart>>
    BY DEF BootRead
  <1>4. /\ faults' \in 0 .. MaxFaults /\ flawed' \in BOOLEAN
        /\ ~flawed' => ~flawed /\ o = "done"
    BY <1>1, <1>2, CountEffect
  <1> DEFINE env == IF o = "done" THEN mem.data ELSE NoData
  <1>5. env \in Envelopes
    BY <1>1 DEF TypeOK, File, NoData, Envelopes, PersistenceAssumption
  <1>6. screen' = Merged(env) /\ Merged(env) \in SUBSET Edits
    BY <1>2, <1>5 DEF Merged, Envelopes
  <1>7. /\ saves' \in [Writers -> [phase : Phases, value : SUBSET Edits]]
        /\ before' \in [Writers -> SUBSET Writers]
        /\ SaveInv'
    <2>1. CASE Outdated(env)
      <3>1. 0 \in Writers /\ Begins(0, Merged(env))
        BY <1>2, <2>1 DEF Writers, PersistenceAssumption
      <3> QED
        BY <1>1, <1>3, <1>6, <3>1, BeginsKeeps
    <2>2. CASE ~Outdated(env)
      <3>1. UNCHANGED <<saves, before>>
        BY <1>2, <2>2
      <3>2. SaveInv'
        BY <1>1, <1>3, <3>1, FileKeepsSaves
      <3> QED
        BY <1>1, <3>1, <3>2 DEF TypeOK, Phases
    <2> QED
      BY <2>1, <2>2
  <1>8. pending = others + 1 /\ others \in Nat
    BY <1>1, <1>3 DEF CountInv, TypeOK, PersistenceAssumption
  <1>9. /\ pending' = pending - 1 /\ pending' \in 0 .. Stores
        /\ hydrated' \in BOOLEAN /\ (hydrated' <=> pending' = 0)
    BY <1>1, <1>3, <1>8, RehydratedEffect
  <1>10. TypeOK'
    BY <1>1, <1>3, <1>4, <1>6, <1>7, <1>9 DEF TypeOK, Phases, Boot
  <1>11. CountInv'
    BY <1>3, <1>8, <1>9 DEF CountInv
  <1>12. StartInv'
    <2> SUFFICES ASSUME ~flawed'
                 PROVE  late = {} /\ (atStart.version >= 2 => atStart.value \subseteq screen')
      BY <1>3 DEF StartInv
    <2>1. late = {} /\ (atStart.version >= 2 => mem.data = atStart)
      BY <1>1, <1>3, <1>4 DEF StartInv
    <2>2. atStart.version >= 2 => atStart.version > 0
      BY <1>1 DEF TypeOK, Envelopes, PersistenceAssumption
    <2>3. atStart.version >= 2 => screen' = mem.data.value
      BY <1>1, <1>4, <1>6, <2>1, <2>2 DEF Merged, HereInv
    <2> QED
      BY <2>1, <2>3
  <1>13. HereInv' /\ BootInv'
    BY <1>1, <1>3 DEF HereInv, BootInv
  <1> QED
    BY <1>7, <1>10, <1>11, <1>12, <1>13 DEF Inv

LEMMA OtherStoreKeeps ==
  ASSUME PersistenceAssumption, Inv, OtherStoreRehydrated
  PROVE  Inv'
  <1>1. TypeOK /\ HereInv /\ CountInv /\ BootInv /\ SaveInv /\ StartInv
    BY DEF Inv
  <1>2. /\ others > 0 /\ others' = others - 1 /\ StoreRehydrated
        /\ UNCHANGED <<mem, disk, late, boot, migrated, screen, saves, restarts, faults,
                       atStart, flawed, before>>
    BY DEF OtherStoreRehydrated
  <1>3. others \in Nat /\ others \in 0 .. Stores - 1
    BY <1>1 DEF TypeOK, PersistenceAssumption
  <1>4. pending # 0
    BY <1>1, <1>2, <1>3 DEF CountInv
  <1>5. /\ pending' = pending - 1 /\ pending' \in 0 .. Stores
        /\ hydrated' \in BOOLEAN /\ (hydrated' <=> pending' = 0)
    BY <1>1, <1>2, <1>4, RehydratedEffect
  <1>6. others' \in 0 .. Stores - 1
    BY <1>2, <1>3, PersistenceAssumption DEF PersistenceAssumption
  <1>7. TypeOK'
    BY <1>1, <1>2, <1>5, <1>6 DEF TypeOK
  <1>8. CountInv'
    BY <1>1, <1>2, <1>3, <1>5 DEF CountInv
  <1>9. SaveInv'
    BY <1>1, <1>2, FileKeepsSaves
  <1>10. HereInv' /\ BootInv' /\ StartInv'
    BY <1>1, <1>2 DEF HereInv, BootInv, StartInv
  <1> QED
    BY <1>7, <1>8, <1>9, <1>10 DEF Inv

-----------------------------------------------------------------------------
(* The saves.                                                              *)

LEMMA ChangeKeeps ==
  ASSUME PersistenceAssumption, Inv, NEW k \in 1 .. MaxChanges, Change(k)
  PROVE  Inv'
  <1>1. TypeOK /\ HereInv /\ CountInv /\ BootInv /\ SaveInv /\ StartInv
    BY DEF Inv
  <1>2. /\ hydrated /\ saves[k].phase = "idle" /\ screen' = screen \union {k}
        /\ Begins(k, screen')
        /\ UNCHANGED <<mem, disk, late, boot, migrated, others, pending, hydrated, restarts,
                       faults, atStart, flawed>>
    BY DEF Change
  <1>3. k \in Writers /\ screen' \in SUBSET Edits
    BY <1>1, <1>2 DEF TypeOK, Writers, Edits
  <1>4. boot = "done"
    BY <1>1, <1>2 DEF CountInv, TypeOK, PersistenceAssumption
  <1>5. /\ saves' \in [Writers -> [phase : Phases, value : SUBSET Edits]]
        /\ before' \in [Writers -> SUBSET Writers]
        /\ SaveInv'
    BY <1>1, <1>2, <1>3, BeginsKeeps
  <1>6. TypeOK'
    BY <1>1, <1>2, <1>3, <1>5 DEF TypeOK, Phases
  <1>7. HereInv' /\ CountInv' /\ BootInv' /\ StartInv'
    BY <1>1, <1>2, <1>4 DEF HereInv, CountInv, BootInv, StartInv
  <1> QED
    BY <1>5, <1>6, <1>7 DEF Inv

\* A step of a save under way: the window is read back, and the file may have
\* what the save holds.
LEMMA SaveKeepsInv ==
  ASSUME PersistenceAssumption, Inv, NEW o \in Outcomes, Count(o), SaveKeeps,
         NEW w \in Writers, saves[w].phase \notin {"idle", "saved", "failed"},
         saves' \in [Writers -> [phase : Phases, value : SUBSET Edits]],
         mem' \in File, disk' \in File, late' \subseteq Late, HereInv', SaveInv',
         o = "done" => late' = late
  PROVE  Inv'
  <1>1. TypeOK /\ CountInv /\ BootInv /\ StartInv
    BY DEF Inv
  <1>2. /\ faults' \in 0 .. MaxFaults /\ flawed' \in BOOLEAN
        /\ ~flawed' => ~flawed /\ o = "done"
    BY <1>1, CountEffect
  <1>3. UNCHANGED <<boot, migrated, screen, others, pending, hydrated, restarts, atStart, before>>
    BY DEF SaveKeeps
  <1>4. boot = "done"
    BY <1>1 DEF BootInv
  <1>5. TypeOK'
    BY <1>1, <1>2, <1>3 DEF TypeOK, Late, Phases
  <1>6. CountInv' /\ BootInv' /\ StartInv'
    BY <1>1, <1>2, <1>3, <1>4 DEF CountInv, BootInv, StartInv
  <1> QED
    BY <1>5, <1>6 DEF Inv

LEMMA MovesEffect ==
  ASSUME TypeOK, NEW w \in Writers, NEW o, NEW next \in Phases, Moves(w, o, next)
  PROVE  /\ saves' \in [Writers -> [phase : Phases, value : SUBSET Edits]]
         /\ \A k \in Writers :
              saves'[k].phase = IF k = w THEN IF Throws(o) THEN "failed" ELSE next
                                ELSE saves[k].phase
  <1>1. saves \in [Writers -> [phase : Phases, value : SUBSET Edits]]
    BY DEF TypeOK, Phases
  <1>2. PICK phase \in Phases : phase = IF Throws(o) THEN "failed" ELSE next
    BY DEF Phases
  <1>3. saves' = [saves EXCEPT ![w].phase = phase]
    BY <1>2 DEF Moves
  <1>4. saves' \in [Writers -> [phase : Phases, value : SUBSET Edits]]
    BY <1>1, <1>3
  <1>5. \A k \in Writers : saves'[k].phase = IF k = w THEN phase ELSE saves[k].phase
    BY <1>1, <1>3
  <1> QED
    BY <1>2, <1>4, <1>5

\* What SaveInv asks of a step of the save w that is neither its start nor a
\* step of any other save.
LEMMA SaveInvKept ==
  ASSUME PersistenceAssumption, TypeOK, SaveInv, NEW w \in Writers,
         saves[w].phase \notin {"saved", "failed"},
         \A k \in Writers : k # w => saves'[k].phase = saves[k].phase,
         before' = before,
         \A x \in late' : x \in late \/ x.key # "data"
                          \/ (x.by = w /\ (w = 0 \/ saves'[w].phase = "failed")),
         mem'.by = mem.by \/ mem'.by = w,
         saves'[w].phase \in {"save", "saved"} =>
           mem'.by = w \/ saves[w].phase \in {"save", "saved"},
         (disk'.by \in {disk.by, mem.by} /\ mem'.by = mem.by) \/ disk' = disk,
         saves'[w].phase = "saved" => disk'.by = mem.by /\ saves[w].phase = "save"
  PROVE  SaveInv'
  <1>1. \A k \in Writers : Earlier(k)' = Earlier(k)
    BY DEF Earlier
  <1>2. Completed \subseteq Completed' /\ w \notin Completed
    BY DEF Completed
  <1>3. \A k \in Writers : Earlier(k) \subseteq Completed /\ k \notin before[k]
    BY DEF SaveInv
  <1>4. \A k \in Writers : Earlier(k)' \subseteq Completed' /\ k \notin before'[k]
    BY <1>1, <1>2, <1>3
  <1>5. \A x \in late' : x.key = "data" =>
          x.by \in {0, Booting} \/ (x.by \in Writers /\ saves'[x.by].phase = "failed")
    BY DEF SaveInv
  <1>6. ASSUME NEW k \in Writers \ {0}
        PROVE  /\ saves'[k].phase \in {"save", "saved"} => mem'.by \notin Earlier(k)'
               /\ saves'[k].phase = "saved" => disk'.by \notin Earlier(k)'
    <2>1. w \notin Earlier(k)
      BY <1>2, <1>3
    <2>2. /\ saves[k].phase \in {"save", "saved"} => mem.by \notin Earlier(k)
          /\ saves[k].phase = "saved" => disk.by \notin Earlier(k)
      BY DEF SaveInv
    <2>3. CASE k = w
      BY <1>1, <2>1, <2>2, <2>3
    <2>4. CASE k # w
      BY <1>1, <2>1, <2>2, <2>4
    <2> QED
      BY <2>3, <2>4
  <1> QED
    BY <1>4, <1>5, <1>6 DEF SaveInv

LEMMA SaveLoadKeeps ==
  ASSUME PersistenceAssumption, Inv, NEW w \in Writers, SaveLoad(w)
  PROVE  Inv'
  <1>1. TypeOK /\ HereInv /\ SaveInv
    BY DEF Inv
  <1>2. PICK o \in Outcomes : Moves(w, o, "set") /\ Count(o)
    BY DEF SaveLoad
  <1>3. saves[w].phase = "load" /\ SaveKeeps /\ UNCHANGED <<mem, disk, late>>
    BY DEF SaveLoad
  <1>4. /\ saves' \in [Writers -> [phase : Phases, value : SUBSET Edits]]
        /\ \A k \in Writers : saves'[k].phase = IF k = w THEN IF Throws(o) THEN "failed" ELSE "set"
                                                ELSE saves[k].phase
    BY <1>1, <1>2, MovesEffect DEF Phases
  <1>5. /\ saves'[w].phase \in {"failed", "set"}
        /\ \A k \in Writers : k # w => saves'[k].phase = saves[k].phase
    BY <1>4
  <1>6. before' = before
    BY <1>3 DEF SaveKeeps
  <1>7. SaveInv'
    BY <1>1, <1>3, <1>5, <1>6, SaveInvKept
  <1>8. HereInv' /\ mem' \in File /\ disk' \in File /\ late' \subseteq Late
    BY <1>1, <1>3 DEF HereInv, SaveKeeps, TypeOK, Late
  <1> QED
    BY <1>2, <1>3, <1>4, <1>7, <1>8, SaveKeepsInv

LEMMA SaveSetKeeps ==
  ASSUME PersistenceAssumption, Inv, NEW w \in Writers, SaveSet(w)
  PROVE  Inv'
  <1> DEFINE env == Envelope(Version, saves[w].value)
             write == DataWrite(env, w)
  <1>1. TypeOK /\ HereInv /\ SaveInv
    BY DEF Inv
  <1>2. PICK o \in Outcomes :
          /\ Writes(o, write) /\ Moves(w, o, IF o = "done" THEN "save" ELSE "unset") /\ Count(o)
    BY DEF SaveSet
  <1>3. saves[w].phase = "set" /\ SaveKeeps
    BY DEF SaveSet
  <1>4. write \in Late /\ write.key = "data" /\ write.env.here /\ write.by = w
    <2>1. env \in Envelopes /\ env.here
      BY <1>1 DEF TypeOK, Envelope, Envelopes, PersistenceAssumption
    <2>2. w \in 0 .. Booting
      BY DEF Booting, Writers, PersistenceAssumption
    <2> QED
      BY <2>1, <2>2, DataWriteTyped
  <1> HIDE DEF write
  <1>5. Written(o, write)
    BY <1>1, <1>2, <1>4, WritesEffect
  <1>6. PICK next \in Phases : next = IF o = "done" THEN "save" ELSE "unset"
    BY DEF Phases
  <1>7. /\ saves' \in [Writers -> [phase : Phases, value : SUBSET Edits]]
        /\ \A k \in Writers : saves'[k].phase = IF k = w THEN IF Throws(o) THEN "failed" ELSE next
                                                ELSE saves[k].phase
    BY <1>1, <1>2, <1>6, MovesEffect
  <1>8. /\ saves'[w].phase \in {"failed", "save", "unset"}
        /\ saves'[w].phase = "save" => o = "done"
        /\ o = "late" => saves'[w].phase = "failed"
        /\ \A k \in Writers : k # w => saves'[k].phase = saves[k].phase
    BY <1>6, <1>7 DEF Throws
  <1>9. SaveInv'
    <2>1. before' = before
      BY <1>3 DEF SaveKeeps
    <2>2. \A x \in late' : x \in late \/ (x.by = w /\ saves'[w].phase = "failed")
      BY <1>4, <1>5, <1>8 DEF Written
    <2>3. /\ mem'.by = mem.by \/ mem'.by = w
          /\ saves'[w].phase = "save" => mem'.by = w
          /\ disk' = disk
      BY <1>4, <1>5, <1>8 DEF Written
    <2> QED
      BY <1>1, <1>3, <1>8, <2>1, <2>2, <2>3, SaveInvKept
  <1>10. HereInv'
    BY <1>1, <1>3, <1>4, <1>5 DEF HereInv, SaveKeeps, Written
  <1>11. /\ mem' \in File /\ disk' \in File /\ late' \subseteq Late
         /\ o = "done" => late' = late
    BY <1>1, <1>5 DEF Written, TypeOK
  <1> QED
    BY <1>2, <1>3, <1>7, <1>9, <1>10, <1>11, SaveKeepsInv

LEMMA SaveSaveKeeps ==
  ASSUME PersistenceAssumption, Inv, NEW w \in Writers, SaveSave(w)
  PROVE  Inv'
  <1>1. TypeOK /\ HereInv /\ SaveInv
    BY DEF Inv
  <1>2. PICK o \in Outcomes :
          /\ SavesFile(o) /\ Count(o)
          /\ Moves(w, o, IF o = "done" /\ saves[w].phase = "save" THEN "saved" ELSE "failed")
    BY DEF SaveSave
  <1>3. saves[w].phase \in {"save", "unset"} /\ SaveKeeps
    BY DEF SaveSave
  <1>4. PICK next \in Phases :
          next = IF o = "done" /\ saves[w].phase = "save" THEN "saved" ELSE "failed"
    BY DEF Phases
  <1>5. /\ saves' \in [Writers -> [phase : Phases, value : SUBSET Edits]]
        /\ \A k \in Writers : saves'[k].phase = IF k = w THEN IF Throws(o) THEN "failed" ELSE next
                                                ELSE saves[k].phase
    BY <1>1, <1>2, <1>4, MovesEffect
  <1>6. /\ saves'[w].phase \in {"failed", "saved"}
        /\ saves'[w].phase = "saved" => o = "done" /\ saves[w].phase = "save"
        /\ \A k \in Writers : k # w => saves'[k].phase = saves[k].phase
    BY <1>4, <1>5
  <1>7. /\ UNCHANGED <<mem, late>> /\ disk' \in {disk, mem} /\ (o = "done" => disk' = mem)
    BY <1>2 DEF SavesFile
  <1>8. SaveInv'
    <2>1. before' = before
      BY <1>3 DEF SaveKeeps
    <2> QED
      BY <1>1, <1>3, <1>6, <1>7, <2>1, SaveInvKept
  <1>9. HereInv' /\ mem' \in File /\ disk' \in File /\ late' \subseteq Late
    BY <1>1, <1>3, <1>7 DEF HereInv, SaveKeeps, TypeOK, Late
  <1> QED
    BY <1>2, <1>3, <1>5, <1>7, <1>8, <1>9, SaveKeepsInv

-----------------------------------------------------------------------------
LEMMA RunLateKeeps ==
  ASSUME PersistenceAssumption, Inv, RunLate
  PROVE  Inv'
  <1>1. TypeOK /\ HereInv /\ CountInv /\ BootInv /\ SaveInv /\ StartInv
    BY DEF Inv
  <1>2. PICK w \in late : late' = late \ {w} /\ mem' = Applied(mem, w)
    BY DEF RunLate
  <1>3. UNCHANGED <<disk, boot, migrated, screen, saves, others, pending, hydrated,
                    restarts, faults, atStart, flawed, before>>
    BY DEF RunLate
  <1>4. w \in Late /\ mem \in File
    BY <1>1 DEF TypeOK, Late
  <1>5. /\ mem' \in File
        /\ mem'.by = IF w.key = "data" THEN w.by ELSE mem.by
        /\ mem'.data = IF w.key = "data" THEN w.env ELSE mem.data
    BY <1>2, <1>4, AppliedEffect
  <1>6. SaveInv'
    <2>1. w.key = "data" => Harmless(w.by)
      BY <1>1 DEF SaveInv, Harmless
    <2> QED
      BY <1>1, <1>2, <1>3, <1>5, <2>1, FileKeepsSaves
  <1>7. TypeOK'
    BY <1>1, <1>2, <1>3, <1>5 DEF TypeOK
  <1>8. HereInv'
    BY <1>1, <1>2, <1>3, <1>5 DEF HereInv
  <1>9. CountInv' /\ BootInv' /\ StartInv'
    BY <1>1, <1>2, <1>3 DEF CountInv, BootInv, StartInv
  <1> QED
    BY <1>6, <1>7, <1>8, <1>9 DEF Inv

LEMMA AutosaveKeeps ==
  ASSUME PersistenceAssumption, Inv, Autosave
  PROVE  Inv'
  <1>1. TypeOK /\ HereInv /\ CountInv /\ BootInv /\ SaveInv /\ StartInv
    BY DEF Inv
  <1>2. /\ disk' = mem
        /\ UNCHANGED <<mem, late, boot, migrated, screen, saves, others, pending, hydrated,
                       restarts, faults, atStart, flawed, before>>
    BY DEF Autosave
  <1>3. SaveInv'
    BY <1>1, <1>2, FileKeepsSaves
  <1>4. TypeOK'
    BY <1>1, <1>2 DEF TypeOK
  <1>5. HereInv' /\ CountInv' /\ BootInv' /\ StartInv'
    BY <1>1, <1>2 DEF HereInv, CountInv, BootInv, StartInv
  <1> QED
    BY <1>3, <1>4, <1>5 DEF Inv

\* What the disk holds counts for the saves that were complete, and no other
\* save outlives the restart.
LEMMA RestartKeeps ==
  ASSUME PersistenceAssumption, Inv, Restart
  PROVE  Inv'
  <1>1. TypeOK /\ HereInv /\ CountInv /\ BootInv /\ SaveInv /\ StartInv
    BY DEF Inv
  <1>2. /\ restarts < MaxRestarts /\ restarts' = restarts + 1
        /\ (mem' = disk /\ late' = {}) \/ (mem' = mem /\ late' = late)
        /\ boot' = "load" /\ migrated' = NoData /\ screen' = {}
        /\ others' = Stores - 1 /\ pending' = Stores /\ hydrated' = FALSE
        /\ atStart' = mem'.data /\ UNCHANGED <<disk, faults, before>>
    BY DEF Restart
  <1>3. flawed' = (late' # {})
    BY DEF Restart
  <1>4. saves' = [w \in Writers |-> IF saves[w].phase \in {"load", "set", "unset", "save"}
                                     THEN [saves[w] EXCEPT !.phase = "failed"]
                                     ELSE saves[w]]
    BY DEF Restart
  <1>5. /\ saves \in [Writers -> [phase : Phases, value : SUBSET Edits]] /\ "failed" \in Phases
        /\ restarts \in 0 .. MaxRestarts /\ MaxRestarts \in Nat /\ Stores \in Nat \ {0}
    BY <1>1 DEF TypeOK, Phases, PersistenceAssumption
  <1>6. saves' \in [Writers -> [phase : Phases, value : SUBSET Edits]]
    BY <1>4, <1>5
  <1>7. \A w \in Writers :
          saves'[w].phase = IF saves[w].phase \in {"load", "set", "unset", "save"} THEN "failed"
                            ELSE saves[w].phase
    BY <1>4, <1>5
  <1>8. mem \in File /\ disk \in File /\ mem' \in File /\ late' \subseteq late
    BY <1>1, <1>2 DEF TypeOK
  <1>9. NoData \in Envelopes /\ NoData.version = 0 /\ mem'.data \in Envelopes
    BY <1>8 DEF File, NoData, Envelopes, PersistenceAssumption
  <1>10. TypeOK'
    <2>1. restarts' \in 0 .. MaxRestarts
      BY <1>2, <1>5
    <2>2. others' \in 0 .. Stores - 1 /\ pending' \in 0 .. Stores
      BY <1>2, <1>5
    <2>3. flawed' \in BOOLEAN /\ hydrated' \in BOOLEAN
      BY <1>2, <1>3
    <2> QED
      BY <1>1, <1>2, <1>6, <1>8, <1>9, <2>1, <2>2, <2>3 DEF TypeOK, Boot, Phases
  <1>11. HereInv'
    BY <1>1, <1>2, <1>9 DEF HereInv
  <1>12. CountInv'
    BY <1>2, <1>5 DEF CountInv
  <1>13. BootInv'
    BY <1>5, <1>7 DEF BootInv, Phases
  <1>14. StartInv'
    BY <1>2, <1>3 DEF StartInv
  <1>15. SaveInv'
    <2>1. \A k \in Writers : Earlier(k)' = Earlier(k)
      BY <1>2 DEF Earlier
    <2>2. Completed' = Completed
      BY <1>7 DEF Completed
    <2>3. \A k \in Writers : Earlier(k)' \subseteq Completed' /\ k \notin before'[k]
      BY <1>1, <1>2, <2>1, <2>2 DEF SaveInv
    <2>4. \A x \in late' : x.key = "data" =>
            x.by \in {0, Booting} \/ (x.by \in Writers /\ saves'[x.by].phase = "failed")
      BY <1>1, <1>7, <1>8 DEF SaveInv
    <2>5. \A k \in Writers \ {0} :
            /\ saves'[k].phase \in {"save", "saved"} => mem'.by \notin Earlier(k)'
            /\ saves'[k].phase = "saved" => disk'.by \notin Earlier(k)'
      BY <1>1, <1>2, <1>7, <2>1 DEF SaveInv
    <2> QED
      BY <2>3, <2>4, <2>5 DEF SaveInv
  <1> QED
    BY <1>10, <1>11, <1>12, <1>13, <1>14, <1>15 DEF Inv

-----------------------------------------------------------------------------
LEMMA InitInv ==
  ASSUME PersistenceAssumption, Init
  PROVE  Inv
  <1>1. PICK v \in Stored \union {0} :
          mem \in Files(IF v = 0 THEN NoData ELSE Envelope(v, {0}))
    BY DEF Init
  <1>2. /\ disk = mem /\ late = {} /\ boot = "load" /\ migrated = NoData /\ screen = {}
        /\ saves = [w \in Writers |-> NoSave]
        /\ others = Stores - 1 /\ pending = Stores /\ hydrated = FALSE
        /\ restarts = 0 /\ faults = 0 /\ atStart = mem.data /\ flawed = FALSE
        /\ before = [w \in Writers |-> {}]
    BY DEF Init
  <1>3. Stores \in Nat \ {0} /\ MaxFaults \in Nat /\ MaxRestarts \in Nat
    BY DEF PersistenceAssumption
  <1>4. PICK d \in Envelopes : /\ d = IF v = 0 THEN NoData ELSE Envelope(v, {0})
                               /\ d.version > 0 => d.here
    <2>1. CASE v = 0
      <3>1. NoData \in Envelopes /\ NoData.version = 0
        BY DEF NoData, Envelopes, PersistenceAssumption
      <3>2. ~(NoData.version > 0)
        BY <3>1
      <3> QED
        BY <2>1, <3>1, <3>2
    <2>2. CASE v # 0
      <3>1. v \in 1 .. Version /\ {0} \in SUBSET Edits
        BY <2>2 DEF PersistenceAssumption, Edits
      <3>2. Envelope(v, {0}) \in Envelopes /\ Envelope(v, {0}).here
        BY <3>1 DEF Envelope, Envelopes, PersistenceAssumption
      <3> QED
        BY <2>2, <3>2
    <2> QED
      BY <2>1, <2>2
  <1>5. mem = [data |-> d, version |-> d.version, by |-> Release]
    BY <1>1, <1>4 DEF Files
  <1>6. Release \in 0 .. Booting
    BY DEF Release, Booting, PersistenceAssumption
  <1>7. mem \in File /\ mem.data = d
    BY <1>4, <1>5, <1>6 DEF File, Envelopes
  <1>8. NoData \in Envelopes /\ NoData.version = 0
    BY DEF NoData, Envelopes, PersistenceAssumption
  <1>9. /\ saves \in [Writers -> [phase : Phases, value : SUBSET Edits]]
        /\ \A w \in Writers : saves[w].phase = "idle"
    BY <1>2 DEF NoSave, Phases
  <1>10. TypeOK
    <2>1. others \in 0 .. Stores - 1 /\ pending \in 0 .. Stores
      BY <1>2, <1>3
    <2>2. restarts \in 0 .. MaxRestarts /\ faults \in 0 .. MaxFaults
      BY <1>2, <1>3
    <2>3. before \in [Writers -> SUBSET Writers]
      BY <1>2
    <2>4. atStart \in Envelopes /\ migrated \in Envelopes
      BY <1>2, <1>4, <1>7, <1>8
    <2>5. hydrated \in BOOLEAN /\ flawed \in BOOLEAN
      BY <1>2
    <2> QED
      BY <1>2, <1>7, <1>9, <2>1, <2>2, <2>3, <2>4, <2>5 DEF TypeOK, Boot, Phases
  <1>11. HereInv
    BY <1>2, <1>4, <1>7, <1>8 DEF HereInv
  <1>12. CountInv
    BY <1>2, <1>3 DEF CountInv
  <1>13. BootInv /\ StartInv
    BY <1>2, <1>9 DEF BootInv, StartInv
  <1>14. SaveInv
    BY <1>2, <1>9 DEF SaveInv, Earlier
  <1> QED
    BY <1>10, <1>11, <1>12, <1>13, <1>14 DEF Inv

LEMMA NextInv ==
  ASSUME PersistenceAssumption, Inv, [Next]_vars
  PROVE  Inv'
  <1>1. CASE BootLoad \/ BootVersion \/ BootData
    BY <1>1, BootReadsKeep
  <1>2. CASE BootWrite
    BY <1>2, BootWriteKeeps
  <1>3. CASE BootSave
    BY <1>3, BootSaveKeeps
  <1>4. CASE BootRead
    BY <1>4, BootReadKeeps
  <1>5. CASE OtherStoreRehydrated
    BY <1>5, OtherStoreKeeps
  <1>6. ASSUME NEW k \in 1 .. MaxChanges, Change(k) PROVE Inv'
    BY <1>6, ChangeKeeps
  <1>7. ASSUME NEW w \in Writers, SaveStep(w) PROVE Inv'
    BY <1>7, SaveLoadKeeps, SaveSetKeeps, SaveSaveKeeps DEF SaveStep
  <1>8. CASE RunLate
    BY <1>8, RunLateKeeps
  <1>9. CASE Autosave
    BY <1>9, AutosaveKeeps
  <1>10. CASE Restart
    BY <1>10, RestartKeeps
  <1>11. CASE UNCHANGED vars
    <2>1. TypeOK' /\ HereInv'
      BY <1>11 DEF Inv, vars, TypeOK, HereInv
    <2>2. CountInv' /\ BootInv' /\ StartInv'
      BY <1>11 DEF Inv, vars, CountInv, BootInv, StartInv
    <2>3. SaveInv'
      BY <1>11, FileKeepsSaves DEF Inv, vars
    <2> QED
      BY <2>1, <2>2, <2>3 DEF Inv
  <1> QED
    BY <1>1, <1>2, <1>3, <1>4, <1>5, <1>6, <1>7, <1>8, <1>9, <1>10, <1>11 DEF Next, BootStep

LEMMA InvAlways ==
  ASSUME PersistenceAssumption
  PROVE  Spec => []Inv
  <1>1. Init => Inv
    BY InitInv
  <1>2. Inv /\ [Next]_vars => Inv'
    BY NextInv
  <1> QED
    BY <1>1, <1>2, PTL DEF Spec

\* Every variable keeps its shape: among others the counter of the stores to
\* be read back never goes below none of them, through any number of restarts.
THEOREM Types ==
  ASSUME PersistenceAssumption
  PROVE  Spec => []TypeOK
  <1>1. Inv => TypeOK
    BY DEF Inv
  <1> QED
    BY <1>1, InvAlways, PTL

\* What the user saved survives: the window counts as loaded only when all
\* stores are read back, a start without a failed command shows what the file
\* held, and no completed save is undone by one that was complete before it
\* began.
THEOREM SettingsAreKept ==
  ASSUME PersistenceAssumption
  PROVE  Spec => []SettingsSurvive
  <1>1. ASSUME Inv PROVE SettingsSurvive
    <2>1. HydratedMeansAll
      BY <1>1 DEF Inv, HydratedMeansAll, CountInv, TypeOK, PersistenceAssumption
    <2>2. RestartKeepsSettings
      BY <1>1, <2>1 DEF Inv, RestartKeepsSettings, HydratedMeansAll, StartInv
    <2>3. SavedIsNotUndone
      BY <1>1 DEF Inv, SavedIsNotUndone, SaveInv, Earlier, Completed
    <2> QED
      BY <2>1, <2>2, <2>3 DEF SettingsSurvive
  <1> QED
    BY <1>1, InvAlways, PTL

===============================================================================
