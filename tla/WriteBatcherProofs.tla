------------------------- MODULE WriteBatcherProofs -------------------------
(* Theorems about WriteBatcher, for any appends, messages, conversations   *)
(* and sizes of the channel and the batch.                                 *)
EXTENDS WriteBatcher, SequenceTheorems, TLAPS

-----------------------------------------------------------------------------
(* Sequences cut in two.                                                   *)

LEMMA MoveHead ==
  ASSUME NEW S, NEW s \in Seq(S), NEW t \in Seq(S), t # <<>>
  PROVE  Append(s, Head(t)) \o Tail(t) = s \o t
  <1>1. Head(t) \in S /\ Tail(t) \in Seq(S) /\ Len(Tail(t)) = Len(t) - 1 /\ Len(t) > 0
    OBVIOUS
  <1>2. Append(s, Head(t)) \in Seq(S)
    BY <1>1
  <1>3. Append(s, Head(t)) \o Tail(t) \in Seq(S) /\ s \o t \in Seq(S)
    BY <1>1, <1>2
  <1>4. Len(Append(s, Head(t)) \o Tail(t)) = Len(s \o t)
    BY <1>1, <1>2
  <1>5. ASSUME NEW i \in 1..Len(s \o t)
        PROVE  (Append(s, Head(t)) \o Tail(t))[i] = (s \o t)[i]
    BY <1>1, <1>2, <1>4
  <1> QED
    BY <1>3, <1>4, <1>5, SeqEqual

LEMMA AddLast ==
  ASSUME NEW S, NEW s \in Seq(S), NEW t \in Seq(S), NEW a \in S
  PROVE  s \o Append(t, a) = Append(s \o t, a)
  <1>1. s \o Append(t, a) \in Seq(S) /\ Append(s \o t, a) \in Seq(S)
    OBVIOUS
  <1>2. Len(s \o Append(t, a)) = Len(Append(s \o t, a))
    OBVIOUS
  <1>3. ASSUME NEW i \in 1..Len(Append(s \o t, a))
        PROVE  (s \o Append(t, a))[i] = Append(s \o t, a)[i]
    OBVIOUS
  <1> QED
    BY <1>1, <1>2, <1>3, SeqEqual

LEMMA DropFirst ==
  ASSUME NEW S, NEW s \in Seq(S), NEW t \in Seq(S), s # <<>>
  PROVE  Tail(s) \o t = Tail(s \o t)
  <1>1. Tail(s) \in Seq(S) /\ Len(Tail(s)) = Len(s) - 1 /\ Len(s) > 0
    OBVIOUS
  <1>2. Tail(s) \o t \in Seq(S) /\ s \o t \in Seq(S) /\ s \o t # <<>>
    BY <1>1
  <1>3. Tail(s \o t) \in Seq(S) /\ Len(Tail(s) \o t) = Len(Tail(s \o t))
    BY <1>1, <1>2
  <1>4. ASSUME NEW i \in 1..Len(Tail(s \o t))
        PROVE  (Tail(s) \o t)[i] = Tail(s \o t)[i]
    BY <1>1, <1>2, <1>3
  <1> QED
    BY <1>2, <1>3, <1>4, SeqEqual

-----------------------------------------------------------------------------
(* Types and sizes.                                                        *)

LEMMA InitTypeOK == Init => TypeOK
  <1> SUFFICES ASSUME Init PROVE TypeOK
    OBVIOUS
  <1>1. conv \in [Conversations -> {"none", "there", "deleted"}]
    BY DEF Init
  <1>2. queue \in Seq(Appends) /\ Len(queue) = 0 /\ batch \in Seq(Appends) /\ Len(batch) = 0
    BY DEF Init
  <1>3. /\ rows \in [Messages -> Appends \cup {None}]
        /\ msg \in [Appends -> Messages \cup {None}]
        /\ pc \in [Appends -> PCs]
    BY DEF Init, PCs
  <1>4. phase \in Phases /\ outcome \in BOOLEAN
    BY DEF Init, Phases
  <1>5. faults \in 0..MaxFaults /\ crashes \in 0..MaxCrashes
    BY ConstantsAssumption DEF Init
  <1> QED
    BY <1>1, <1>2, <1>3, <1>4, <1>5, ConstantsAssumption DEF TypeOK

LEMMA StepTypeOK == TypeOK /\ [Next]_vars => TypeOK'
  <1> SUFFICES ASSUME TypeOK, [Next]_vars PROVE TypeOK'
    OBVIOUS
  <1>1. ASSUME NEW a \in Appends, NEW m \in Messages, Invoke(a, m) PROVE TypeOK'
    BY <1>1 DEF Invoke, TypeOK, PCs, tables, task
  <1>2. ASSUME NEW a \in Appends, Send(a) PROVE TypeOK'
    BY <1>2, ConstantsAssumption DEF Send, HasRoom, TypeOK, PCs, tables, task
  <1>3. CASE Receive
    BY <1>3, ConstantsAssumption DEF Receive, TypeOK, Phases, tables, calls
  <1>4. CASE Drain
    <2>1. CASE BatchFull \/ queue = <<>>
      BY <1>4, <2>1 DEF Drain, TypeOK, Phases, tables, calls
    <2>2. CASE ~(BatchFull \/ queue = <<>>)
      <3>1. /\ batch' = Append(batch, Head(queue)) /\ queue' = Tail(queue)
            /\ UNCHANGED <<tables, calls, phase, outcome, faults, crashes>>
        BY <1>4, <2>2 DEF Drain
      <3>2. /\ Head(queue) \in Appends /\ Tail(queue) \in Seq(Appends)
            /\ Len(Tail(queue)) <= Capacity
        BY <2>2, ConstantsAssumption DEF TypeOK
      <3>3. batch' \in Seq(Appends) /\ Len(batch') <= MaxBatch
        BY <2>2, <3>1, <3>2, ConstantsAssumption DEF BatchFull, TypeOK
      <3> QED
        BY <3>1, <3>2, <3>3 DEF TypeOK, tables, calls
    <2> QED
      BY <2>1, <2>2
  <1>5. CASE Commit \/ Rollback
    <2>1. rows' \in [Messages -> Appends \cup {None}]
      BY <1>5 DEF Commit, Rollback, Unwritten, TypeOK
    <2>2. outcome' \in BOOLEAN
      BY <1>5 DEF Commit, Rollback
    <2>3. faults' \in 0..MaxFaults
      BY <1>5, ConstantsAssumption DEF Commit, Rollback, TypeOK
    <2> QED
      BY <1>5, <2>1, <2>2, <2>3 DEF Commit, Rollback, TypeOK, Phases, calls
  <1>6. CASE Ack
    <2>1. Head(batch) \in Appends /\ Tail(batch) \in Seq(Appends) /\ Len(Tail(batch)) <= MaxBatch
      BY <1>6, ConstantsAssumption DEF Ack, TypeOK
    <2>2. pc' \in [Appends -> PCs]
      BY <1>6, <2>1 DEF Ack, Result, TypeOK, PCs
    <2> QED
      BY <1>6, <2>1, <2>2 DEF Ack, TypeOK, tables
  <1>7. CASE NextBatch
    BY <1>7 DEF NextBatch, TypeOK, Phases, tables, calls
  <1>8. ASSUME NEW c \in Conversations, Create(c) PROVE TypeOK'
    BY <1>8 DEF Create, TypeOK, calls, task
  <1>9. ASSUME NEW C \in SUBSET Conversations, Delete(C) PROVE TypeOK'
    BY <1>9 DEF Delete, TypeOK, calls, task
  <1>10. ASSUME NEW m \in Messages, DeleteMessage(m) PROVE TypeOK'
    BY <1>10 DEF DeleteMessage, TypeOK, calls, task
  <1>11. CASE Crash
    BY <1>11, ConstantsAssumption DEF Crash, TypeOK, PCs, Phases, tables
  <1>12. CASE UNCHANGED vars
    BY <1>12 DEF vars, TypeOK, tables, calls, task
  <1>13. ASSUME NEW c \in Conversations PROVE {c} \in SUBSET Conversations
    OBVIOUS
  <1> QED
    BY <1>1, <1>2, <1>3, <1>4, <1>5, <1>6, <1>7, <1>8, <1>9, <1>10, <1>11, <1>12, <1>13
    DEF Next, Write

\* Every variable keeps its type, and neither the channel nor a batch outgrows its size.
THEOREM TypeCorrect == Spec => []TypeOK
  BY InitTypeOK, StepTypeOK, PTL DEF Spec

-----------------------------------------------------------------------------
(* The jobs.                                                               *)

\* Between two batches the task holds no job, and who waits has said what to write.
Idle == phase = "idle" => batch = <<>>
Named == \A a \in Appends : pc[a] \in {"sending", "waiting"} => msg[a] \in Messages
Jobs == Idle /\ Named /\ WaitsForItsJob

LEMMA InitJobs == Init => Jobs
  BY DEF Init, Jobs, Idle, Named, WaitsForItsJob, jobs

LEMMA StepJobs == TypeOK /\ Jobs /\ [Next]_vars => Jobs'
  <1> SUFFICES ASSUME TypeOK, Jobs, [Next]_vars PROVE Jobs'
    OBVIOUS
  <1> USE DEF Jobs
  <1>0. /\ jobs \in Seq(Appends) /\ queue \in Seq(Appends) /\ batch \in Seq(Appends)
        /\ pc \in [Appends -> PCs] /\ msg \in [Appends -> Messages \cup {None}]
    BY DEF TypeOK, jobs
  <1>1. ASSUME NEW a \in Appends, NEW m \in Messages, Invoke(a, m) PROVE Jobs'
    BY <1>0, <1>1 DEF Invoke, Idle, Named, WaitsForItsJob, jobs, tables, task
  <1>2. ASSUME NEW a \in Appends, Send(a) PROVE Jobs'
    <2>1. jobs' = Append(jobs, a)
      BY <1>0, <1>2, AddLast DEF Send, jobs, task
    <2>2. \A i \in 1..Len(jobs) : jobs[i] # a
      BY <1>2 DEF Send, WaitsForItsJob
    <2>3. /\ Len(jobs') = Len(jobs) + 1
          /\ jobs'[Len(jobs) + 1] = a
          /\ \A i \in 1..Len(jobs) : jobs'[i] = jobs[i]
      BY <1>0, <2>1
    <2>4. \A i, j \in 1..Len(jobs') : jobs'[i] = jobs'[j] => i = j
      BY <1>0, <2>2, <2>3 DEF WaitsForItsJob
    <2>5. \A b \in Appends : pc'[b] = "waiting" <=> \E i \in 1..Len(jobs') : jobs'[i] = b
      <3> TAKE b \in Appends
      <3>1. pc'[b] = "waiting" <=> b = a \/ pc[b] = "waiting"
        BY <1>0, <1>2 DEF Send
      <3>2. (\E i \in 1..Len(jobs') : jobs'[i] = b)
              <=> b = a \/ \E i \in 1..Len(jobs) : jobs[i] = b
        <4>1. ASSUME NEW i \in 1..Len(jobs'), jobs'[i] = b, b # a
              PROVE  i \in 1..Len(jobs) /\ jobs[i] = b
          BY <1>0, <2>3, <4>1
        <4>2. ASSUME NEW i \in 1..Len(jobs), jobs[i] = b
              PROVE  i \in 1..Len(jobs') /\ jobs'[i] = b
          BY <1>0, <2>3, <4>2
        <4>3. Len(jobs) + 1 \in 1..Len(jobs')
          BY <1>0, <2>3
        <4> QED
          BY <2>3, <4>1, <4>2, <4>3
      <3> QED
        BY <3>1, <3>2 DEF WaitsForItsJob
    <2> QED
      BY <1>0, <1>2, <2>4, <2>5 DEF Send, Idle, Named, WaitsForItsJob, task
  <1>3. CASE Receive
    <2>1. jobs' = jobs
      BY <1>0, <1>3, MoveHead DEF Receive, Idle, jobs
    <2> QED
      BY <1>3, <2>1 DEF Receive, Idle, Named, WaitsForItsJob, calls
  <1>4. CASE Drain
    <2>1. jobs' = jobs
      BY <1>0, <1>4, MoveHead DEF Drain, jobs
    <2> QED
      BY <1>4, <2>1 DEF Drain, Idle, Named, WaitsForItsJob, calls
  <1>5. CASE Commit \/ Rollback
    BY <1>5 DEF Commit, Rollback, Idle, Named, WaitsForItsJob, jobs, calls
  <1>6. CASE Ack
    <2>1. jobs' = Tail(jobs) /\ jobs # <<>> /\ Head(batch) = jobs[1]
      BY <1>0, <1>6, DropFirst DEF Ack, jobs
    <2>2. /\ Len(jobs') = Len(jobs) - 1
          /\ \A i \in 1..Len(jobs') : jobs'[i] = jobs[i + 1]
          /\ jobs[1] \in Appends
      BY <1>0, <2>1
    <2>3. \A i, j \in 1..Len(jobs') : jobs'[i] = jobs'[j] => i = j
      <3> TAKE i, j \in 1..Len(jobs')
      <3>1. i + 1 \in 1..Len(jobs) /\ j + 1 \in 1..Len(jobs)
        BY <1>0, <2>2
      <3> QED
        BY <2>2, <3>1 DEF WaitsForItsJob
    <2>4. pc' = [pc EXCEPT ![jobs[1]] = Result] /\ Result # "waiting"
      BY <1>6, <2>1 DEF Ack, Result
    <2>5. ASSUME NEW b \in Appends
          PROVE  pc'[b] = "waiting" <=> \E i \in 1..Len(jobs') : jobs'[i] = b
      <3>1. CASE b = jobs[1]
        BY <1>0, <2>1, <2>2, <2>4, <3>1 DEF WaitsForItsJob
      <3>2. CASE b # jobs[1]
        <4>1. (\E i \in 1..Len(jobs) : jobs[i] = b) <=> \E i \in 1..Len(jobs') : jobs'[i] = b
          <5>1. ASSUME NEW i \in 1..Len(jobs), jobs[i] = b
                PROVE  i - 1 \in 1..Len(jobs') /\ jobs'[i - 1] = b
            BY <1>0, <2>2, <3>2, <5>1
          <5>2. ASSUME NEW i \in 1..Len(jobs'), jobs'[i] = b
                PROVE  i + 1 \in 1..Len(jobs) /\ jobs[i + 1] = b
            BY <1>0, <2>2, <5>2
          <5> QED
            BY <5>1, <5>2
        <4> QED
          BY <1>0, <2>4, <3>2, <4>1 DEF WaitsForItsJob
      <3> QED
        BY <3>1, <3>2
    <2>6. Named'
      BY <1>0, <1>6, <2>2, <2>4 DEF Ack, Result, Named
    <2> QED
      BY <1>6, <2>3, <2>5, <2>6 DEF Ack, Idle, WaitsForItsJob
  <1>7. CASE NextBatch
    BY <1>7 DEF NextBatch, Idle, Named, WaitsForItsJob, jobs, calls
  <1>8. ASSUME NEW c \in Conversations, Create(c) PROVE Jobs'
    BY <1>8 DEF Create, Idle, Named, WaitsForItsJob, jobs, calls, task
  <1>9. ASSUME NEW C \in SUBSET Conversations, Delete(C) PROVE Jobs'
    BY <1>9 DEF Delete, Idle, Named, WaitsForItsJob, jobs, calls, task
  <1>10. ASSUME NEW m \in Messages, DeleteMessage(m) PROVE Jobs'
    BY <1>10 DEF DeleteMessage, Idle, Named, WaitsForItsJob, jobs, calls, task
  <1>11. CASE Crash
    <2>1. jobs' = <<>>
      BY <1>11 DEF Crash, jobs
    <2> QED
      BY <1>0, <1>11, <2>1 DEF Crash, Idle, Named, WaitsForItsJob
  <1>12. CASE UNCHANGED vars
    BY <1>12 DEF vars, Idle, Named, WaitsForItsJob, jobs, calls, task
  <1>13. ASSUME NEW c \in Conversations PROVE {c} \in SUBSET Conversations
    OBVIOUS
  <1> QED
    BY <1>1, <1>2, <1>3, <1>4, <1>5, <1>6, <1>7, <1>8, <1>9, <1>10, <1>11, <1>12, <1>13
    DEF Next, Write

LEMMA JobsInvariant == Spec => []Jobs
  BY InitJobs, StepJobs, TypeCorrect, PTL DEF Spec

\* No caller of append is forgotten and none is answered twice: its one job is in the
\* channel or in the batch exactly as long as it waits.
THEOREM NobodyForgotten == Spec => []WaitsForItsJob
  <1>1. Jobs => WaitsForItsJob
    BY DEF Jobs
  <1> QED
    BY <1>1, JobsInvariant, PTL

-----------------------------------------------------------------------------
(* The promise.                                                            *)

InBatch == {batch[i] : i \in 1..Len(batch)}

\* The jobs of the batch wait.
LEMMA BatchWaits == TypeOK /\ Jobs => \A a \in InBatch : a \in Appends /\ pc[a] = "waiting"
  <1> SUFFICES ASSUME TypeOK, Jobs, NEW i \in 1..Len(batch)
               PROVE  batch[i] \in Appends /\ pc[batch[i]] = "waiting"
    BY DEF InBatch
  <1>1. batch \in Seq(Appends) /\ queue \in Seq(Appends)
    BY DEF TypeOK
  <1>2. i \in 1..Len(jobs) /\ jobs[i] = batch[i] /\ batch[i] \in Appends
    BY <1>1 DEF jobs
  <1> QED
    BY <1>2 DEF Jobs, WaitsForItsJob

\* What the mapping says of one append.
LEMMA Mapped ==
  ASSUME NEW a \in Appends
  PROVE  /\ pc[a] = "sending" => callBar[a] = "pending"
         /\ pc[a] \notin {"sending", "waiting"} => callBar[a] = pc[a]
         /\ pc[a] = "waiting" /\ ~(phase = "ack" /\ a \in InBatch) => callBar[a] = "pending"
         /\ pc[a] = "waiting" /\ phase = "ack" /\ a \in InBatch =>
              callBar[a] = IF outcome THEN "stored" ELSE "refused"
  BY DEF callBar, InBatch

LEMMA InitPromise == Init => Promise!Init
  BY DEF Init, Promise!Init, callBar

LEMMA StepPromise == TypeOK /\ Jobs /\ [Next]_vars => [Promise!Next]_(Promise!vars)
  <1> SUFFICES ASSUME TypeOK, Jobs, [Next]_vars PROVE [Promise!Next]_(Promise!vars)
    OBVIOUS
  <1>0. /\ pc \in [Appends -> PCs] /\ msg \in [Appends -> Messages \cup {None}]
        /\ batch \in Seq(Appends) /\ queue \in Seq(Appends)
    BY DEF TypeOK
  <1>1. ASSUME NEW a \in Appends, NEW m \in Messages, Invoke(a, m) PROVE Promise!Next
    <2>1. callBar[a] = "new" /\ callBar' = [callBar EXCEPT ![a] = "pending"]
      BY <1>0, <1>1 DEF Invoke, callBar, task
    <2> QED
      BY <1>1, <2>1 DEF Invoke, Promise!Next, Promise!Invoke, tables
  <1>2. ASSUME NEW a \in Appends, Send(a) PROVE UNCHANGED Promise!vars
    <2>1. a \notin InBatch
      BY <1>2, BatchWaits DEF Send
    <2>2. callBar' = callBar
      BY <1>0, <1>2, <2>1 DEF Send, callBar, InBatch, task
    <2> QED
      BY <1>2, <2>2 DEF Send, Promise!vars, tables
  <1>3. CASE Receive \/ Drain
    <2>1. callBar' = callBar
      BY <1>3 DEF Receive, Drain, callBar, calls
    <2> QED
      BY <1>3, <2>1 DEF Receive, Drain, Promise!vars, tables, calls
  <1>4. CASE Commit
    <2>1. \A a \in InBatch : callBar[a] = "pending" /\ conv[ConvOf[msg[a]]] = "there"
      BY <1>4, BatchWaits, Mapped DEF Commit, AllThere, InBatch
    <2>2. callBar' = [a \in Appends |-> IF a \in InBatch THEN "stored" ELSE callBar[a]]
      <3>1. ASSUME NEW a \in Appends
            PROVE  callBar'[a] = IF a \in InBatch THEN "stored" ELSE callBar[a]
        BY <1>4, BatchWaits DEF Commit, callBar, InBatch, calls
      <3> QED
        BY <3>1 DEF callBar
    <2>3. ASSUME NEW m \in Messages
          PROVE  LET writers == {a \in InBatch : msg[a] = m} IN
                 IF writers = {} THEN rows'[m] = rows[m] ELSE rows'[m] \in writers
      <3>1. Of(m) = {} <=> {a \in InBatch : msg[a] = m} = {}
        BY DEF Of, InBatch
      <3>2. \A i \in Last(Of(m)) : batch[i] \in InBatch /\ msg[batch[i]] = m
        BY DEF Last, Of, InBatch
      <3> QED
        BY <1>4, <3>1, <3>2 DEF Commit
    <2>4. Promise!Store(InBatch)
      BY <1>4, <2>1, <2>2, <2>3 DEF Commit, Promise!Store, calls
    <2> QED
      BY <2>4, BatchWaits DEF Promise!Next
  <1>5. CASE Rollback
    <2>1. \A a \in InBatch : callBar[a] = "pending"
      BY <1>5, BatchWaits, Mapped DEF Rollback
    <2>2. callBar' = [a \in Appends |-> IF a \in InBatch THEN "refused" ELSE callBar[a]]
      <3>1. ASSUME NEW a \in Appends
            PROVE  callBar'[a] = IF a \in InBatch THEN "refused" ELSE callBar[a]
        BY <1>5, BatchWaits DEF Rollback, callBar, InBatch, calls
      <3> QED
        BY <3>1 DEF callBar
    <2>3. Promise!Refuse(InBatch)
      BY <1>5, <2>1, <2>2 DEF Rollback, Unwritten, Promise!Refuse, calls
    <2> QED
      BY <2>3, BatchWaits DEF Promise!Next
  <1>6. CASE Ack
    <2> DEFINE a == Head(batch)
    <2>1. a \in InBatch /\ a \in Appends /\ pc[a] = "waiting"
      <3>1. batch # <<>> /\ Head(batch) = batch[1] /\ 1 \in 1..Len(batch)
        BY <1>0, <1>6 DEF Ack
      <3> QED
        BY <3>1, BatchWaits DEF InBatch
    <2>2. callBar[a] = IF outcome THEN "stored" ELSE "refused"
      BY <1>6, <2>1, Mapped DEF Ack
    <2>3. ASSUME NEW b \in Appends, b # a PROVE b \in InBatch <=> b \in InBatch'
      <3>1. batch' = Tail(batch) /\ batch # <<>>
        BY <1>6 DEF Ack
      <3>2. /\ Len(batch') = Len(batch) - 1
            /\ \A i \in 1..Len(batch') : batch'[i] = batch[i + 1]
        BY <1>0, <3>1
      <3>3. ASSUME NEW i \in 1..Len(batch), batch[i] = b
            PROVE  i - 1 \in 1..Len(batch') /\ batch'[i - 1] = b
        BY <1>0, <2>3, <3>1, <3>2, <3>3
      <3>4. ASSUME NEW i \in 1..Len(batch'), batch'[i] = b
            PROVE  i + 1 \in 1..Len(batch) /\ batch[i + 1] = b
        BY <1>0, <3>2, <3>4
      <3> QED
        BY <3>3, <3>4 DEF InBatch
    <2>4. callBar' = [callBar EXCEPT ![a] = Result]
      <3>1. callBar'[a] = Result
        BY <1>0, <1>6, <2>1 DEF Ack, Result, callBar
      <3>2. ASSUME NEW b \in Appends, b # a PROVE callBar'[b] = callBar[b]
        BY <1>0, <1>6, <2>3, <3>2 DEF Ack, callBar, InBatch
      <3>3. /\ callBar = [b \in Appends |-> callBar[b]]
            /\ callBar' = [b \in Appends |-> callBar'[b]]
        BY DEF callBar
      <3> HIDE DEF a
      <3> QED
        BY <2>1, <3>1, <3>2, <3>3
    <2>5. Promise!Answer(a)
      BY <1>6, <2>2, <2>4 DEF Ack, Result, Promise!Answer, tables
    <2> QED
      BY <2>1, <2>5 DEF Promise!Next
  <1>7. CASE NextBatch
    <2>1. callBar' = callBar
      BY <1>7 DEF NextBatch, callBar, calls
    <2> QED
      BY <1>7, <2>1 DEF NextBatch, Promise!vars, tables, calls
  <1>8. ASSUME NEW c \in Conversations, Create(c) PROVE Promise!Next
    BY <1>8 DEF Create, Promise!Next, Promise!Create, callBar, calls, task
  <1>9. ASSUME NEW C \in SUBSET Conversations, Delete(C) PROVE Promise!Next
    BY <1>9 DEF Delete, Promise!Next, Promise!Delete, callBar, calls, task
  <1>10. ASSUME NEW m \in Messages, DeleteMessage(m) PROVE Promise!Next
    BY <1>10 DEF DeleteMessage, Promise!Next, Promise!DeleteMessage, callBar, calls, task
  <1>11. CASE Crash
    <2>1. callBar' = [a \in Appends |-> IF callBar[a] \in {"new", "ok", "err"} THEN callBar[a]
                                        ELSE "lost"]
      <3>1. ASSUME NEW a \in Appends
            PROVE  callBar'[a] = IF callBar[a] \in {"new", "ok", "err"} THEN callBar[a]
                                 ELSE "lost"
        BY <1>0, <1>11 DEF Crash, callBar, PCs
      <3> QED
        BY <3>1 DEF callBar
    <2> QED
      BY <1>11, <2>1 DEF Crash, Promise!Next, Promise!Crash, tables
  <1>12. CASE UNCHANGED vars
    BY <1>12 DEF vars, Promise!vars, callBar, tables, calls, task
  <1>13. ASSUME NEW c \in Conversations PROVE {c} \in SUBSET Conversations
    OBVIOUS
  <1> QED
    BY <1>1, <1>2, <1>3, <1>4, <1>5, <1>6, <1>7, <1>8, <1>9, <1>10, <1>11, <1>12, <1>13
    DEF Next, Write

\* The batched writer keeps the promise of the plain table: an append takes effect once,
\* between its call and its answer, and the answer is true.
THEOREM KeepsPromise == Spec => Linearizable
  BY InitPromise, StepPromise, JobsInvariant, TypeCorrect, PTL
  DEF Spec, Linearizable, Promise!Spec
=============================================================================
