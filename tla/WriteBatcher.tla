---------------------------- MODULE WriteBatcher ----------------------------
(***************************************************************************)
(* The batched writer of messages (conversation/write_batch.rs): appends   *)
(* go through a bounded channel to one background task, which writes what  *)
(* has queued up in one transaction and answers every job with the result  *)
(* of that transaction. Creations and deletions take the lock of the store *)
(* past the channel (conversation/service.rs, conversation/store.rs).      *)
(***************************************************************************)
EXTENDS Naturals, Sequences

CONSTANTS
  Appends,        (* invocations of cmd_message_append                      *)
  Messages,       (* message ids                                            *)
  Conversations,
  ConvOf,         (* the conversation of each message                       *)
  None,           (* no row, no message                                     *)
  Capacity,       (* CHANNEL_CAPACITY                                       *)
  MaxBatch,       (* MAX_BATCH                                              *)
  MaxFaults,      (* bound: failures of SQLite                              *)
  MaxCrashes      (* bound: process exits                                   *)

ASSUME ConstantsAssumption ==
  /\ None \notin Appends \cup Messages
  /\ ConvOf \in [Messages -> Conversations]
  /\ Capacity \in Nat \ {0} /\ MaxBatch \in Nat \ {0}
  /\ MaxFaults \in Nat /\ MaxCrashes \in Nat

VARIABLES
  conv,     (* "none": not created yet, "there" or "deleted"                *)
  rows,     (* the append whose values the row of a message holds           *)
  msg,      (* the message of each append                                   *)
  pc,       (* where each append is                                         *)
  queue,    (* the channel                                                  *)
  batch,    (* the jobs the task has taken out of it                        *)
  phase,    (* where the task is                                            *)
  outcome,  (* the result of its last transaction                           *)
  faults, crashes

tables == <<conv, rows>>
calls == <<msg, pc>>
task == <<batch, phase, outcome>>
vars == <<tables, calls, queue, task, faults, crashes>>

PCs == {"new", "sending", "waiting", "ok", "err", "lost"}
Phases == {"idle", "drain", "flush", "ack"}

TypeOK ==
  /\ conv \in [Conversations -> {"none", "there", "deleted"}]
  /\ rows \in [Messages -> Appends \cup {None}]
  /\ msg \in [Appends -> Messages \cup {None}]
  /\ pc \in [Appends -> PCs]
  /\ queue \in Seq(Appends)
  /\ batch \in Seq(Appends)
  /\ phase \in Phases
  /\ outcome \in BOOLEAN
  /\ faults \in 0..MaxFaults
  /\ crashes \in 0..MaxCrashes
  \* However many append at once, the channel and a batch stay within their sizes.
  /\ Len(queue) <= Capacity
  /\ Len(batch) <= MaxBatch

Init ==
  /\ conv \in [Conversations -> {"none", "there"}]
  /\ rows = [m \in Messages |-> None]
  /\ msg = [a \in Appends |-> None]
  /\ pc = [a \in Appends |-> "new"]
  /\ queue = <<>>
  /\ batch = <<>>
  /\ phase = "idle"
  /\ outcome = FALSE
  /\ faults = 0 /\ crashes = 0

-----------------------------------------------------------------------------
(* WriteBatcher::append.                                                   *)

Invoke(a, m) ==
  /\ pc[a] = "new"
  /\ pc' = [pc EXCEPT ![a] = "sending"]
  /\ msg' = [msg EXCEPT ![a] = m]
  /\ UNCHANGED <<tables, queue, task, faults, crashes>>

\* As if the channel had no bound:
NoBound == TRUE
HasRoom == Len(queue) < Capacity

\* tx.send waits for room in the channel; then the caller waits for the answer.
Send(a) ==
  /\ pc[a] = "sending"
  /\ HasRoom
  /\ queue' = Append(queue, a)
  /\ pc' = [pc EXCEPT ![a] = "waiting"]
  /\ UNCHANGED <<tables, msg, task, faults, crashes>>

-----------------------------------------------------------------------------
(* The task.                                                               *)

\* rx.recv: the first job of a batch.
Receive ==
  /\ phase = "idle"
  /\ queue # <<>>
  /\ batch' = <<Head(queue)>>
  /\ queue' = Tail(queue)
  /\ phase' = "drain"
  /\ UNCHANGED <<tables, calls, outcome, faults, crashes>>

\* As if the size were looked at after the job was taken:
FullTooLate == Len(batch) > MaxBatch
BatchFull == Len(batch) >= MaxBatch

\* rx.try_recv, as long as there is a job and a place for it.
Drain ==
  /\ phase = "drain"
  /\ IF BatchFull \/ queue = <<>>
     THEN phase' = "flush" /\ UNCHANGED <<queue, batch>>
     ELSE /\ batch' = Append(batch, Head(queue))
          /\ queue' = Tail(queue)
          /\ UNCHANGED phase
  /\ UNCHANGED <<tables, calls, outcome, faults, crashes>>

\* The appends of the batch to m, in the order they were sent.
Of(m) == {i \in 1..Len(batch) : msg[batch[i]] = m}
Last(I) == {i \in I : \A j \in I : j <= i}

\* The foreign key of messages: the conversation of every job must be there.
AllThere == \A i \in 1..Len(batch) : conv[ConvOf[msg[batch[i]]]] = "there"

\* As if the statements before the failing one were kept:
PartlyWritten ==
  rows' = [m \in Messages |-> IF 1 \in Of(m) THEN batch[1] ELSE rows[m]]
\* The transaction is rolled back.
Unwritten == UNCHANGED rows

\* add_message_batch, one transaction under the lock of the store: the rows are
\* upserted in order ...
Commit ==
  /\ phase = "flush"
  /\ AllThere
  /\ rows' \in [Messages -> Appends \cup {None}]
  /\ \A m \in Messages :
       IF Of(m) = {} THEN rows'[m] = rows[m]
       ELSE \E i \in Last(Of(m)) : rows'[m] = batch[i]
  /\ outcome' = TRUE
  /\ phase' = "ack"
  /\ UNCHANGED <<conv, calls, queue, batch, faults, crashes>>

\* ... and one of them that cannot be, or another failure, undoes them all.
Rollback ==
  /\ phase = "flush"
  /\ \/ ~AllThere /\ UNCHANGED faults
     \/ AllThere /\ faults < MaxFaults /\ faults' = faults + 1
  /\ Unwritten
  /\ outcome' = FALSE
  /\ phase' = "ack"
  /\ UNCHANGED <<conv, calls, queue, batch, crashes>>

\* As if the jobs of a failed batch were dropped without an answer:
OnlySuccess == IF outcome THEN "ok" ELSE "waiting"
Result == IF outcome THEN "ok" ELSE "err"

\* The result of the transaction goes to every job in turn.
Ack ==
  /\ phase = "ack"
  /\ batch # <<>>
  /\ pc' = [pc EXCEPT ![Head(batch)] = Result]
  /\ batch' = Tail(batch)
  /\ UNCHANGED <<tables, msg, queue, phase, outcome, faults, crashes>>

NextBatch ==
  /\ phase = "ack"
  /\ batch = <<>>
  /\ phase' = "idle"
  /\ UNCHANGED <<tables, calls, queue, batch, outcome, faults, crashes>>

-----------------------------------------------------------------------------
(* The other commands, each one critical section of the store's lock.      *)

Create(c) ==
  /\ conv[c] = "none"
  /\ conv' = [conv EXCEPT ![c] = "there"]
  /\ UNCHANGED <<rows, calls, queue, task, faults, crashes>>

\* delete_conversation and clear_all_conversations: the rows go in one transaction.
Delete(C) ==
  /\ conv' = [c \in Conversations |->
                IF c \in C /\ conv[c] = "there" THEN "deleted" ELSE conv[c]]
  /\ rows' = [m \in Messages |-> IF ConvOf[m] \in C THEN None ELSE rows[m]]
  /\ UNCHANGED <<calls, queue, task, faults, crashes>>

DeleteMessage(m) ==
  /\ rows' = [rows EXCEPT ![m] = None]
  /\ UNCHANGED <<conv, calls, queue, task, faults, crashes>>

\* The process ends: the channel and the task are gone, no caller gets an answer.
Crash ==
  /\ crashes < MaxCrashes
  /\ crashes' = crashes + 1
  /\ pc' = [a \in Appends |-> IF pc[a] \in {"sending", "waiting"} THEN "lost" ELSE pc[a]]
  /\ queue' = <<>>
  /\ batch' = <<>>
  /\ phase' = "idle"
  /\ UNCHANGED <<tables, msg, outcome, faults>>

-----------------------------------------------------------------------------
Write == Receive \/ Drain \/ Commit \/ Rollback \/ Ack \/ NextBatch

Next ==
  \/ \E a \in Appends, m \in Messages : Invoke(a, m)
  \/ \E a \in Appends : Send(a)
  \/ Write
  \/ \E c \in Conversations : Create(c)
  \/ Delete(Conversations)
  \/ \E c \in Conversations : Delete({c})
  \/ \E m \in Messages : DeleteMessage(m)
  \/ Crash

Spec == Init /\ [][Next]_vars

\* The runtime polls the task, and the channel serves its senders in turn.
FairSpec == Spec /\ WF_vars(Write) /\ \A a \in Appends : SF_vars(Send(a))

-----------------------------------------------------------------------------
(* What the commands promise.                                              *)

\* An append is stored when the transaction of its batch has committed.
callBar ==
  [a \in Appends |->
     IF pc[a] = "sending" THEN "pending"
     ELSE IF pc[a] # "waiting" THEN pc[a]
     ELSE IF phase # "ack" \/ \A i \in 1..Len(batch) : batch[i] # a THEN "pending"
     ELSE IF outcome THEN "stored" ELSE "refused"]

Promise == INSTANCE MessageStore WITH call <- callBar

\* Every append takes effect once, at a moment between its call and its answer: ok
\* means it was stored, an error that nothing of it was, and what a deletion removed
\* does not come back by an append that was answered before.
Linearizable == Promise!Spec

\* The jobs nobody has answered yet, in the order they were sent.
jobs == batch \o queue

\* A caller waits exactly as long as its one job is in the channel or in the batch:
\* nobody waits for an answer that will not come, no job is answered twice.
WaitsForItsJob ==
  /\ \A i, j \in 1..Len(jobs) : jobs[i] = jobs[j] => i = j
  /\ \A a \in Appends : pc[a] = "waiting" <=> \E i \in 1..Len(jobs) : jobs[i] = a

\* Every append is answered, unless the process ends before.
EveryAppendAnswered ==
  \A a \in Appends : pc[a] = "sending" ~> pc[a] \in {"ok", "err", "lost"}
=============================================================================
