---------------------------- MODULE MessageStore ----------------------------
(***************************************************************************)
(* What the conversation commands promise of the messages table, whatever  *)
(* queues and batches are behind it (conversation/service.rs): an append   *)
(* takes effect at one moment between its call and its answer, the answer  *)
(* says whether it did, and deletions take effect at once.                 *)
(***************************************************************************)
CONSTANTS
  Appends,        (* invocations of cmd_message_append                      *)
  Messages,       (* message ids                                            *)
  Conversations,
  ConvOf,         (* the conversation of each message                       *)
  None            (* no row, no message                                     *)

VARIABLES
  conv,  (* "none": not created yet, "there" or "deleted"                   *)
  rows,  (* the append whose values the row of a message holds              *)
  msg,   (* the message of each append                                      *)
  call   (* how far each append is                                          *)

vars == <<conv, rows, msg, call>>

Lives == {"none", "there", "deleted"}
CallStates == {"new", "pending", "stored", "refused", "ok", "err", "lost"}

Init ==
  /\ conv \in [Conversations -> {"none", "there"}]
  /\ rows = [m \in Messages |-> None]
  /\ msg = [a \in Appends |-> None]
  /\ call = [a \in Appends |-> "new"]

Invoke(a, m) ==
  /\ call[a] = "new"
  /\ call' = [call EXCEPT ![a] = "pending"]
  /\ msg' = [msg EXCEPT ![a] = m]
  /\ UNCHANGED <<conv, rows>>

\* Several appends may share the moment; of those to one message one stays.
Store(S) ==
  /\ \A a \in S : call[a] = "pending" /\ conv[ConvOf[msg[a]]] = "there"
  /\ rows' \in [Messages -> Appends \cup {None}]
  /\ \A m \in Messages :
       LET writers == {a \in S : msg[a] = m} IN
       IF writers = {} THEN rows'[m] = rows[m] ELSE rows'[m] \in writers
  /\ call' = [a \in Appends |-> IF a \in S THEN "stored" ELSE call[a]]
  /\ UNCHANGED <<conv, msg>>

\* Nothing of a refused append is in the table.
Refuse(S) ==
  /\ \A a \in S : call[a] = "pending"
  /\ call' = [a \in Appends |-> IF a \in S THEN "refused" ELSE call[a]]
  /\ UNCHANGED <<conv, rows, msg>>

Answer(a) ==
  /\ \/ call[a] = "stored" /\ call' = [call EXCEPT ![a] = "ok"]
     \/ call[a] = "refused" /\ call' = [call EXCEPT ![a] = "err"]
  /\ UNCHANGED <<conv, rows, msg>>

Create(c) ==
  /\ conv[c] = "none"
  /\ conv' = [conv EXCEPT ![c] = "there"]
  /\ UNCHANGED <<rows, msg, call>>

\* The conversations of C go with their messages.
Delete(C) ==
  /\ conv' = [c \in Conversations |->
                IF c \in C /\ conv[c] = "there" THEN "deleted" ELSE conv[c]]
  /\ rows' = [m \in Messages |-> IF ConvOf[m] \in C THEN None ELSE rows[m]]
  /\ UNCHANGED <<msg, call>>

DeleteMessage(m) ==
  /\ rows' = [rows EXCEPT ![m] = None]
  /\ UNCHANGED <<conv, msg, call>>

\* The process ends: no call in progress is answered, every row stays.
Crash ==
  /\ call' = [a \in Appends |-> IF call[a] \in {"new", "ok", "err"} THEN call[a]
                                ELSE "lost"]
  /\ UNCHANGED <<conv, rows, msg>>

Next ==
  \/ \E a \in Appends, m \in Messages : Invoke(a, m)
  \/ \E S \in SUBSET Appends : Store(S) \/ Refuse(S)
  \/ \E a \in Appends : Answer(a)
  \/ \E c \in Conversations : Create(c)
  \/ \E C \in SUBSET Conversations : Delete(C)
  \/ \E m \in Messages : DeleteMessage(m)
  \/ Crash

Spec == Init /\ [][Next]_vars
=============================================================================
