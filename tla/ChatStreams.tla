---------------------------- MODULE ChatStreams ----------------------------
(***************************************************************************)
(* The conversation view of the web front end: the streaming store         *)
(* (store/streaming-store.ts), the rAF coalescer (lib/token-coalescer.ts), *)
(* the coordination of stops (store/coordination.ts), the message cache    *)
(* (store/message-store.ts), the event handlers (hooks/useTauriEvents.ts), *)
(* the send pipeline (services/ChatSendService.ts, hooks/useChatStream.ts) *)
(* and the loads, deletions and switches that touch the same conversation. *)
(*                                                                         *)
(* JavaScript runs one task at a time: an action is the run of one task up *)
(* to its next await. The backend is external: a request it accepted sends *)
(* its tokens in order and then ends with a done token, an error event or  *)
(* nothing. Saves of messages land at once (ConversationSync has their     *)
(* retries); a message is its id <<request, role>>, the tokens of its      *)
(* content, its stopped mark and the request of its metrics.               *)
(***************************************************************************)
EXTENDS Naturals, Sequences, FiniteSets

CONSTANTS
  Convs,        (* conversations                                            *)
  Requests,     (* request ids that sends may draw                          *)
  Old,          (* the request of the turn already stored in each Convs     *)
  None,         (* no request, no conversation, no batch                    *)
  MaxTokens,    (* bound: tokens of one answer                              *)
  Lossy,        (* whether an answer nobody aborted may end without a word  *)
  MaxEdits,     (* bound: edits and deletions of messages                   *)
  MaxRemovals   (* bound: deletions of conversations, departures from the   *)
                (* page                                                     *)

ASSUME StreamsAssumption ==
  /\ None \notin Convs \cup Requests \cup {Old}
  /\ None \notin (Requests \cup {Old}) \X {"user", "assistant"}
  /\ Old \notin Requests
  /\ MaxTokens \in Nat
  /\ Lossy \in BOOLEAN /\ MaxEdits \in Nat /\ MaxRemovals \in Nat

VARIABLES
  store,    (* the stores, one record of functions of the conversation:     *)
            (*   msgs      messages[conv] of the message store              *)
            (*   live      liveContent    metrics   pendingMetrics          *)
            (*   active    activeStreams  batch     the coalescer's batches *)
            (*   streaming isStreaming    outcome   how a stream was stopped*)
            (*             (an observer: no step reads it)                  *)
  current,  (* currentConversationId                                        *)
  open,     (* the conversations of the conversation store                  *)
  calls,    (* the sends: where they are, their conversation, their edit    *)
  sent,     (* how many tokens of a request its events have delivered       *)
  backend,  (* "none", "running" or "ended": the request in the backend     *)
  stored,   (* the messages of the database                                 *)
  loads,    (* loads in flight: what getConversation read for a conversation*)
  loaded,   (* loadedRef of useConversationMessages                         *)
  booting,  (* the load of useConversationInitialization in flight          *)
  edits, removals,
  disturbed (* requests met by a hazard named below (observer)              *)

counts == <<edits, removals>>
vars == <<store, current, open, calls, sent, backend, stored, loads, loaded, booting,
          edits, removals, disturbed>>

Reqs == Requests \cup {Old}
Outcomes == {"none", "complete", "abort", "error"}
NoBatch == [req |-> None, text |-> <<>>]
User(r) == <<r, "user">>
Assistant(r) == <<r, "assistant">>
Message(id) == [id |-> id, text |-> <<>>, stopped |-> FALSE, metrics |-> None]
IdsOf(ms) == {ms[i].id : i \in DOMAIN ms}
\* filter(m => m.id !== id): the ids of a list are distinct (TypeOK).
Without(ms, id) ==
  LET at == CHOOSE i \in DOMAIN ms : ms[i].id = id
  IN IF id \notin IdsOf(ms) THEN ms
     ELSE [k \in 1 .. Len(ms) - 1 |-> IF k < at THEN ms[k] ELSE ms[k + 1]]
\* appendMessage of the backend: an upsert by id.
Saved(ms, m) == IF m.id \in IdsOf(ms)
                THEN [i \in DOMAIN ms |-> IF ms[i].id = m.id THEN m ELSE ms[i]]
                ELSE Append(ms, m)
Last(ms) == ms[Len(ms)]
Owner(ms) == IF ms = <<>> THEN {} ELSE {Last(ms).id[1]}
EndsWith(ms, r) == ms # <<>> /\ Last(ms).id = Assistant(r)

---------------------------------------------------------------------------
(* The message store and the streaming store.                              *)

\* updateLastMessage on the messages of a conversation: text is appended, a
\* mark and metrics overwrite.
UpdatedLast(ms, text, mark, metrics) ==
  IF ms = <<>> THEN ms
  ELSE [ms EXCEPT ![Len(ms)] =
          [id |-> @.id, text |-> @.text \o text,
           stopped |-> IF mark = "keep" THEN @.stopped ELSE mark = "set",
           metrics |-> IF metrics = None THEN @.metrics ELSE metrics]]

AddMessages(s, c, ms) == [s EXCEPT !.msgs[c] = @ \o ms]
RemoveMessage(s, c, id) == [s EXCEPT !.msgs[c] = Without(@, id)]

StartStream(s, c, r) == [s EXCEPT !.active[c] = r, !.streaming = TRUE]

FlushKeepingBatches(s) ==
  [s EXCEPT !.live = [c \in Convs |-> s.live[c] \o
                        (IF s.active[c] = s.batch[c].req THEN s.batch[c].text ELSE <<>>)]]
\* appendTokenBulk of every pending batch, then pendingBatches.clear().
FlushPendingBatches(s) ==
  [s EXCEPT !.live = [c \in Convs |->
                        IF s.batch[c].req # None /\ s.active[c] = s.batch[c].req
                        THEN s.live[c] \o s.batch[c].text ELSE s.live[c]],
            !.batch = [c \in Convs |-> NoBatch]]

Undrained(s) == s
Drained(s) == FlushPendingBatches(s)

LatestToken(s, c, r, token) == [s EXCEPT !.batch[c] = [req |-> r, text |-> token]]
\* The batch keeps the request id of its first token.
BufferToken(s, c, r, token) ==
  [s EXCEPT !.batch[c] = IF @.req = None THEN [req |-> r, text |-> token]
                         ELSE [req |-> @.req, text |-> @.text \o token]]

SetPendingMetrics(s, c, r) == IF s.active[c] = r THEN [s EXCEPT !.metrics[c] = r] ELSE s

\* drain, flushToConversation, updateLastMessage.
FlushAndStop(s, c) ==
  LET d == Drained(s)
  IN [d EXCEPT !.msgs[c] = UpdatedLast(@, d.live[c], "keep", d.metrics[c]),
               !.live[c] = <<>>, !.metrics[c] = None]

\* STOP_TRANSITIONS: the mark a reason leaves on the last message. No caller
\* reaches 'batch-end': the lookup it cleans up after never throws.
StoppedMarker(reason) ==
  CASE reason = "complete" -> "clear" [] reason = "abort" -> "set" [] OTHER -> "keep"

NoOtherStream(S, active) == FALSE
\* isStreaming stays while another conversation streams.
StillStreaming(S, active) == \E c \in Convs \ S : active[c] # None

\* flushAndStop, stopStream and clearStream of the conversations of C that stream.
Stop(s, C, reason) ==
  LET S == {c \in C : s.active[c] # None}
      d == Drained(s)
      without(f, none) == [c \in Convs |-> IF c \in S THEN none ELSE f[c]]
  IN IF S = {} THEN s
     ELSE [d EXCEPT
             !.msgs = [c \in Convs |->
                         IF c \in S THEN UpdatedLast(d.msgs[c], d.live[c], StoppedMarker(reason),
                                                     d.metrics[c])
                         ELSE d.msgs[c]],
             !.live = without(d.live, <<>>),
             !.metrics = without(d.metrics, None),
             !.active = without(d.active, None),
             !.streaming = StillStreaming(S, d.active),
             !.outcome = [r \in Requests |-> IF \E c \in S : s.active[c] = r THEN reason ELSE @[r]]]

\* stopStream(c, reason, expected): nothing if another stream, or none, is there.
StopStream(s, c, reason, expected) ==
  IF s.active[c] # expected THEN s ELSE Stop(s, {c}, reason)

---------------------------------------------------------------------------
(* Observers: which requests a hazard of the code touches.                 *)

\* The sends of c that still hold, or will still write, its last message.
Rivals(c) ==
  {r \in Requests : calls[r].conv = c /\ (calls[r].pc = "rag" \/ store.active[c] = r)}

\* Stopping a send before its messages exist marks the previous answer.
TooEarly(C) ==
  UNION {IF store.active[c] \in Requests /\ calls[store.active[c]].pc = "rag"
         THEN {store.active[c]} \cup Owner(store.msgs[c]) ELSE {} : c \in C}

Unresolved(c) ==
  {r \in Requests : calls[r].conv = c /\ store.outcome[r] # "complete"}

---------------------------------------------------------------------------
OldTurn == <<Message(User(Old)), [Message(Assistant(Old)) EXCEPT !.metrics = Old]>>

\* The program has just opened its last conversation, whose loads are in
\* flight, or runs with that conversation loaded.
Init ==
  /\ current \in Convs
  /\ \E C \in SUBSET Convs : current \in C /\ open = C
  /\ stored = [c \in Convs |-> IF c \in open THEN OldTurn ELSE <<>>]
  /\ \E starting \in BOOLEAN :
       /\ loads = [c \in Convs |-> IF c = current /\ starting THEN {OldTurn} ELSE {}]
       /\ booting = IF starting THEN {<<current, OldTurn>>} ELSE {}
       /\ loaded = IF starting THEN {} ELSE {current}
       /\ store = [msgs |-> [c \in Convs |-> IF c \in loaded THEN OldTurn ELSE <<>>],
                   live |-> [c \in Convs |-> <<>>], metrics |-> [c \in Convs |-> None],
                   active |-> [c \in Convs |-> None], batch |-> [c \in Convs |-> NoBatch],
                   streaming |-> FALSE, outcome |-> [r \in Requests |-> "none"]]
  /\ calls = [r \in Requests |-> [pc |-> "new", conv |-> None, edit |-> None, drop |-> None]]
  /\ sent = [r \in Requests |-> 0]
  /\ backend = [r \in Requests |-> "none"]
  /\ edits = 0 /\ removals = 0
  /\ disturbed = {}

\* initiateStreaming, then the await of the RAG context.
StartSend(r, edit, drop) ==
  /\ current # None
  /\ calls[r].pc = "new"
  /\ calls' = [calls EXCEPT ![r] = [pc |-> "rag", conv |-> current, edit |-> edit, drop |-> drop]]
  /\ store' = StartStream(store, current, r)
  /\ disturbed' = IF Rivals(current) = {} THEN disturbed
                  ELSE disturbed \cup Rivals(current) \cup {r}
  /\ UNCHANGED <<current, open, sent, backend, stored, loads, loaded, booting, removals>>

\* Enter in the input area, regenerate, retry and continue: no guard asks
\* whether the conversation is streaming.
SendMessage(r) == current \in open /\ StartSend(r, None, None) /\ UNCHANGED edits

FromItself(ms, i) == ms[i].id
NextAssistant(ms, i) ==
  LET later == {j \in DOMAIN ms : j > i /\ ms[j].id[2] = "assistant"}
  IN IF later = {} THEN None ELSE ms[CHOOSE j \in later : \A k \in later : j <= k].id

\* editedMsg and nextAssistant come from the snapshot of the store taken here.
EditAndResend(r) ==
  /\ edits < MaxEdits /\ edits' = edits + 1
  /\ current # None
  /\ \E i \in DOMAIN store.msgs[current] :
       LET ms == store.msgs[current]
       IN ms[i].id[2] = "user" /\ StartSend(r, ms[i].id, NextAssistant(ms, i))

\* The context has arrived (or failed: the hook swallows errors): the
\* messages are added, the user's is saved and the chat call is issued, even
\* when the stream was stopped or the conversation deleted meanwhile.
RagReplies(r) ==
  LET c == calls[r].conv
      e == calls[r].edit
      d == calls[r].drop
      new == IF e = None THEN <<Message(User(r)), Message(Assistant(r))>>
             ELSE <<Message(Assistant(r))>>
      save == Message(IF e = None THEN User(r) ELSE e)
  IN /\ calls[r].pc = "rag"
     /\ calls' = [calls EXCEPT ![r].pc = "chat"]
     /\ store' = AddMessages(RemoveMessage(store, c, d), c, new)
     /\ stored' = IF c \in open THEN [stored EXCEPT ![c] = Without(Saved(@, save), d)] ELSE stored
     /\ backend' = [backend EXCEPT ![r] = "running"]
     /\ UNCHANGED <<current, open, sent, loads, loaded, booting, disturbed, counts>>

\* chat resolved, or rejected with a cancellation: neither writes a store.
ChatReturns(r) ==
  /\ calls[r].pc = "chat"
  /\ calls' = [calls EXCEPT ![r].pc = "done"]
  /\ UNCHANGED <<store, current, open, sent, backend, stored, loads, loaded, booting, disturbed, counts>>

NeverResolved(c) == FALSE
Resolved(c) == store.active[c] = None

\* handleStreamError: guarded by the conversation, not by the request. The
\* backend may have refused the request or, after a timeout, still run it.
ChatRejects(r) ==
  LET c == calls[r].conv
      told == [FlushAndStop(store, c) EXCEPT !.msgs[c] = UpdatedLast(@, <<<<r, 0>>>>, "keep", None)]
  IN /\ calls[r].pc = "chat"
     /\ calls' = [calls EXCEPT ![r].pc = "done"]
     /\ store' = IF Resolved(c) THEN store ELSE Stop(told, {c}, "error")
     /\ disturbed' = IF store.active[c] \in {None, r} THEN disturbed
                     ELSE disturbed \cup {store.active[c]} \cup Owner(store.msgs[c])
     /\ \E b \in {backend[r], "ended"} : backend' = [backend EXCEPT ![r] = b]
     /\ UNCHANGED <<current, open, sent, stored, loads, loaded, booting, counts>>

---------------------------------------------------------------------------
(* Events of the backend: handleToken and handleError.                     *)

Streaming(r) == {c \in Convs : store.active[c] = r}
ConvOf(r) == CHOOSE c \in Streaming(r) : TRUE

Token(r) ==
  /\ backend[r] = "running" /\ sent[r] < MaxTokens
  /\ sent' = [sent EXCEPT ![r] = @ + 1]
  /\ store' = IF Streaming(r) = {} THEN store
              ELSE BufferToken(store, ConvOf(r), r, <<<<r, sent[r] + 1>>>>)
  /\ UNCHANGED <<current, open, calls, backend, stored, loads, loaded, booting, disturbed, counts>>

\* The done token: an empty text, the metrics, stopStream('complete') and the
\* save of the last message if it is an answer.
DoneToken(r) ==
  LET c == ConvOf(r)
      buffered == SetPendingMetrics(BufferToken(store, c, r, <<>>), c, r)
      stopped == Stop(buffered, {c}, "complete")
      ms == stopped.msgs[c]
      saves == c \in open /\ ms # <<>> /\ Last(ms).id[2] = "assistant"
  IN /\ backend[r] = "running"
     /\ backend' = [backend EXCEPT ![r] = "ended"]
     /\ IF Streaming(r) = {} THEN UNCHANGED <<store, stored>>
        ELSE /\ store' = stopped
             /\ stored' = IF saves THEN [stored EXCEPT ![c] = Saved(@, Last(ms))] ELSE stored
     /\ UNCHANGED <<current, open, calls, sent, loads, loaded, booting, disturbed, counts>>

ToastOnly(r) == store
\* An error of a request that streams nowhere falls through to the branch for
\* errors without a request: it stops every stream.
AfterError(r) == IF Streaming(r) = {} THEN Stop(store, Convs, "error")
                 ELSE StopStream(store, ConvOf(r), "error", r)

ErrorEvent(r) ==
  /\ backend[r] = "running"
  /\ backend' = [backend EXCEPT ![r] = "ended"]
  /\ store' = AfterError(r)
  /\ UNCHANGED <<current, open, calls, sent, stored, loads, loaded, booting, disturbed, counts>>

\* The end without an event: a cancelled stream, a read error, an early end.
SilentEnd(r) ==
  /\ backend[r] = "running"
  /\ Lossy \/ store.outcome[r] = "abort"
  /\ backend' = [backend EXCEPT ![r] = "ended"]
  /\ UNCHANGED <<store, current, open, calls, sent, stored, loads, loaded, booting, disturbed, counts>>

AnimationFrame ==
  /\ \E c \in Convs : store.batch[c].req # None
  /\ store' = FlushPendingBatches(store)
  /\ UNCHANGED <<current, open, calls, sent, backend, stored, loads, loaded, booting, disturbed, counts>>

---------------------------------------------------------------------------
(* The user.                                                               *)

\* The stop button and Escape. The abort of the backend's request may come
\* before the request: then nothing is cancelled and the answer runs on.
Abort ==
  /\ current # None /\ store.active[current] # None
  /\ store' = StopStream(store, current, "abort", store.active[current])
  /\ disturbed' = disturbed \cup TooEarly({current})
  /\ UNCHANGED <<current, open, calls, sent, backend, stored, loads, loaded, booting, counts>>

\* The page unmounts and aborts every stream.
LeavePage ==
  /\ removals < MaxRemovals /\ removals' = removals + 1
  /\ \E c \in Convs : store.active[c] # None
  /\ store' = Stop(store, Convs, "abort")
  /\ disturbed' = disturbed \cup TooEarly(Convs)
  /\ UNCHANGED <<current, open, calls, sent, backend, stored, loads, loaded, booting, edits>>

\* The effect of useConversationMessages: the load of the conversation left
\* is cancelled; that of the new one starts unless its messages are cached.
SwitchTo(c) ==
  /\ c \in open /\ c # current
  /\ current' = c
  /\ loads' = [d \in Convs |-> IF d = c /\ c \notin loaded /\ store.msgs[c] = <<>>
                               THEN {stored[c]} ELSE {}]
  /\ UNCHANGED <<store, open, calls, sent, backend, stored, loaded, booting, disturbed, counts>>

SetMessages(c, snapshot) ==
  IF snapshot = <<>> THEN UNCHANGED <<store, disturbed>>
  ELSE /\ store' = [store EXCEPT !.msgs[c] = snapshot]
       /\ disturbed' = disturbed \cup Unresolved(c)
                        \cup (IF store.active[c] = None THEN {} ELSE Owner(snapshot))

\* A reply holds what the database held at some time since the call.
LoadReplies(c) ==
  /\ loads[c] # {}
  /\ \E snapshot \in loads[c] \cup {stored[c]} : SetMessages(c, snapshot)
  /\ loads' = [loads EXCEPT ![c] = {}]
  /\ loaded' = loaded \cup {c}
  /\ UNCHANGED <<current, open, calls, sent, backend, stored, booting, counts>>

LoadFails(c) ==
  /\ loads[c] # {}
  /\ loads' = [loads EXCEPT ![c] = {}]
  /\ UNCHANGED <<store, current, open, calls, sent, backend, stored, loaded, booting, disturbed, counts>>

\* The boot-phase load: no one cancels it.
BootReplies ==
  /\ \E b \in booting : \E snapshot \in {b[2], stored[b[1]]} : SetMessages(b[1], snapshot)
  /\ booting' = {}
  /\ UNCHANGED <<current, open, calls, sent, backend, stored, loads, loaded, counts>>

DeleteMessage(id) ==
  LET left == RemoveMessage(store, current, id)
      r == store.active[current]
  IN /\ edits < MaxEdits /\ edits' = edits + 1
     /\ current # None /\ id \in IdsOf(store.msgs[current])
     /\ store' = left
     /\ stored' = [stored EXCEPT ![current] = Without(@, id)]
     /\ disturbed' = IF /\ r # None /\ (calls[r].pc # "rag" \/ r \in disturbed)
                        /\ ~EndsWith(left.msgs[current], r)
                     THEN disturbed \cup {r} \cup Owner(left.msgs[current]) ELSE disturbed
     /\ UNCHANGED <<current, open, calls, sent, backend, loads, loaded, booting, removals>>

\* deleteConversation and clearAllConversations: abort the streams, forget
\* the conversations and their messages.
Remove(C, stopped) ==
  /\ removals < MaxRemovals /\ removals' = removals + 1
  /\ C \cap open # {}
  /\ store' = [stopped EXCEPT !.msgs = [c \in Convs |-> IF c \in C THEN <<>> ELSE @[c]]]
  /\ open' = open \ C
  /\ current' = IF current \in C THEN None ELSE current
  /\ stored' = [c \in Convs |-> IF c \in C THEN <<>> ELSE stored[c]]
  /\ loads' = IF current \in C THEN [c \in Convs |-> {}] ELSE loads
  /\ disturbed' = disturbed \cup {r \in Requests : calls[r].conv \in C /\ calls[r].pc = "rag"}
  /\ UNCHANGED <<calls, sent, backend, loaded, booting, edits>>

DeleteConversation(c) == Remove({c}, StopStream(store, c, "abort", store.active[c]))
ClearAllConversations == Remove(Convs, Stop(store, Convs, "abort"))

---------------------------------------------------------------------------
Next ==
  \/ \E r \in Requests :
       \/ SendMessage(r) \/ EditAndResend(r) \/ RagReplies(r)
       \/ ChatReturns(r) \/ ChatRejects(r)
       \/ Token(r) \/ DoneToken(r) \/ ErrorEvent(r) \/ SilentEnd(r)
  \/ \E c \in Convs : SwitchTo(c) \/ LoadReplies(c) \/ LoadFails(c) \/ DeleteConversation(c)
  \/ \E r \in Reqs : DeleteMessage(User(r)) \/ DeleteMessage(Assistant(r))
  \/ AnimationFrame \/ Abort \/ LeavePage \/ BootReplies \/ ClearAllConversations

Spec == Init /\ [][Next]_vars

\* A RAG lookup has a timeout of its own; the backend's stream has an idle
\* and an absolute timeout, each of which ends it with an error event.
Fairness ==
  \A r \in Requests : /\ WF_vars(RagReplies(r))
                      /\ WF_vars(Token(r) \/ DoneToken(r) \/ ErrorEvent(r))

FairSpec == Spec /\ Fairness

---------------------------------------------------------------------------
(* Properties.                                                             *)

Chunks == Reqs \X (0 .. MaxTokens)
Messages == [id : Reqs \X {"user", "assistant"}, text : Seq(Chunks), stopped : BOOLEAN,
             metrics : Reqs \cup {None}]
Stores == [msgs : [Convs -> Seq(Messages)], live : [Convs -> Seq(Chunks)],
           metrics : [Convs -> Requests \cup {None}],
           active : [Convs -> Requests \cup {None}],
           batch : [Convs -> [req : Requests \cup {None}, text : Seq(Chunks)]],
           streaming : BOOLEAN, outcome : [Requests -> Outcomes]]
Sends == [pc : {"new", "rag", "chat", "done"}, conv : Convs \cup {None},
          edit : (Reqs \X {"user"}) \cup {None}, drop : (Reqs \X {"assistant"}) \cup {None}]

\* The types of the stores (streaming-store.ts, message-store.ts); no list has
\* an id twice.
Distinct(ms) == \A i, j \in DOMAIN ms : ms[i].id = ms[j].id => i = j
TypeOK ==
  /\ store \in Stores
  /\ current \in Convs \cup {None} /\ open \subseteq Convs
  /\ calls \in [Requests -> Sends]
  /\ sent \in [Requests -> 0 .. MaxTokens]
  /\ backend \in [Requests -> {"none", "running", "ended"}]
  /\ stored \in [Convs -> Seq(Messages)] /\ loads \in [Convs -> SUBSET Seq(Messages)]
  /\ loaded \subseteq Convs /\ booting \subseteq Convs \X Seq(Messages)
  /\ \A c \in Convs : Distinct(store.msgs[c]) /\ Distinct(stored[c])
  /\ edits \in 0 .. MaxEdits /\ removals \in 0 .. MaxRemovals
  /\ disturbed \subseteq Reqs

\* isStreaming is set exactly while some conversation streams, whatever
\* several conversations do at once (coordination.ts:191-193).
FlagTruthful == store.streaming <=> \E c \in Convs : store.active[c] # None

\* What the conversation holds of an answer, over its messages, the live
\* buffer and the batch, is in the order the backend sent it and has no token
\* twice, whatever overlaps (token-coalescer.ts:9-11, streaming-store.ts:44-50).
Texts(c) ==
  LET n == Len(store.msgs[c])
  IN [k \in 1 .. n + 2 |-> IF k <= n THEN store.msgs[c][k].text
                           ELSE IF k = n + 1 THEN store.live[c] ELSE store.batch[c].text]
TokensInOrder ==
  \A c \in Convs :
    LET texts == Texts(c)
    IN \A b \in DOMAIN texts : \A a \in 1 .. b :
         \A i \in DOMAIN texts[a], j \in DOMAIN texts[b] :
           LET t == texts[a][i]
               u == texts[b][j]
           IN (a < b \/ i < j) /\ t[1] = u[1] /\ t[2] > 0 /\ u[2] > 0 => t[2] < u[2]

\* A live buffer belongs to the stream registered for its conversation: once
\* a stream is resolved none of its text is left to leak into a later answer
\* (useTauriEvents.ts:73-79, coordination.ts:88-93). A stream that another
\* send of the conversation displaced is the exception.
NothingLeftBehind ==
  \A c \in Convs :
    /\ store.active[c] = None => store.live[c] = <<>> /\ store.metrics[c] = None
    /\ store.batch[c].req # None /\ store.batch[c].req \notin disturbed
         => store.active[c] = store.batch[c].req

\* An answer that completed holds exactly the tokens of its request, with
\* its metrics and no stopped mark, in the view and in the database, and is
\* in the database while its conversation is: unless its request was met by
\* a second send, a load, a deletion or a stop of the same conversation that
\* came before its messages were there (useTauriEvents.ts:73-101).
Whole(m, r) == /\ m.text = [k \in 1 .. sent[r] |-> <<r, k>>]
               /\ m.metrics = r /\ ~m.stopped
DoneIsWhole ==
  \A r \in Requests \ disturbed :
    store.outcome[r] = "complete" =>
      /\ \A c \in Convs : \A ms \in {store.msgs[c], stored[c]} :
           \A i \in DOMAIN ms : ms[i].id = Assistant(r) => Whole(ms[i], r)
      /\ \/ edits > 0 \/ calls[r].conv \notin open
         \/ Assistant(r) \in IdsOf(stored[calls[r].conv])

\* First writer wins: whichever path resolved a stream, no later event
\* changes its message (coordination.ts:179-189), with the same exceptions:
\* the view goes on showing it as it was, as the database has it or as a
\* load in flight read it there.
Holds(ms, m) == \E i \in DOMAIN ms : ms[i] = m
Sources(c) == {store.msgs[c], stored[c]} \cup loads[c] \cup {b[2] : b \in {x \in booting : x[1] = c}}
ResolvedIsFinal ==
  [][\A r \in Requests \ disturbed' : store.outcome[r] \in {"complete", "abort"} =>
       \A c \in Convs : \A i \in DOMAIN store'.msgs[c] :
         LET m == store'.msgs[c][i]
         IN m.id = Assistant(r) => \E ms \in Sources(c) : Holds(ms, m)]_vars

\* A registered stream is resolved or replaced in the end, if every answer
\* ends with a done token or an error event (Lossy is FALSE).
StreamResolves ==
  \A r \in Requests : Streaming(r) # {} ~> Streaming(r) = {}

=============================================================================
