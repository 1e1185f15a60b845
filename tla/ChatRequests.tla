---------------------------- MODULE ChatRequests ----------------------------
(***************************************************************************)
(* The chat requests of the backend: OllamaChatService::chat and the task  *)
(* it spawns (ollama/service.rs, ollama/streaming.rs), abort_chat          *)
(* (ollama/abort_service.rs), and what they share: the cache that refuses  *)
(* a request id already in progress, the two semaphores, the registry of   *)
(* abort handles and the background sweep (shared/state).                  *)
(*                                                                         *)
(* A call is one invocation of chat; several may carry the same request    *)
(* id. Time passes in units of the request timeout.                        *)
(***************************************************************************)
EXTENDS Naturals, FiniteSets

CONSTANTS
  Calls,          (* invocations of chat                                      *)
  Ids,            (* request ids                                              *)
  None,           (* no entry, no handle, no id                               *)
  MaxRequests,    (* MAX_CONCURRENT_REQUESTS: permits for all Ollama traffic  *)
  MaxChats,       (* MAX_CONCURRENT_CHATS: permits for chats                  *)
  MaxCache,       (* MAX_REQUEST_CACHE_SIZE                                   *)
  MaxTries,       (* attempts of send_chat_request                            *)
  RequestTimeout, (* INITIAL_REQUEST_TIMEOUT_SECS                             *)
  StreamTimeout,  (* STREAM_ABSOLUTE_TIMEOUT_SECS                             *)
  TTL,            (* REQUEST_CACHE_TTL_SECS                                   *)
  MaxAborts,      (* bound: aborts                                            *)
  MaxOthers       (* bound: global permits other commands hold                *)

ASSUME ConstantsAssumption ==
  /\ None \notin Calls \cup Ids \cup Nat
  /\ MaxRequests \in Nat \ {0} /\ MaxChats \in Nat \ {0} /\ MaxCache \in Nat \ {0}
  /\ MaxTries \in Nat \ {0}
  /\ RequestTimeout \in Nat \ {0} /\ StreamTimeout \in Nat \ {0}
  /\ RequestTimeout <= StreamTimeout
  /\ TTL \in Nat /\ TTL >= StreamTimeout
  /\ MaxAborts \in Nat /\ MaxOthers \in Nat

VARIABLES
  pc,        (* where each call is                                            *)
  id,        (* its request id                                                *)
  tries,     (* its attempts to send                                          *)
  spent,     (* time since its last attempt began                             *)
  cache,     (* REQUEST_CACHE: the age of the entry of an id                  *)
  handle,    (* ABORT_HANDLES: the call an abort of the id cancels            *)
  cancelled, (* the calls whose CancellationToken is cancelled                *)
  clearing,  (* ids whose abort has taken the handle, not yet the entry       *)
  others,    (* global permits of health checks, pulls, embeddings, titles    *)
  aborts,
  lapsed     (* ids that lost their entry with a call in flight: aborted,     *)
             (* expired or evicted (an observer, no step reads it)            *)

time == <<spent, cache>>
vars == <<pc, id, tries, spent, cache, handle, cancelled, clearing, others, aborts,
          lapsed>>

WithGlobal == {"chat", "send", "stream", "unhandle", "uncache"}
WithChat == WithGlobal \ {"chat"}
\* Between the claim of the request id and the removal of the claim.
InFlight == WithGlobal \cup {"global"}
PCs == {"new", "claim", "refused", "ended"} \cup InFlight

\* An age counts up to the TTL.
Ages == 0..TTL

TypeOK ==
  /\ pc \in [Calls -> PCs]
  /\ id \in [Calls -> Ids \cup {None}]
  /\ \A c \in Calls : pc[c] # "new" => id[c] \in Ids
  /\ tries \in [Calls -> 0..MaxTries]
  /\ spent \in [Calls -> 0..RequestTimeout]
  /\ cache \in [Ids -> Ages \cup {None}]
  /\ handle \in [Ids -> Calls \cup {None}]
  /\ cancelled \in SUBSET Calls
  /\ clearing \in SUBSET Ids
  /\ others \in 0..MaxOthers
  /\ aborts \in 0..MaxAborts
  /\ lapsed \in SUBSET Ids

At(places) == {c \in Calls : pc[c] \in places}
Goto(c, l) == pc' = [pc EXCEPT ![c] = l]
Cached == {i \in Ids : cache[i] # None}
FlyingAs(i) == {c \in At(InFlight) : id[c] = i}

\* The ids of S that were in use when they were dropped from the cache.
Lapse(S) == lapsed' = lapsed \cup {i \in S : FlyingAs(i) # {}}

Init ==
  /\ pc = [c \in Calls |-> "new"]
  /\ id = [c \in Calls |-> None]
  /\ tries = [c \in Calls |-> 0]
  /\ spent = [c \in Calls |-> 0]
  /\ cache = [i \in Ids |-> None]
  /\ handle = [i \in Ids |-> None]
  /\ cancelled = {}
  /\ clearing = {}
  /\ others = 0
  /\ aborts = 0
  /\ lapsed = {}

-----------------------------------------------------------------------------
(* chat, up to the spawn.                                                  *)

\* Whom a full cache loses: one of the oldest.
Evicted ==
  IF Cardinality(Cached) < MaxCache THEN {}
  ELSE {i \in Cached : \A j \in Cached : cache[j] <= cache[i]}

\* A request that passed the rate limiter and the validation. Room is made in a full
\* cache before anyone looks whether the id is in it.
Invoke(c, i) ==
  /\ pc[c] = "new"
  /\ id' = [id EXCEPT ![c] = i]
  /\ Goto(c, "claim")
  /\ \/ /\ Evicted = {}
        /\ UNCHANGED <<cache, lapsed>>
     \/ \E oldest \in Evicted :
        /\ cache' = [cache EXCEPT ![oldest] = None]
        /\ Lapse({oldest})
  /\ UNCHANGED <<tries, spent, handle, cancelled, clearing, others, aborts>>

\* As if an entry were overwritten rather than looked at:
AnyIdIsNew(i) == TRUE
\* Entry::Vacant
IsNew(i) == cache[i] = None

\* As if a refused request cleaned up behind itself like one that was sent:
ClaimCleansUp(c) ==
  /\ pc[c] = "claim"
  /\ IF IsNew(id[c])
     THEN Goto(c, "global") /\ cache' = [cache EXCEPT ![id[c]] = 0]
     ELSE Goto(c, "unhandle") /\ UNCHANGED cache
  /\ UNCHANGED <<id, tries, spent, handle, cancelled, clearing, others, aborts, lapsed>>
\* The other half of request_cache_try_insert: the id is claimed or refused.
Claim(c) ==
  /\ pc[c] = "claim"
  /\ IF IsNew(id[c])
     THEN Goto(c, "global") /\ cache' = [cache EXCEPT ![id[c]] = 0]
     ELSE Goto(c, "refused") /\ UNCHANGED cache
  /\ UNCHANGED <<id, tries, spent, handle, cancelled, clearing, others, aborts, lapsed>>

GlobalFree == Cardinality(At(WithGlobal)) + others < MaxRequests

\* As if the permit of a call were not given back:
PermitsLeaked == Cardinality(At(WithChat \cup {"ended"})) < MaxChats
ChatFree == Cardinality(At(WithChat)) < MaxChats

AcquireGlobal(c) ==
  /\ pc[c] = "global"
  /\ GlobalFree
  /\ Goto(c, "chat")
  /\ UNCHANGED <<id, tries, spent, cache, handle, cancelled, clearing, others, aborts,
                 lapsed>>

\* With both permits the handle is registered; until now nobody could cancel the call.
AcquireChat(c) ==
  /\ pc[c] = "chat"
  /\ ChatFree
  /\ Goto(c, "send")
  /\ handle' = [handle EXCEPT ![id[c]] = c]
  /\ tries' = [tries EXCEPT ![c] = 1]
  /\ spent' = [spent EXCEPT ![c] = 0]
  /\ UNCHANGED <<id, cache, cancelled, clearing, others, aborts, lapsed>>

\* As if one attempt too many were made:
TriesLeftOneMore(c) == tries[c] <= MaxTries
\* retry_with_backoff
TriesLeft(c) == tries[c] < MaxTries

\* An attempt fails for a reason worth a retry, its timeout among them. The token is
\* not looked at before the next one.
SendAgain(c) ==
  /\ pc[c] = "send"
  /\ TriesLeft(c)
  /\ tries' = [tries EXCEPT ![c] = @ + 1]
  /\ spent' = [spent EXCEPT ![c] = 0]
  /\ UNCHANGED <<pc, id, cache, handle, cancelled, clearing, others, aborts, lapsed>>

\* As if the handle were left behind when a request cannot be sent:
CleanupSkipped(c) == Goto(c, "ended")
\* The error paths of send_chat_request leave like the end of the stream does.
Cleanup(c) == Goto(c, "unhandle")

\* The last attempt fails, or one for a reason that is not retried, or with a status
\* that is not a success.
SendFails(c) ==
  /\ pc[c] = "send"
  /\ Cleanup(c)
  /\ UNCHANGED <<id, tries, spent, cache, handle, cancelled, clearing, others, aborts,
                 lapsed>>

\* chat returns Ok, and the task it spawned reads the stream.
Respond(c) ==
  /\ pc[c] = "send"
  /\ Goto(c, "stream")
  /\ UNCHANGED <<id, tries, spent, cache, handle, cancelled, clearing, others, aborts,
                 lapsed>>

-----------------------------------------------------------------------------
(* The task.                                                               *)

\* process_chat_stream returns: cancelled, at the end of the stream, after an error, or
\* timed out. The timeout of the request covers its body too, so that the idle and the
\* absolute timeout of the stream, not shorter and started later, come after it.
StreamEnds(c) ==
  /\ pc[c] = "stream"
  /\ Goto(c, "unhandle")
  /\ UNCHANGED <<id, tries, spent, cache, handle, cancelled, clearing, others, aborts,
                 lapsed>>

\* ABORT_HANDLES.remove: by the id, whoever's handle it is.
DropHandle(c) ==
  /\ pc[c] = "unhandle"
  /\ handle' = [handle EXCEPT ![id[c]] = None]
  /\ Goto(c, "uncache")
  /\ UNCHANGED <<id, tries, spent, cache, cancelled, clearing, others, aborts, lapsed>>

\* REQUEST_CACHE.remove, likewise; then the permits are dropped. An entry of another
\* call in flight goes with it.
DropClaim(c) ==
  /\ pc[c] = "uncache"
  /\ cache' = [cache EXCEPT ![id[c]] = None]
  /\ Goto(c, "ended")
  /\ UNCHANGED <<id, tries, spent, handle, cancelled, clearing, others, aborts, lapsed>>

-----------------------------------------------------------------------------
(* Aborts, the sweep, other commands and time.                             *)

\* As if the handle were read and left in the registry:
HandleKept(i) == UNCHANGED handle
\* ABORT_HANDLES.remove(id)
TakeHandle(i) == handle' = [handle EXCEPT ![i] = None]

\* abort_chat: the handle, if there is one ...
Abort(i) ==
  /\ aborts < MaxAborts
  /\ aborts' = aborts + 1
  /\ cancelled' = IF handle[i] = None THEN cancelled ELSE cancelled \cup {handle[i]}
  /\ TakeHandle(i)
  /\ clearing' = clearing \cup {i}
  /\ UNCHANGED <<pc, id, tries, spent, cache, others, lapsed>>

\* ... and in any case the entry.
AbortClears(i) ==
  /\ i \in clearing
  /\ clearing' = clearing \ {i}
  /\ cache' = [cache EXCEPT ![i] = None]
  /\ Lapse({i})
  /\ UNCHANGED <<pc, id, tries, spent, handle, cancelled, others, aborts>>

\* evict_stale_requests
Stale(i) == cache[i] = TTL

\* The background sweep, over both maps.
Sweep ==
  LET stale == {i \in Ids : Stale(i)}
      dead == {i \in Ids : handle[i] \in cancelled} IN
  /\ stale \cup dead # {}
  /\ cache' = [i \in Ids |-> IF i \in stale THEN None ELSE cache[i]]
  /\ handle' = [i \in Ids |-> IF i \in dead THEN None ELSE handle[i]]
  /\ Lapse(stale)
  /\ UNCHANGED <<pc, id, tries, spent, cancelled, clearing, others, aborts>>

OthersAcquire ==
  /\ GlobalFree
  /\ others < MaxOthers
  /\ others' = others + 1
  /\ UNCHANGED <<pc, id, tries, spent, cache, handle, cancelled, clearing, aborts, lapsed>>

OthersRelease ==
  /\ others > 0
  /\ others' = others - 1
  /\ UNCHANGED <<pc, id, tries, spent, cache, handle, cancelled, clearing, aborts, lapsed>>

\* What is due before time may go on: a timeout that has run out, and every step that
\* waits for nothing.
Due(c) ==
  \/ pc[c] \in {"claim", "unhandle", "uncache"}
  \/ pc[c] = "global" /\ GlobalFree
  \/ pc[c] = "chat" /\ ChatFree
  \/ pc[c] \in {"send", "stream"} /\ spent[c] >= RequestTimeout
  \/ pc[c] = "stream" /\ c \in cancelled

Tick ==
  /\ \A c \in Calls : ~Due(c)
  /\ clearing = {}
  /\ spent' = [c \in Calls |-> IF pc[c] \in {"send", "stream"} THEN spent[c] + 1
                               ELSE spent[c]]
  /\ cache' = [i \in Ids |-> IF cache[i] \in Ages \ {TTL} THEN cache[i] + 1 ELSE cache[i]]
  /\ time' # time
  /\ UNCHANGED <<pc, id, tries, handle, cancelled, clearing, others, aborts, lapsed>>

-----------------------------------------------------------------------------
Acquire(c) == AcquireGlobal(c) \/ AcquireChat(c)
Proceed(c) ==
  \/ Claim(c) \/ SendAgain(c) \/ SendFails(c) \/ Respond(c)
  \/ StreamEnds(c) \/ DropHandle(c) \/ DropClaim(c)

Next ==
  \/ \E c \in Calls, i \in Ids : Invoke(c, i)
  \/ \E c \in Calls : Acquire(c) \/ Proceed(c)
  \/ \E i \in Ids : Abort(i) \/ AbortClears(i)
  \/ Sweep
  \/ OthersAcquire
  \/ OthersRelease
  \/ Tick

Spec == Init /\ [][Next]_vars

\* tokio's semaphores are fair, an attempt and a stream end at their timeouts, and so
\* does every other request that holds a global permit. Nothing is assumed of the
\* server, of aborts or of the sweep.
Fairness ==
  /\ \A c \in Calls : SF_vars(Acquire(c))
  /\ \A c \in Calls : WF_vars(Claim(c) \/ DropHandle(c) \/ DropClaim(c))
  /\ \A c \in Calls : WF_vars((SendAgain(c) \/ SendFails(c)) /\ Due(c))
  /\ \A c \in Calls : WF_vars(StreamEnds(c) /\ Due(c))
  /\ \A i \in Ids : WF_vars(AbortClears(i))
  /\ WF_vars(OthersRelease)
  /\ WF_vars(Tick)

FairSpec == Spec /\ Fairness

-----------------------------------------------------------------------------
(* Safety.                                                                 *)

\* Unless its entry was aborted, evicted or expired under it, a request id is in
\* progress once: two calls never stream into the same answer.
OneCallPerId ==
  \A i \in Ids \ lapsed : \A c, d \in FlyingAs(i) : c = d

\* An entry in the cache is one of a call in flight. A request that failed, was aborted
\* or is over never blocks its own repetition, whatever became of it.
EntryIsLive == \A i \in Cached : FlyingAs(i) # {}

\* A handle is one of a call in flight that nobody has cancelled: the tray, which asks
\* whether the registry is empty, does not keep the window for a call that is over. So
\* the sweep of cancelled handles never finds one.
HandleIsLive ==
  \A i \in Ids :
    handle[i] # None => /\ id[handle[i]] = i
                        /\ pc[handle[i]] \in {"send", "stream", "unhandle"}
                        /\ handle[i] \notin cancelled

\* Nothing is left behind in the cache and in the registry by a call that is over.
NothingLeaks == EntryIsLive /\ HandleIsLive

\* While a call sends or streams an abort reaches it, unless its entry had lapsed: two
\* calls of one id share a handle, and the first to end takes it away.
LiveIsAbortable ==
  \A c \in At({"send", "stream"}) :
    c \in cancelled \/ id[c] \in lapsed \/ handle[id[c]] = c

(* Liveness.                                                               *)

\* Every call comes to its end, whatever the server does, and however many wait for
\* the permits of the two semaphores: none is lost, and nobody waits in a circle.
EveryCallEnds == \A c \in Calls : pc[c] # "new" ~> pc[c] \in {"ended", "refused"}
=============================================================================
