------------------------- MODULE ChatStreamsProofs -------------------------
(***************************************************************************)
(* Proofs about ChatStreams, for any conversations, requests and chunks    *)
(* and with any bounds on the edits and removals.  The invariant is that   *)
(* of the types together with four parts: FlagTruthful, the property       *)
(* itself; QuietInv, that a conversation without a stream has nothing      *)
(* buffered and that a batch is of the active stream unless a hazard       *)
(* touched it; CallsInv, that an active stream is of a call that has been  *)
(* sent and has no outcome, and that a complete answer is one whose        *)
(* backend has ended; and IdsInv, that no message of one conversation is   *)
(* ever listed, loaded or stored in another, so that a save or a removal   *)
(* cannot hit a foreign one.                                               *)
(*                                                                         *)
(* What is told of the texts does not look at the actions: it is proved of *)
(* Moves, what any step does seen from one conversation, and every action  *)
(* is shown to be such a move.  OrderInv keeps the tokens in order: no two *)
(* messages share an answer, and none shares one with the buffers or the   *)
(* active stream.  AnswersInv keeps the answers whole: the last message of *)
(* a stream that nothing disturbed is its own, still empty, and what is    *)
(* buffered is exactly what was sent.                                      *)
(***************************************************************************)
EXTENDS ChatStreams, WellFoundedInduction, SequenceTheorems, TLAPS

\* The least element of a set of numbers: NextAssistant chooses one.
Less == {p \in Nat \X Nat : p[1] < p[2]}
LEMMA LeastExists ==
  ASSUME NEW T \in SUBSET Nat, T # {}
  PROVE  \E m \in T : \A k \in T : m <= k
  <1>1. IsWellFoundedOn(Less, Nat)
    BY NatLessThanWellFounded DEF OpToRel, Less
  <1>2. \A m, k \in Nat : <<k, m>> \notin Less => m <= k
    BY DEF Less
  <1>3. PICK m \in T : \A k \in T : <<k, m>> \notin Less
    BY <1>1, WFMin
  <1> QED
    BY <1>2, <1>3

-----------------------------------------------------------------------------
(* The lists of messages.                                                  *)

\* The fields of a message.
LEMMA MessageFields ==
  ASSUME NEW ms \in Seq(Messages), NEW i \in DOMAIN ms
  PROVE  /\ ms[i] \in Messages
         /\ ms[i].id \in Reqs \X {"user", "assistant"} /\ ms[i].text \in Seq(Chunks)
         /\ ms[i].stopped \in BOOLEAN /\ ms[i].metrics \in Reqs \cup {None}
  <1>1. ms[i] \in Messages
    OBVIOUS
  <1> QED
    BY <1>1 DEF Messages

\* The request and the role an id is of.
LEMMA OwnersTyped ==
  ASSUME NEW ms \in Seq(Messages)
  PROVE  Owner(ms) \subseteq Reqs
  <1>1. CASE ms = <<>>
    BY <1>1 DEF Owner
  <1>2. CASE ms # <<>>
    <2>1. Len(ms) \in DOMAIN ms
      BY <1>2
    <2> QED
      BY <1>2, <2>1, MessageFields DEF Owner, Last
  <1> QED
    BY <1>1, <1>2

\* Without takes one message out and keeps the others in their order.
LEMMA WithoutKeeps ==
  ASSUME NEW ms \in Seq(Messages), NEW id, Distinct(ms)
  PROVE  /\ Without(ms, id) \in Seq(Messages)
         /\ Distinct(Without(ms, id))
         /\ id \notin IdsOf(Without(ms, id))
         /\ \A i \in DOMAIN Without(ms, id) : \E j \in DOMAIN ms : Without(ms, id)[i] = ms[j]
         /\ \A j \in DOMAIN ms : ms[j].id # id =>
              \E i \in DOMAIN Without(ms, id) : Without(ms, id)[i] = ms[j]
         /\ ms # <<>> /\ Last(ms).id # id =>
              Without(ms, id) # <<>> /\ Last(Without(ms, id)) = Last(ms)
  <1> DEFINE out == Without(ms, id)
             at == CHOOSE i \in DOMAIN ms : ms[i].id = id
  <1>1. CASE id \notin IdsOf(ms)
    <2>1. out = ms
      BY <1>1 DEF Without
    <2> QED
      BY <1>1, <2>1 DEF IdsOf
  <1>2. CASE id \in IdsOf(ms)
    <2>1. at \in 1 .. Len(ms) /\ ms[at].id = id
      BY <1>2 DEF IdsOf
    <2>2. out = [k \in 1 .. Len(ms) - 1 |-> IF k < at THEN ms[k] ELSE ms[k + 1]]
      BY <1>2 DEF Without
    <2> HIDE DEF at
    <2>3. Len(ms) - 1 \in Nat
      BY <2>1
    <2>4. \A k \in 1 .. Len(ms) - 1 : out[k] = IF k < at THEN ms[k] ELSE ms[k + 1]
      BY <2>2
    <2>5. out \in Seq(Messages) /\ Len(out) = Len(ms) - 1
      BY <2>1, <2>2, <2>3
    <2> HIDE DEF out
    <2>6. \A i \in DOMAIN out : \E j \in DOMAIN ms : j # at /\ out[i] = ms[j]
      BY <2>1, <2>4, <2>5
    <2>7. \A j \in DOMAIN ms : j # at => \E i \in DOMAIN out : out[i] = ms[j]
      <3> SUFFICES ASSUME NEW j \in DOMAIN ms, j # at
                   PROVE  \E i \in DOMAIN out : out[i] = ms[j]
        OBVIOUS
      <3>1. CASE j < at
        BY <2>1, <2>4, <2>5, <3>1
      <3>2. CASE j > at
        <4>1. j - 1 \in DOMAIN out /\ out[j - 1] = ms[j]
          BY <2>1, <2>4, <2>5, <3>2
        <4> QED
          BY <4>1
      <3> QED
        BY <2>1, <3>1, <3>2
    <2>8. Distinct(out)
      BY <2>1, <2>4, <2>5, SMTT(30) DEF Distinct
    <2>9. \A j \in DOMAIN ms : ms[j].id = id => j = at
      BY <2>1 DEF Distinct
    <2>10. id \notin IdsOf(out)
      BY <2>6, <2>9 DEF IdsOf
    <2>11. ms # <<>> /\ Last(ms).id # id => out # <<>> /\ Last(out) = Last(ms)
      BY <2>1, <2>4, <2>5 DEF Last
    <2> QED
      BY <2>1, <2>5, <2>6, <2>7, <2>8, <2>9, <2>10, <2>11 DEF out
  <1> QED
    BY <1>1, <1>2

\* A save replaces the message of its id or comes last.
LEMMA SavedKeeps ==
  ASSUME NEW ms \in Seq(Messages), NEW m \in Messages, Distinct(ms)
  PROVE  /\ Saved(ms, m) \in Seq(Messages)
         /\ Distinct(Saved(ms, m))
         /\ IdsOf(Saved(ms, m)) = IdsOf(ms) \cup {m.id}
         /\ \A i \in DOMAIN Saved(ms, m) :
              Saved(ms, m)[i] = m \/ \E j \in DOMAIN ms : Saved(ms, m)[i] = ms[j]
  <1> DEFINE out == Saved(ms, m)
  <1>1. CASE m.id \in IdsOf(ms)
    <2>1. out = [i \in DOMAIN ms |-> IF ms[i].id = m.id THEN m ELSE ms[i]]
      BY <1>1 DEF Saved
    <2> HIDE DEF out
    <2>2. DOMAIN out = DOMAIN ms /\ \A i \in DOMAIN ms : out[i].id = ms[i].id
      BY <2>1
    <2>3. out \in Seq(Messages)
      BY <2>1
    <2>4. Distinct(out)
      BY <2>2 DEF Distinct
    <2>5. IdsOf(out) = IdsOf(ms)
      BY <2>2 DEF IdsOf
    <2>6. \A i \in DOMAIN out : out[i] = m \/ \E j \in DOMAIN ms : out[i] = ms[j]
      BY <2>1
    <2> QED
      BY <1>1, <2>3, <2>4, <2>5, <2>6 DEF out
  <1>2. CASE m.id \notin IdsOf(ms)
    <2>1. out = Append(ms, m)
      BY <1>2 DEF Saved
    <2> HIDE DEF out
    <2>2. /\ out \in Seq(Messages) /\ DOMAIN out = 1 .. Len(ms) + 1
          /\ out[Len(ms) + 1] = m
          /\ \A i \in DOMAIN ms : out[i] = ms[i]
      BY <2>1
    <2>3. \A i \in DOMAIN out : i = Len(ms) + 1 \/ i \in DOMAIN ms
      BY <2>2
    <2>4. IdsOf(out) = IdsOf(ms) \cup {m.id}
      <3>1. IdsOf(out) \subseteq IdsOf(ms) \cup {m.id}
        BY <2>2, <2>3 DEF IdsOf
      <3>2. IdsOf(ms) \cup {m.id} \subseteq IdsOf(out)
        BY <2>2 DEF IdsOf
      <3> QED
        BY <3>1, <3>2
    <2>5. Distinct(out)
      BY <1>2, <2>2, <2>3 DEF Distinct, IdsOf
    <2> QED
      BY <2>2, <2>3, <2>4, <2>5 DEF out
  <1> QED
    BY <1>1, <1>2

\* updateLastMessage leaves all messages but the last, whose id it keeps.
Updated(ms, out, text, mark, metrics) ==
  /\ out \in Seq(Messages) /\ DOMAIN out = DOMAIN ms /\ Len(out) = Len(ms)
  /\ \A i \in DOMAIN ms : i # Len(ms) => out[i] = ms[i]
  /\ ms # <<>> =>
       /\ Len(ms) \in DOMAIN ms
       /\ Last(out).id = Last(ms).id
       /\ Last(out).text = Last(ms).text \o text
       /\ mark = "keep" => Last(out).stopped = Last(ms).stopped
       /\ mark = "clear" => Last(out).stopped = FALSE
       /\ Last(out).metrics = IF metrics = None THEN Last(ms).metrics ELSE metrics

\* Only the last answer of the conversation changes, and only as it is told.
LEMMA UpdatedLastEffect ==
  ASSUME NEW ms \in Seq(Messages), NEW text \in Seq(Chunks),
         NEW mark \in {"keep", "set", "clear"}, NEW metrics \in Reqs \cup {None}
  PROVE  Updated(ms, UpdatedLast(ms, text, mark, metrics), text, mark, metrics)
  <1>1. PICK out : out = UpdatedLast(ms, text, mark, metrics)
    OBVIOUS
  <1> DEFINE n == Len(ms)
             stopped == IF mark = "keep" THEN ms[n].stopped ELSE mark = "set"
             last == [id |-> ms[n].id, text |-> ms[n].text \o text, stopped |-> stopped,
                      metrics |-> IF metrics = None THEN ms[n].metrics ELSE metrics]
  <1>2. CASE ms = <<>>
    BY <1>1, <1>2 DEF UpdatedLast, Updated
  <1>3. CASE ms # <<>>
    <2>1. n \in DOMAIN ms /\ ms[n] \in Messages
      BY <1>3
    <2>2. out = [ms EXCEPT ![n] = last]
      BY <1>1, <1>3 DEF UpdatedLast
    <2>3. stopped \in BOOLEAN
      BY <2>1 DEF Messages
    <2>4. mark = "keep" => stopped = ms[n].stopped
      OBVIOUS
    <2>5. mark = "clear" => stopped = FALSE
      OBVIOUS
    <2> HIDE DEF stopped
    <2>6. last \in Messages
      BY <2>1, <2>3 DEF Messages
    <2>7. last.id = ms[n].id
      OBVIOUS
    <2>8. last.text = ms[n].text \o text
      OBVIOUS
    <2>9. last.stopped = stopped
      OBVIOUS
    <2>10. last.metrics = IF metrics = None THEN ms[n].metrics ELSE metrics
      OBVIOUS
    <2> HIDE DEF last
    <2>11. out \in Seq(Messages) /\ DOMAIN out = DOMAIN ms /\ Len(out) = n
      BY <2>1, <2>2, <2>6
    <2>12. Last(out) = last /\ Last(ms) = ms[n]
      BY <2>1, <2>2, <2>11 DEF Last
    <2>13. \A i \in DOMAIN ms : i # Len(ms) => out[i] = ms[i]
      BY <2>2
    <2>14. Last(out).id = Last(ms).id /\ Last(out).text = Last(ms).text \o text
      BY <2>7, <2>8, <2>12
    <2>15. mark = "keep" => Last(out).stopped = Last(ms).stopped
      BY <2>4, <2>9, <2>12
    <2>16. mark = "clear" => Last(out).stopped = FALSE
      BY <2>5, <2>9, <2>12
    <2>17. Last(out).metrics = IF metrics = None THEN Last(ms).metrics ELSE metrics
      BY <2>10, <2>12
    <2>18. Updated(ms, out, text, mark, metrics)
      BY <2>1, <2>11, <2>13, <2>14, <2>15, <2>16, <2>17 DEF Updated
    <2> QED
      BY <1>1, <2>18
  <1> QED
    BY <1>2, <1>3

\* The messages stay messages.
LEMMA UpdatedLastTyped ==
  ASSUME NEW ms \in Seq(Messages), NEW text \in Seq(Chunks),
         NEW mark \in {"keep", "set", "clear"}, NEW metrics \in Reqs \cup {None}
  PROVE  UpdatedLast(ms, text, mark, metrics) \in Seq(Messages)
  BY UpdatedLastEffect DEF Updated

\* No message gets another id or place.
LEMMA UpdatedLastSame ==
  ASSUME NEW ms \in Seq(Messages), NEW text, text = <<>>
  PROVE  UpdatedLast(ms, text, "keep", None) = ms
  <1> DEFINE n == Len(ms)
  <1>1. CASE ms = <<>>
    BY <1>1 DEF UpdatedLast
  <1>2. CASE ms # <<>>
    <2>1. n \in DOMAIN ms /\ ms[n] \in Messages
      BY <1>2
    <2>2. n \in DOMAIN ms /\ ms[n] \in Messages /\ ms[n].text \in Seq(Chunks)
      BY <2>1 DEF Messages
    <2>3. ms[n].text \o text = ms[n].text
      BY <2>2
    <2>4. UpdatedLast(ms, text, "keep", None) =
            [ms EXCEPT ![n] = [id |-> ms[n].id, text |-> ms[n].text \o text,
                               stopped |-> ms[n].stopped, metrics |-> ms[n].metrics]]
      BY <1>2 DEF UpdatedLast
    <2>5. ms[n] = [id |-> ms[n].id, text |-> ms[n].text, stopped |-> ms[n].stopped,
                   metrics |-> ms[n].metrics]
      BY <2>2 DEF Messages
    <2>6. UpdatedLast(ms, text, "keep", None) = [ms EXCEPT ![n] = ms[n]]
      BY <2>3, <2>4, <2>5
    <2> QED
      BY <2>2, <2>6
  <1> QED
    BY <1>1, <1>2

-----------------------------------------------------------------------------
(* The stores.                                                             *)

Streamers(s, C) == {c \in C : s.active[c] # None}
Flushed(s, c) == IF s.batch[c].req # None /\ s.active[c] = s.batch[c].req
                 THEN s.live[c] \o s.batch[c].text ELSE s.live[c]

\* What a store t has over the store s once the streams of the conversations
\* S are stopped for a reason, but for the messages.
Stopped(s, t, S, reason) ==
  /\ t \in Stores
  /\ \A c \in Convs :
       /\ t.batch[c] = NoBatch
       /\ c \in S => t.active[c] = None /\ t.live[c] = <<>> /\ t.metrics[c] = None
       /\ c \notin S => /\ t.active[c] = s.active[c]
                        /\ t.live[c] = Flushed(s, c)
                        /\ t.metrics[c] = s.metrics[c]
  /\ t.streaming <=> \E c \in Convs : t.active[c] # None
  /\ \A r \in Requests :
       t.outcome[r] = IF \E c \in S : s.active[c] = r THEN reason ELSE s.outcome[r]

\* And what becomes of the messages.
Marked(s, t, S, reason) ==
  \A c \in Convs :
    t.msgs[c] = IF c \in S
                THEN UpdatedLast(s.msgs[c], Flushed(s, c), StoppedMarker(reason), s.metrics[c])
                ELSE s.msgs[c]

Completed(s, t, c, r) == t.msgs[c] = UpdatedLast(s.msgs[c], Flushed(s, c), "clear", r)
Rejected(s, t, c, r) ==
  t.msgs[c] = UpdatedLast(UpdatedLast(s.msgs[c], Flushed(s, c), "keep", None),
                          <<<<r, 0>>>>, "keep", None)
Elsewhere(s, t, c) == \A d \in Convs \ {c} : t.msgs[d] = s.msgs[d]

\* The fields of the store.
LEMMA StoreFields ==
  ASSUME NEW s \in Stores
  PROVE  /\ s.msgs \in [Convs -> Seq(Messages)] /\ s.live \in [Convs -> Seq(Chunks)]
         /\ s.metrics \in [Convs -> Requests \cup {None}]
         /\ s.active \in [Convs -> Requests \cup {None}]
         /\ s.batch \in [Convs -> [req : Requests \cup {None}, text : Seq(Chunks)]]
         /\ s.streaming \in BOOLEAN /\ s.outcome \in [Requests -> Outcomes]
  BY DEF Stores

\* The empty batch.
LEMMA NoBatchTyped == NoBatch \in [req : Requests \cup {None}, text : Seq(Chunks)]
  BY DEF NoBatch

\* A flush moves the batch to the text.
LEMMA FlushedTyped ==
  ASSUME NEW s \in Stores, NEW c \in Convs
  PROVE  Flushed(s, c) \in Seq(Chunks)
  <1>1. s.live[c] \in Seq(Chunks) /\ s.batch[c].text \in Seq(Chunks)
    BY StoreFields
  <1> QED
    BY <1>1 DEF Flushed

\* A flush, field by field.
LEMMA FlushEffect ==
  ASSUME NEW s \in Stores
  PROVE  /\ FlushPendingBatches(s) \in Stores
         /\ FlushPendingBatches(s).msgs = s.msgs
         /\ FlushPendingBatches(s).live = [c \in Convs |-> Flushed(s, c)]
         /\ FlushPendingBatches(s).metrics = s.metrics
         /\ FlushPendingBatches(s).active = s.active
         /\ FlushPendingBatches(s).batch = [c \in Convs |-> NoBatch]
         /\ FlushPendingBatches(s).streaming = s.streaming
         /\ FlushPendingBatches(s).outcome = s.outcome
  <1> DEFINE live == [c \in Convs |-> Flushed(s, c)]
             batch == [c \in Convs |-> NoBatch]
  <1>1. FlushPendingBatches(s) = [s EXCEPT !.live = live, !.batch = batch]
    BY DEF FlushPendingBatches, Flushed
  <1>2. live \in [Convs -> Seq(Chunks)]
    BY FlushedTyped
  <1>3. batch \in [Convs -> [req : Requests \cup {None}, text : Seq(Chunks)]]
    BY NoBatchTyped
  <1> HIDE DEF live, batch
  <1> QED
    BY <1>1, <1>2, <1>3 DEF Stores, live, batch

\* Nothing is stopped where nothing streams.
LEMMA StopNothing ==
  ASSUME NEW s, NEW C, NEW reason, Streamers(s, C) = {}
  PROVE  Stop(s, C, reason) = s
  BY DEF Stop, Streamers

\* A stop, field by field.
LEMMA StopEffect ==
  ASSUME NEW s \in Stores, NEW C \in SUBSET Convs, Streamers(s, C) # {},
         NEW reason \in {"complete", "abort", "error"}, NEW t, t = Stop(s, C, reason)
  PROVE  Stopped(s, t, Streamers(s, C), reason) /\ Marked(s, t, Streamers(s, C), reason)
  <1> DEFINE S == Streamers(s, C)
             d == FlushPendingBatches(s)
             msgs == [c \in Convs |->
                        IF c \in S THEN UpdatedLast(s.msgs[c], Flushed(s, c),
                                                    StoppedMarker(reason), s.metrics[c])
                        ELSE s.msgs[c]]
             live == [c \in Convs |-> IF c \in S THEN <<>> ELSE Flushed(s, c)]
             metrics == [c \in Convs |-> IF c \in S THEN None ELSE s.metrics[c]]
             active == [c \in Convs |-> IF c \in S THEN None ELSE s.active[c]]
             streaming == StillStreaming(S, s.active)
             outcome == [r \in Requests |-> IF \E c \in S : s.active[c] = r THEN reason
                                            ELSE s.outcome[r]]
  <1>1. t = [d EXCEPT !.msgs = msgs, !.live = live, !.metrics = metrics, !.active = active,
                      !.streaming = streaming, !.outcome = outcome]
    <2>1. /\ d.msgs = s.msgs /\ d.live = [c \in Convs |-> Flushed(s, c)]
          /\ d.metrics = s.metrics /\ d.active = s.active /\ d.outcome = s.outcome
      BY FlushEffect
    <2> DEFINE dmsgs == [c \in Convs |->
                           IF c \in S THEN UpdatedLast(d.msgs[c], d.live[c],
                                                      StoppedMarker(reason), d.metrics[c])
                           ELSE d.msgs[c]]
               dlive == [c \in Convs |-> IF c \in S THEN <<>> ELSE d.live[c]]
               dmetrics == [c \in Convs |-> IF c \in S THEN None ELSE d.metrics[c]]
               dactive == [c \in Convs |-> IF c \in S THEN None ELSE d.active[c]]
               doutcome == [r \in Requests |-> IF \E c \in S : s.active[c] = r THEN reason
                                               ELSE d.outcome[r]]
    <2>2. t = [d EXCEPT !.msgs = dmsgs, !.live = dlive, !.metrics = dmetrics,
                        !.active = dactive, !.streaming = StillStreaming(S, d.active),
                        !.outcome = doutcome]
      BY DEF Stop, Streamers, Drained
    <2>3. S \subseteq Convs
      BY DEF Streamers
    <2> HIDE DEF d, S
    <2>4. dmsgs = msgs
      BY <2>1
    <2>5. dlive = live
      BY <2>1
    <2>6. dmetrics = metrics /\ dactive = active
      BY <2>1
    <2>7. doutcome = outcome
      BY <2>1
    <2> HIDE DEF msgs, live, metrics, active, outcome, dmsgs, dlive, dmetrics, dactive, doutcome
    <2> QED
      BY <2>1, <2>2, <2>4, <2>5, <2>6, <2>7
  <1>2. msgs \in [Convs -> Seq(Messages)]
    <2>1. StoppedMarker(reason) \in {"keep", "set", "clear"}
      BY DEF StoppedMarker
    <2>2. \A c \in Convs : s.msgs[c] \in Seq(Messages) /\ s.metrics[c] \in Reqs \cup {None}
      BY StoreFields DEF Reqs
    <2>3. \A c \in Convs : UpdatedLast(s.msgs[c], Flushed(s, c), StoppedMarker(reason),
                                       s.metrics[c]) \in Seq(Messages)
      BY <2>1, <2>2, FlushedTyped, UpdatedLastTyped
    <2> QED
      BY <2>2, <2>3
  <1>3. live \in [Convs -> Seq(Chunks)]
    BY FlushedTyped
  <1>4. metrics \in [Convs -> Requests \cup {None}] /\ active \in [Convs -> Requests \cup {None}]
    BY StoreFields
  <1>5. streaming \in BOOLEAN
    BY DEF StillStreaming
  <1>6. outcome \in [Requests -> Outcomes]
    BY StoreFields DEF Outcomes
  <1>7. \A c \in Convs : active[c] = IF c \in S THEN None ELSE s.active[c]
    OBVIOUS
  <1>8. streaming <=> \E c \in Convs : active[c] # None
    BY <1>7 DEF StillStreaming
  <1>9. /\ t \in Stores
        /\ t.msgs = msgs /\ t.live = live /\ t.metrics = metrics /\ t.active = active
        /\ t.streaming = streaming /\ t.outcome = outcome /\ t.batch = [c \in Convs |-> NoBatch]
    <2> HIDE DEF msgs, live, metrics, active, streaming, outcome
    <2>1. d \in Stores /\ d.batch = [c \in Convs |-> NoBatch]
      BY FlushEffect
    <2> HIDE DEF d
    <2> QED
      BY <1>1, <1>2, <1>3, <1>4, <1>5, <1>6, <2>1, ZenonT(30) DEF Stores
  <1> HIDE DEF streaming
  <1>10. Stopped(s, t, S, reason)
    BY <1>8, <1>9 DEF Stopped
  <1>11. Marked(s, t, S, reason)
    BY <1>9 DEF Marked
  <1> QED
    BY <1>10, <1>11

\* The stop of one conversation.
LEMMA StopOne ==
  ASSUME NEW s \in Stores, NEW c \in Convs, s.active[c] # None,
         NEW reason \in {"complete", "abort", "error"}, NEW t, t = Stop(s, {c}, reason)
  PROVE  Stopped(s, t, {c}, reason) /\ Marked(s, t, {c}, reason)
  <1>1. {c} \in SUBSET Convs
    OBVIOUS
  <1>2. Streamers(s, {c}) = {c}
    BY DEF Streamers
  <1>3. Streamers(s, {c}) # {}
    BY <1>2
  <1>4. Stopped(s, t, Streamers(s, {c}), reason)
    BY <1>1, <1>3, StopEffect
  <1>5. Marked(s, t, Streamers(s, {c}), reason)
    BY <1>1, <1>3, StopEffect
  <1> QED
    BY <1>2, <1>4, <1>5

\* Only the conversation stopped may differ in its buffers.
LEMMA StoppedFrom ==
  ASSUME NEW s, NEW m, NEW t, NEW c, NEW reason, Stopped(m, t, {c}, reason),
         m.active = s.active, m.outcome = s.outcome,
         \A d \in Convs \ {c} : m.metrics[d] = s.metrics[d] /\ Flushed(m, d) = Flushed(s, d)
  PROVE  Stopped(s, t, {c}, reason)
  <1>1. t \in Stores /\ (t.streaming <=> \E d \in Convs : t.active[d] # None)
    BY DEF Stopped
  <1>2. \A d \in Convs :
          /\ t.batch[d] = NoBatch
          /\ d \in {c} => t.active[d] = None /\ t.live[d] = <<>> /\ t.metrics[d] = None
          /\ d \notin {c} => t.active[d] = s.active[d]
    BY DEF Stopped
  <1>3. \A d \in Convs : d \notin {c} => t.live[d] = Flushed(m, d) /\ t.metrics[d] = m.metrics[d]
    BY DEF Stopped
  <1>4. \A q \in Requests :
          t.outcome[q] = IF \E d \in {c} : m.active[d] = q THEN reason ELSE m.outcome[q]
    BY DEF Stopped
  <1>5. \A q \in Requests :
          t.outcome[q] = IF \E d \in {c} : s.active[d] = q THEN reason ELSE s.outcome[q]
    BY <1>4
  <1>6. \A d \in Convs : d \notin {c} => t.live[d] = Flushed(s, d) /\ t.metrics[d] = s.metrics[d]
    BY <1>3
  <1> QED
    BY <1>1, <1>2, <1>5, <1>6 DEF Stopped

\* A token goes to the batch of its conversation.
LEMMA BufferEffect ==
  ASSUME NEW s \in Stores, NEW c \in Convs, NEW r \in Requests, NEW token \in Seq(Chunks),
         NEW t, t = BufferToken(s, c, r, token)
  PROVE  /\ t \in Stores
         /\ t.msgs = s.msgs /\ t.live = s.live /\ t.metrics = s.metrics /\ t.active = s.active
         /\ t.streaming = s.streaming /\ t.outcome = s.outcome
         /\ t.batch = [s.batch EXCEPT
                         ![c] = [req |-> IF s.batch[c].req = None THEN r ELSE s.batch[c].req,
                                 text |-> IF s.batch[c].req = None THEN token
                                          ELSE s.batch[c].text \o token]]
  <1> DEFINE b == s.batch[c]
             new == IF b.req = None THEN [req |-> r, text |-> token]
                    ELSE [req |-> b.req, text |-> b.text \o token]
  <1>1. b \in [req : Requests \cup {None}, text : Seq(Chunks)]
    BY StoreFields
  <1>2. t = [s EXCEPT !.batch = [@ EXCEPT ![c] = new]]
    BY DEF BufferToken
  <1> HIDE DEF b
  <1>3. new = [req |-> IF b.req = None THEN r ELSE b.req,
               text |-> IF b.req = None THEN token ELSE b.text \o token]
    OBVIOUS
  <1>4. new \in [req : Requests \cup {None}, text : Seq(Chunks)]
    BY <1>1, <1>3
  <1> HIDE DEF new
  <1>5. [s.batch EXCEPT ![c] = new] \in [Convs -> [req : Requests \cup {None}, text : Seq(Chunks)]]
    BY <1>4, StoreFields
  <1> QED
    BY <1>2, <1>3, <1>5 DEF Stores, b

\* The done token of the stream of c.
LEMMA DoneEffect ==
  ASSUME StreamsAssumption, NEW s \in Stores, NEW c \in Convs, NEW r \in Requests,
         s.active[c] = r,
         NEW t, t = Stop(SetPendingMetrics(BufferToken(s, c, r, <<>>), c, r), {c}, "complete")
  PROVE  /\ Stopped(s, t, {c}, "complete")
         /\ Completed(s, t, c, r)
         /\ Elsewhere(s, t, c)
  <1>1. PICK empty \in Seq(Chunks) : empty = <<>>
    BY EmptySeq
  <1>2. PICK b : b = BufferToken(s, c, r, empty)
    OBVIOUS
  <1>3. /\ b \in Stores
        /\ b.msgs = s.msgs /\ b.live = s.live /\ b.metrics = s.metrics /\ b.active = s.active
        /\ b.streaming = s.streaming /\ b.outcome = s.outcome
        /\ b.batch = [s.batch EXCEPT
                        ![c] = [req |-> IF s.batch[c].req = None THEN r ELSE s.batch[c].req,
                                text |-> IF s.batch[c].req = None THEN empty
                                         ELSE s.batch[c].text \o empty]]
    BY <1>2, BufferEffect, SMTT(30)
  <1>4. PICK m : m = SetPendingMetrics(b, c, r)
    OBVIOUS
  <1>5. m = [b EXCEPT !.metrics = [b.metrics EXCEPT ![c] = r]]
    BY <1>3, <1>4 DEF SetPendingMetrics
  <1>6. [b.metrics EXCEPT ![c] = r] \in [Convs -> Requests \cup {None}]
    BY <1>3, StoreFields
  <1>7. /\ m \in Stores
        /\ m.msgs = s.msgs /\ m.live = s.live /\ m.active = s.active
        /\ m.outcome = s.outcome /\ m.batch = b.batch
        /\ m.metrics = [s.metrics EXCEPT ![c] = r]
    BY <1>3, <1>5, <1>6 DEF Stores
  <1>8. \A d \in Convs : Flushed(m, d) = Flushed(s, d)
    <2> SUFFICES ASSUME NEW d \in Convs
                 PROVE  Flushed(m, d) = Flushed(s, d)
      OBVIOUS
    <2>1. CASE d # c
      BY <1>3, <1>7, <2>1, StoreFields DEF Flushed
    <2>2. CASE d = c
      <3>1. s.live[c] \in Seq(Chunks) /\ s.batch[c].text \in Seq(Chunks)
        BY StoreFields
      <3>2. s.live[c] \o empty = s.live[c] /\ s.batch[c].text \o empty = s.batch[c].text
        BY <1>1, <3>1
      <3>3. s.batch \in [Convs -> [req : Requests \cup {None}, text : Seq(Chunks)]]
        BY StoreFields
      <3>4. m.batch[c].req = (IF s.batch[c].req = None THEN r ELSE s.batch[c].req)
            /\ m.batch[c].text = (IF s.batch[c].req = None THEN empty ELSE s.batch[c].text)
        BY <1>3, <1>7, <3>2, <3>3
      <3> QED
        BY <1>7, <2>2, <3>2, <3>4, StreamsAssumption DEF Flushed
    <2> QED
      BY <2>1, <2>2
  <1>9. m.active[c] # None /\ m.metrics[c] = r
    BY <1>7, StreamsAssumption, StoreFields
  <1>10. t = Stop(m, {c}, "complete")
    BY <1>1, <1>2, <1>4
  <1>11. Stopped(m, t, {c}, "complete")
    BY <1>7, <1>9, <1>10, StopOne
  <1>12. Marked(m, t, {c}, "complete")
    BY <1>7, <1>9, <1>10, StopOne
  <1>13. Stopped(s, t, {c}, "complete")
    <2>1. \A d \in Convs \ {c} : m.metrics[d] = s.metrics[d]
      BY <1>7, StoreFields
    <2>2. \A d \in Convs \ {c} : m.metrics[d] = s.metrics[d] /\ Flushed(m, d) = Flushed(s, d)
      BY <1>8, <2>1
    <2>3. m.active = s.active /\ m.outcome = s.outcome
      BY <1>7
    <2> QED
      BY <1>11, <2>2, <2>3, StoppedFrom, Zenon
  <1>14. Completed(s, t, c, r)
    BY <1>7, <1>8, <1>9, <1>12 DEF Marked, StoppedMarker, Completed
  <1>15. Elsewhere(s, t, c)
    BY <1>7, <1>12 DEF Marked, Elsewhere
  <1> QED
    BY <1>13, <1>14, <1>15

\* The rejection of a chat call whose conversation streams.
LEMMA RejectEffect ==
  ASSUME StreamsAssumption, NEW s \in Stores, NEW c \in Convs, NEW r \in Requests,
         s.active[c] # None, s.metrics[c] = None,
         NEW told, told = [FlushAndStop(s, c) EXCEPT
                             !.msgs[c] = UpdatedLast(@, <<<<r, 0>>>>, "keep", None)],
         NEW t, t = Stop(told, {c}, "error")
  PROVE  /\ Stopped(s, t, {c}, "error")
         /\ Rejected(s, t, c, r)
         /\ Elsewhere(s, t, c)
  <1>1. PICK f : f = FlushPendingBatches(s)
    OBVIOUS
  <1>2. PICK keep \in {"keep", "set", "clear"}, none \in Reqs \cup {None}, error \in Seq(Chunks) :
          keep = "keep" /\ none = None /\ error = <<<<r, 0>>>>
    <2>1. <<r, 0>> \in Chunks
      BY StreamsAssumption DEF Chunks, Reqs
    <2>2. <<<<r, 0>>>> \in Seq(Chunks)
      BY <2>1
    <2> QED
      BY <2>2
  <1>3. PICK first : first = UpdatedLast(s.msgs[c], Flushed(s, c), keep, none)
    OBVIOUS
  <1>4. PICK second : second = UpdatedLast(first, error, keep, none)
    OBVIOUS
  <1>5. s.msgs[c] \in Seq(Messages)
    BY StoreFields
  <1>6. first \in Seq(Messages)
    BY <1>3, <1>5, FlushedTyped, UpdatedLastTyped
  <1>7. second \in Seq(Messages)
    BY <1>4, <1>6, UpdatedLastTyped
  <1>8. UpdatedLast(second, <<>>, "keep", None) = second
    BY <1>7, UpdatedLastSame
  <1>9. /\ f \in Stores
        /\ f.msgs = s.msgs /\ f.live = [d \in Convs |-> Flushed(s, d)]
        /\ f.metrics = s.metrics /\ f.active = s.active /\ f.batch = [d \in Convs |-> NoBatch]
        /\ f.streaming = s.streaming /\ f.outcome = s.outcome
    BY <1>1, FlushEffect
  <1>10. PICK p : p = FlushAndStop(s, c)
    OBVIOUS
  <1>11. p = [f EXCEPT !.msgs = [f.msgs EXCEPT ![c] = first],
                       !.live = [f.live EXCEPT ![c] = <<>>],
                       !.metrics = [f.metrics EXCEPT ![c] = None]]
    <2>1. f.live[c] = Flushed(s, c) /\ f.metrics[c] = none /\ f.msgs[c] = s.msgs[c]
      BY <1>2, <1>9
    <2>2. p = [f EXCEPT !.msgs = [f.msgs EXCEPT ![c] = UpdatedLast(f.msgs[c], f.live[c], keep,
                                                                   f.metrics[c])],
                        !.live = [f.live EXCEPT ![c] = <<>>],
                        !.metrics = [f.metrics EXCEPT ![c] = None]]
      BY <1>1, <1>2, <1>10 DEF FlushAndStop, Drained
    <2> QED
      BY <1>3, <2>1, <2>2
  <1>12. p.msgs = [s.msgs EXCEPT ![c] = first] /\ p.msgs[c] = first
    BY <1>9, <1>11, StoreFields DEF Stores
  <1>13. told = [p EXCEPT !.msgs = [p.msgs EXCEPT ![c] = second]]
    BY <1>2, <1>4, <1>10, <1>12
  <1>14. /\ told \in Stores
         /\ told.msgs = [s.msgs EXCEPT ![c] = second]
         /\ told.live = [f.live EXCEPT ![c] = <<>>]
         /\ told.metrics = [s.metrics EXCEPT ![c] = None]
         /\ told.active = s.active /\ told.batch = f.batch /\ told.outcome = s.outcome
    <2> DEFINE msgs == [f.msgs EXCEPT ![c] = second]
               live == [f.live EXCEPT ![c] = <<>>]
               metrics == [f.metrics EXCEPT ![c] = None]
               kept == [f.msgs EXCEPT ![c] = first]
    <2>1. msgs \in [Convs -> Seq(Messages)]
      BY <1>7, <1>9, StoreFields
    <2>2. live \in [Convs -> Seq(Chunks)]
      BY <1>9, StoreFields
    <2>3. metrics \in [Convs -> Requests \cup {None}]
      BY <1>9, StoreFields
    <2>4. [p.msgs EXCEPT ![c] = second] = msgs
      BY <1>9, <1>12, StoreFields
    <2>5. p = [f EXCEPT !.msgs = kept, !.live = live, !.metrics = metrics]
      BY <1>11
    <2>6. told = [p EXCEPT !.msgs = msgs]
      BY <1>13, <2>4
    <2>7. msgs = [s.msgs EXCEPT ![c] = second] /\ metrics = [s.metrics EXCEPT ![c] = None]
      BY <1>9
    <2> HIDE DEF msgs, live, metrics, kept
    <2>8. told.msgs = msgs /\ told.live = live /\ told.metrics = metrics
      BY <1>9, <2>5, <2>6 DEF Stores
    <2>9. told.active = f.active /\ told.batch = f.batch /\ told.outcome = f.outcome
      BY <1>9, <2>5, <2>6 DEF Stores
    <2>10. told \in Stores
      BY <1>9, <2>1, <2>2, <2>3, <2>5, <2>6, ZenonT(30) DEF Stores
    <2> QED
      BY <1>9, <2>7, <2>8, <2>9, <2>10 DEF live
  <1>15. \A d \in Convs : Flushed(told, d) = IF d = c THEN <<>> ELSE Flushed(s, d)
    <2>1. \A d \in Convs : told.batch[d].req = None
      BY <1>9, <1>14 DEF NoBatch
    <2>2. \A d \in Convs : told.live[d] = IF d = c THEN <<>> ELSE Flushed(s, d)
      BY <1>9, <1>14
    <2> QED
      BY <2>1, <2>2 DEF Flushed
  <1>16. told.active[c] # None /\ Flushed(told, c) = <<>>
    BY <1>14, <1>15
  <1>17. told.metrics[c] = None /\ told.msgs[c] = second
    <2>1. DOMAIN s.msgs = Convs /\ DOMAIN s.metrics = Convs
      BY StoreFields
    <2> QED
      BY <1>14, <2>1
  <1>18. Stopped(told, t, {c}, "error")
    BY <1>14, <1>16, StopOne
  <1>19. Marked(told, t, {c}, "error")
    BY <1>14, <1>16, StopOne
  <1>20. Stopped(s, t, {c}, "error")
    <2>1. \A d \in Convs \ {c} : told.metrics[d] = s.metrics[d]
      BY <1>14, StoreFields
    <2>2. \A d \in Convs \ {c} : told.metrics[d] = s.metrics[d] /\ Flushed(told, d) = Flushed(s, d)
      BY <1>15, <2>1
    <2>3. told.active = s.active /\ told.outcome = s.outcome
      BY <1>14
    <2> QED
      <3> SUFFICES ASSUME NEW m, Stopped(m, t, {c}, "error"),
                          m.active = s.active, m.outcome = s.outcome,
                          \A d \in Convs \ {c} :
                            m.metrics[d] = s.metrics[d] /\ Flushed(m, d) = Flushed(s, d)
                   PROVE  Stopped(s, t, {c}, "error")
        BY <1>18, <2>2, <2>3
      <3> QED
        BY StoppedFrom, Zenon
  <1>21. t.msgs[c] = second
    BY <1>8, <1>16, <1>17, <1>19 DEF Marked, StoppedMarker
  <1>22. Elsewhere(s, t, c)
    <2>1. \A d \in Convs \ {c} : told.msgs[d] = s.msgs[d]
      BY <1>14, StoreFields
    <2>2. \A d \in Convs \ {c} : t.msgs[d] = told.msgs[d]
      BY <1>19 DEF Marked
    <2> QED
      BY <2>1, <2>2 DEF Elsewhere
  <1>23. Rejected(s, t, c, r)
    BY <1>2, <1>3, <1>4, <1>21 DEF Rejected
  <1> QED
    BY <1>20, <1>22, <1>23

-----------------------------------------------------------------------------
(* The invariant under the types and the flag.                             *)

\* The requests whose messages were added to c.
Sent(c) == {r \in Requests : calls[r].conv = c /\ calls[r].pc \in {"chat", "done"}}

\* A list of messages with no id twice, of requests of R and the old turn.
Own(ms, R) ==
  /\ Distinct(ms)
  /\ \A i \in DOMAIN ms : ms[i].id[1] \in Requests => ms[i].id[1] \in R

IdsInv ==
  /\ \A c \in Convs : Own(store.msgs[c], Sent(c)) /\ Own(stored[c], Sent(c))
  /\ \A c \in Convs : \A ms \in loads[c] : Own(ms, Sent(c))
  /\ \A b \in booting : Own(b[2], Sent(b[1]))
  /\ \A r \in Requests : calls[r].edit # None /\ calls[r].edit[1] \in Requests =>
       calls[r].edit[1] \in Sent(calls[r].conv)

\* Where a send is and what became of its stream.
CallsInv ==
  /\ \A c \in Convs : store.active[c] # None =>
       /\ calls[store.active[c]].conv = c
       /\ calls[store.active[c]].pc # "new"
       /\ store.outcome[store.active[c]] = "none"
  /\ \A r \in Requests :
       /\ calls[r].pc # "new" => calls[r].conv \in Convs
       /\ calls[r].pc \in {"new", "rag"} => backend[r] = "none" /\ sent[r] = 0
       /\ calls[r].pc = "new" => store.outcome[r] = "none" /\ calls[r].edit = None
       /\ store.outcome[r] = "complete" => backend[r] = "ended"
       /\ calls[r].drop # None => edits > 0

\* What the buffers of a conversation hold.
QuietInv ==
  \A c \in Convs :
    /\ store.metrics[c] = None
    /\ store.active[c] = None => store.live[c] = <<>> /\ store.batch[c] = NoBatch
    /\ store.batch[c].req = None => store.batch[c].text = <<>>
    /\ store.batch[c].req # None /\ store.batch[c].req \notin disturbed
         => store.active[c] = store.batch[c].req

Inv == TypeOK /\ FlagTruthful /\ QuietInv /\ CallsInv /\ IdsInv

\* The store is of its type when its fields are.
LEMMA StoreTyped ==
  ASSUME TypeOK
  PROVE  /\ store \in Stores
         /\ store.msgs \in [Convs -> Seq(Messages)] /\ store.live \in [Convs -> Seq(Chunks)]
         /\ store.metrics \in [Convs -> Requests \cup {None}]
         /\ store.active \in [Convs -> Requests \cup {None}]
         /\ store.batch \in [Convs -> [req : Requests \cup {None}, text : Seq(Chunks)]]
         /\ store.streaming \in BOOLEAN /\ store.outcome \in [Requests -> Outcomes]
  <1>1. store \in Stores
    BY DEF TypeOK
  <1> QED
    BY <1>1, StoreFields

\* Stopping keeps the flag and leaves nothing behind.
LEMMA StopKeepsQuiet ==
  ASSUME TypeOK, QuietInv, NEW S \in SUBSET Convs, NEW reason,
         Stopped(store, store', S, reason)
  PROVE  FlagTruthful' /\ QuietInv'
  <1>1. FlagTruthful'
    BY DEF Stopped, FlagTruthful
  <1>2. \A c \in Convs : store'.metrics[c] = None
    BY DEF Stopped, QuietInv
  <1>3. \A c \in Convs : store'.batch[c] = NoBatch
    BY DEF Stopped
  <1>4. \A c \in Convs : store'.active[c] = None => store'.live[c] = <<>>
    <2> SUFFICES ASSUME NEW c \in Convs, store'.active[c] = None
                 PROVE  store'.live[c] = <<>>
      OBVIOUS
    <2>1. CASE c \in S
      BY <2>1 DEF Stopped
    <2>2. CASE c \notin S
      <3>1. store.active[c] = None /\ store'.live[c] = Flushed(store, c)
        BY <2>2 DEF Stopped
      <3>2. store.live[c] = <<>> /\ store.batch[c].req = None
        BY <3>1 DEF QuietInv, NoBatch
      <3> QED
        BY <3>1, <3>2 DEF Flushed
    <2> QED
      BY <2>1, <2>2
  <1> QED
    BY <1>1, <1>2, <1>3, <1>4 DEF QuietInv, NoBatch

\* A change of the messages alone keeps both.
LEMMA MessagesKeepQuiet ==
  ASSUME TypeOK, FlagTruthful, QuietInv, disturbed \subseteq disturbed',
         store'.live = store.live, store'.metrics = store.metrics,
         store'.active = store.active, store'.batch = store.batch,
         store'.streaming = store.streaming
  PROVE  FlagTruthful' /\ QuietInv'
  <1>1. FlagTruthful'
    BY DEF FlagTruthful
  <1>2. QuietInv'
    BY DEF QuietInv
  <1> QED
    BY <1>1, <1>2

-----------------------------------------------------------------------------
(* The lists a conversation draws on.                                      *)

SameIds(ms, out) == DOMAIN out = DOMAIN ms /\ \A i \in DOMAIN ms : out[i].id = ms[i].id

\* Updating the last answer leaves the ids.
LEMMA UpdatedLastIds ==
  ASSUME NEW ms \in Seq(Messages), NEW text \in Seq(Chunks),
         NEW mark \in {"keep", "set", "clear"}, NEW metrics \in Reqs \cup {None}
  PROVE  SameIds(ms, UpdatedLast(ms, text, mark, metrics))
  <1>1. PICK out : out = UpdatedLast(ms, text, mark, metrics)
    OBVIOUS
  <1>2. Updated(ms, out, text, mark, metrics)
    BY <1>1, UpdatedLastEffect
  <1>3. /\ DOMAIN out = DOMAIN ms /\ out \in Seq(Messages)
        /\ \A i \in DOMAIN ms : i # Len(ms) => out[i] = ms[i]
        /\ Len(out) = Len(ms)
    BY <1>2 DEF Updated
  <1>4. ms # <<>> => Last(out).id = Last(ms).id
    BY <1>2 DEF Updated
  <1>5. \A i \in DOMAIN ms : out[i].id = ms[i].id
    BY <1>3, <1>4 DEF Last
  <1> QED
    BY <1>1, <1>3, <1>5 DEF SameIds

\* So does marking answers as stopped.
LEMMA MarkedIds ==
  ASSUME NEW s \in Stores, NEW t, NEW S \in SUBSET Convs,
         NEW reason \in {"complete", "abort", "error"}, Marked(s, t, S, reason)
  PROVE  \A c \in Convs : SameIds(s.msgs[c], t.msgs[c])
  <1> SUFFICES ASSUME NEW c \in Convs
               PROVE  SameIds(s.msgs[c], t.msgs[c])
    OBVIOUS
  <1>1. CASE c \in S
    <2>1. StoppedMarker(reason) \in {"keep", "set", "clear"}
      BY DEF StoppedMarker
    <2>2. s.msgs[c] \in Seq(Messages) /\ s.metrics[c] \in Reqs \cup {None}
      BY StoreFields DEF Reqs
    <2>3. SameIds(s.msgs[c],
                  UpdatedLast(s.msgs[c], Flushed(s, c), StoppedMarker(reason), s.metrics[c]))
      BY <2>1, <2>2, FlushedTyped, UpdatedLastIds
    <2> QED
      BY <1>1, <2>3 DEF Marked
  <1>2. CASE c \notin S
    BY <1>2 DEF Marked, SameIds
  <1> QED
    BY <1>1, <1>2

\* Messages of the own stay so.
LEMMA OwnStays ==
  ASSUME NEW ms, NEW R, NEW T, Own(ms, R), R \subseteq T
  PROVE  Own(ms, T)
  BY DEF Own

\* So do lists with the same ids.
LEMMA OwnSameIds ==
  ASSUME NEW ms, NEW out, NEW R, Own(ms, R), SameIds(ms, out)
  PROVE  Own(out, R)
  BY DEF Own, SameIds, Distinct

\* So does a list that loses a message.
LEMMA OwnWithout ==
  ASSUME NEW ms \in Seq(Messages), NEW id, NEW R, Own(ms, R)
  PROVE  Own(Without(ms, id), R)
  <1>1. Distinct(ms)
    BY DEF Own
  <1>2. Distinct(Without(ms, id))
    BY <1>1, WithoutKeeps
  <1>3. \A i \in DOMAIN Without(ms, id) : \E j \in DOMAIN ms : Without(ms, id)[i] = ms[j]
    BY <1>1, WithoutKeeps
  <1> QED
    BY <1>2, <1>3 DEF Own

\* So does one that a message is saved in.
LEMMA OwnSaved ==
  ASSUME NEW ms \in Seq(Messages), NEW m \in Messages, NEW R, Own(ms, R),
         m.id[1] \in Requests => m.id[1] \in R
  PROVE  Own(Saved(ms, m), R)
  <1>1. Distinct(ms)
    BY DEF Own
  <1>2. Distinct(Saved(ms, m))
    BY <1>1, SavedKeeps
  <1>3. \A i \in DOMAIN Saved(ms, m) :
          Saved(ms, m)[i] = m \/ \E j \in DOMAIN ms : Saved(ms, m)[i] = ms[j]
    BY <1>1, SavedKeeps
  <1> QED
    BY <1>2, <1>3 DEF Own

\* So does one that gets a message of the conversation.
LEMMA OwnAppended ==
  ASSUME NEW ms \in Seq(Messages), NEW new \in Seq(Messages), NEW R,
         Own(ms, R), Own(new, R), IdsOf(ms) \cap IdsOf(new) = {}
  PROVE  Own(ms \o new, R)
  <1> DEFINE out == ms \o new
             n == Len(ms)
  <1>1. /\ n \in Nat /\ DOMAIN out = 1 .. n + Len(new) /\ Len(new) \in Nat
        /\ \A i \in DOMAIN out : IF i <= n THEN i \in DOMAIN ms /\ out[i] = ms[i]
                                  ELSE i - n \in DOMAIN new /\ out[i] = new[i - n]
    OBVIOUS
  <1> HIDE DEF out, n
  <1>2. \A i \in DOMAIN ms, j \in DOMAIN new : ms[i].id # new[j].id
    BY DEF IdsOf
  <1>3. ASSUME NEW i \in DOMAIN out, NEW j \in DOMAIN out, out[i].id = out[j].id
        PROVE  i = j
    <2>1. CASE i <= n /\ j <= n
      BY <1>1, <1>3, <2>1 DEF Own, Distinct
    <2>2. CASE i > n /\ j > n
      <3>1. /\ i - n \in DOMAIN new /\ j - n \in DOMAIN new
            /\ new[i - n].id = new[j - n].id
        BY <1>1, <1>3, <2>2
      <3>2. i - n = j - n
        BY <3>1 DEF Own, Distinct
      <3> QED
        BY <1>1, <3>2
    <2>3. CASE i <= n /\ j > n
      BY <1>1, <1>2, <1>3, <2>3
    <2>4. CASE i > n /\ j <= n
      BY <1>1, <1>2, <1>3, <2>4
    <2> QED
      BY <1>1, <2>1, <2>2, <2>3, <2>4
  <1>4. \A i \in DOMAIN out : out[i].id[1] \in Requests => out[i].id[1] \in R
    BY <1>1 DEF Own
  <1> QED
    BY <1>3, <1>4 DEF Own, Distinct, out

\* A step keeps the invariant of the lists if it keeps the requests of each
\* conversation and draws its loads from the lists there were.
LEMMA IdsKept ==
  ASSUME IdsInv,
         \A r \in Requests : calls'[r].conv = calls[r].conv /\ calls'[r].edit = calls[r].edit,
         \A c : Sent(c) \subseteq Sent(c)',
         \A c \in Convs : Own(store'.msgs[c], Sent(c)'),
         \A c \in Convs : Own(stored'[c], Sent(c)'),
         \A c \in Convs : loads'[c] \subseteq loads[c] \cup {stored[c]},
         booting' \subseteq booting
  PROVE  IdsInv'
  <1>1. \A c \in Convs : \A ms \in loads'[c] : Own(ms, Sent(c)')
    <2> SUFFICES ASSUME NEW c \in Convs, NEW ms \in loads'[c]
                 PROVE  Own(ms, Sent(c)')
      OBVIOUS
    <2>1. Own(ms, Sent(c))
      BY DEF IdsInv
    <2> QED
      BY <2>1, OwnStays
  <1>2. \A b \in booting' : Own(b[2], Sent(b[1])')
    <2> SUFFICES ASSUME NEW b \in booting'
                 PROVE  Own(b[2], Sent(b[1])')
      OBVIOUS
    <2>1. Own(b[2], Sent(b[1]))
      BY DEF IdsInv
    <2> QED
      BY <2>1, OwnStays
  <1>3. \A r \in Requests : calls'[r].edit # None /\ calls'[r].edit[1] \in Requests =>
          calls[r].edit[1] \in Sent(calls[r].conv)'
    BY DEF IdsInv
  <1> QED
    BY <1>1, <1>2, <1>3 DEF IdsInv

-----------------------------------------------------------------------------
(* The steps.                                                              *)

\* Which requests hold their messages in their conversation.
Moved(r, pc) ==
  /\ calls' \in [Requests -> Sends]
  /\ \A q \in Requests : /\ calls'[q].conv = calls[q].conv
                         /\ calls'[q].edit = calls[q].edit
                         /\ calls'[q].drop = calls[q].drop
                         /\ calls'[q].pc = IF q = r THEN pc ELSE calls[q].pc
  /\ \A c : Sent(c) \subseteq Sent(c)'

\* A call that was sent stays so.
LEMMA SentStays ==
  ASSUME NEW r \in Requests, calls \in [Requests -> Sends],
         NEW pc \in {"chat", "done"}, calls' = [calls EXCEPT ![r].pc = pc]
  PROVE  Moved(r, pc)
  <1>1. \A q \in Requests : /\ calls'[q].conv = calls[q].conv
                            /\ calls'[q].edit = calls[q].edit
                            /\ calls'[q].drop = calls[q].drop
                            /\ calls'[q].pc = IF q = r THEN pc ELSE calls[q].pc
    OBVIOUS
  <1>2. calls' \in [Requests -> Sends]
    BY DEF Sends
  <1>3. \A c : Sent(c) \subseteq Sent(c)'
    BY <1>1 DEF Sent
  <1> QED
    BY <1>1, <1>2, <1>3 DEF Moved

\* A call is sent: what it adds, field by field.
LEMMA SendEffect ==
  ASSUME TypeOK, NEW r \in Requests, current # None,
         store' = StartStream(store, current, r)
  PROVE  /\ store' \in Stores
         /\ store'.msgs = store.msgs /\ store'.live = store.live
         /\ store'.metrics = store.metrics /\ store'.batch = store.batch
         /\ store'.outcome = store.outcome /\ store'.streaming = TRUE
         /\ store'.active = [store.active EXCEPT ![current] = r]
  <1> DEFINE active == [store.active EXCEPT ![current] = r]
  <1>1. store' = [store EXCEPT !.active = active, !.streaming = TRUE]
    BY DEF StartStream
  <1>2. active \in [Convs -> Requests \cup {None}]
    BY StoreTyped DEF TypeOK
  <1>3. store \in Stores
    BY DEF TypeOK
  <1> HIDE DEF active
  <1> QED
    BY <1>1, <1>2, <1>3 DEF Stores, active

\* A new call keeps the invariant.
LEMMA StartSendKeeps ==
  ASSUME StreamsAssumption, Inv, NEW r \in Requests,
         NEW edit \in (Reqs \X {"user"}) \cup {None},
         NEW drop \in (Reqs \X {"assistant"}) \cup {None},
         StartSend(r, edit, drop), edits' \in 0 .. MaxEdits, edits' >= edits,
         drop # None => edits' > 0,
         edit # None /\ edit[1] \in Requests => edit[1] \in Sent(current)
  PROVE  Inv'
  <1>1. /\ TypeOK /\ QuietInv /\ CallsInv /\ IdsInv
        /\ current \in Convs /\ calls[r].pc = "new"
    BY DEF Inv, StartSend, TypeOK
  <1>2. calls' = [calls EXCEPT
                    ![r] = [pc |-> "rag", conv |-> current, edit |-> edit, drop |-> drop]]
    BY DEF StartSend
  <1>3. /\ calls'[r].pc = "rag" /\ calls'[r].conv = current /\ calls'[r].edit = edit
        /\ calls'[r].drop = drop
        /\ \A q \in Requests \ {r} : calls'[q] = calls[q]
    BY <1>1, <1>2 DEF TypeOK
  <1>4. calls' \in [Requests -> Sends]
    BY <1>1, <1>2 DEF TypeOK, Sends
  <1>5. /\ store' \in Stores
        /\ store'.msgs = store.msgs /\ store'.live = store.live
        /\ store'.metrics = store.metrics /\ store'.batch = store.batch
        /\ store'.outcome = store.outcome /\ store'.streaming = TRUE
        /\ store'.active = [store.active EXCEPT ![current] = r]
    BY <1>1, SendEffect DEF StartSend
  <1>6. \A c \in Convs : store'.active[c] = IF c = current THEN r ELSE store.active[c]
    BY <1>1, <1>5, StoreTyped
  <1>7. /\ disturbed \subseteq disturbed' /\ disturbed' \subseteq Reqs
        /\ Rivals(current) \subseteq disturbed'
    BY <1>1 DEF StartSend, Rivals, TypeOK, Reqs
  <1>8. UNCHANGED <<current, open, sent, backend, stored, loads, loaded, booting, removals>>
    BY DEF StartSend
  <1>9. TypeOK'
    BY <1>1, <1>4, <1>5, <1>7, <1>8 DEF TypeOK
  <1>10. FlagTruthful'
    BY <1>1, <1>5, <1>6, StreamsAssumption DEF FlagTruthful
  <1>11. QuietInv'
    <2> SUFFICES ASSUME NEW c \in Convs
                 PROVE  /\ store'.metrics[c] = None
                        /\ store'.active[c] = None
                             => store'.live[c] = <<>> /\ store'.batch[c] = NoBatch
                        /\ store'.batch[c].req = None => store'.batch[c].text = <<>>
                        /\ store'.batch[c].req # None /\ store'.batch[c].req \notin disturbed'
                             => store'.active[c] = store'.batch[c].req
      BY DEF QuietInv
    <2>1. CASE c # current
      BY <1>1, <1>5, <1>6, <1>7, <2>1 DEF QuietInv
    <2>2. CASE c = current
      <3>1. store'.active[c] # None
        BY <1>6, <2>2, StreamsAssumption
      <3>2. ASSUME store.batch[c].req # None, store.batch[c].req \notin disturbed'
            PROVE  FALSE
        <4>1. PICK q : q = store.batch[c].req
          OBVIOUS
        <4>2. store.active[c] = q /\ q \in Requests
          BY <1>1, <1>7, <3>2, <4>1, StoreTyped DEF QuietInv
        <4>3. calls[q].conv = c
          BY <1>1, <3>2, <4>1, <4>2 DEF CallsInv
        <4> QED
          BY <1>7, <2>2, <3>2, <4>1, <4>2, <4>3 DEF Rivals
      <3> QED
        BY <1>1, <1>5, <3>1, <3>2 DEF QuietInv
    <2> QED
      BY <2>1, <2>2
  <1>12. \A c : Sent(c) \subseteq Sent(c)'
    BY <1>1, <1>3 DEF Sent
  <1>13. CallsInv'
    <2>1. \A c \in Convs : store'.active[c] # None =>
            /\ calls'[store'.active[c]].conv = c
            /\ calls'[store'.active[c]].pc # "new"
            /\ store'.outcome[store'.active[c]] = "none"
      <3> SUFFICES ASSUME NEW c \in Convs, store'.active[c] # None
                   PROVE  /\ calls'[store'.active[c]].conv = c
                          /\ calls'[store'.active[c]].pc # "new"
                          /\ store'.outcome[store'.active[c]] = "none"
        OBVIOUS
      <3>1. CASE c = current
        BY <1>1, <1>3, <1>5, <1>6, <3>1 DEF CallsInv
      <3>2. CASE c # current
        <4>1. store'.active[c] = store.active[c] /\ store.active[c] \in Requests
          BY <1>1, <1>6, <3>2, StoreTyped
        <4>2. store.active[c] # r
          BY <1>1, <4>1, StreamsAssumption DEF CallsInv
        <4> QED
          BY <1>1, <1>3, <1>5, <4>1, <4>2 DEF CallsInv
      <3> QED
        BY <3>1, <3>2
    <2>2. \A q \in Requests :
            /\ calls'[q].pc # "new" => calls'[q].conv \in Convs
            /\ calls'[q].pc \in {"new", "rag"} => backend'[q] = "none" /\ sent'[q] = 0
            /\ calls'[q].pc = "new" => store'.outcome[q] = "none" /\ calls'[q].edit = None
            /\ store'.outcome[q] = "complete" => backend'[q] = "ended"
            /\ calls'[q].drop # None => edits' > 0
      <3> SUFFICES ASSUME NEW q \in Requests
                   PROVE  /\ calls'[q].pc # "new" => calls'[q].conv \in Convs
                          /\ calls'[q].pc \in {"new", "rag"} => backend'[q] = "none" /\ sent'[q] = 0
                          /\ calls'[q].pc = "new"
                               => store'.outcome[q] = "none" /\ calls'[q].edit = None
                          /\ store'.outcome[q] = "complete" => backend'[q] = "ended"
                          /\ calls'[q].drop # None => edits' > 0
        OBVIOUS
      <3>1. edits > 0 => edits' > 0
        BY <1>1 DEF TypeOK
      <3>2. CASE q = r
        BY <1>1, <1>3, <1>5, <1>8, <3>2 DEF CallsInv
      <3>3. CASE q # r
        BY <1>1, <1>3, <1>5, <1>8, <3>1, <3>3 DEF CallsInv
      <3> QED
        BY <3>2, <3>3
    <2> QED
      BY <2>1, <2>2 DEF CallsInv
  <1>14. IdsInv'
    <2>1. \A c \in Convs : Own(store'.msgs[c], Sent(c)') /\ Own(stored'[c], Sent(c)')
      BY <1>1, <1>5, <1>8, <1>12, OwnStays DEF IdsInv
    <2>2. \A c \in Convs : \A ms \in loads'[c] : Own(ms, Sent(c)')
      BY <1>1, <1>8, <1>12, OwnStays DEF IdsInv
    <2>3. \A b \in booting' : Own(b[2], Sent(b[1])')
      BY <1>1, <1>8, <1>12, OwnStays DEF IdsInv
    <2>4. \A q \in Requests : calls'[q].edit # None /\ calls'[q].edit[1] \in Requests =>
            calls'[q].edit[1] \in Sent(calls[q].conv)'
      BY <1>1, <1>3, <1>12 DEF IdsInv
    <2> QED
      BY <2>1, <2>2, <2>3, <2>4 DEF IdsInv
  <1> QED
    BY <1>9, <1>10, <1>11, <1>13, <1>14 DEF Inv

\* So does the send of a message.
LEMMA SendMessageKeeps ==
  ASSUME StreamsAssumption, Inv, NEW r \in Requests, SendMessage(r)
  PROVE  Inv'
  <1>1. PICK none : none = None
    OBVIOUS
  <1>2. /\ none \in (Reqs \X {"user"}) \cup {None} /\ none \in (Reqs \X {"assistant"}) \cup {None}
        /\ StartSend(r, none, none) /\ edits' = edits
    BY <1>1 DEF SendMessage
  <1>3. edits' \in 0 .. MaxEdits /\ edits' >= edits
    BY <1>2, StreamsAssumption DEF Inv, TypeOK
  <1> QED
    BY <1>1, <1>2, <1>3, StartSendKeeps

\* The answer an edit replaces is one of the conversation's own.
LEMMA NextAssistantTyped ==
  ASSUME NEW ms \in Seq(Messages), NEW i \in DOMAIN ms
  PROVE  NextAssistant(ms, i) \in (Reqs \X {"assistant"}) \cup {None}
  <1> DEFINE later == {j \in DOMAIN ms : j > i /\ ms[j].id[2] = "assistant"}
             least == CHOOSE j \in later : \A k \in later : j <= k
  <1>1. CASE later = {}
    BY <1>1 DEF NextAssistant
  <1>2. CASE later # {}
    <2>1. later \in SUBSET Nat
      OBVIOUS
    <2>2. \E j \in later : \A k \in later : j <= k
      <3> HIDE DEF later
      <3> QED
        BY <1>2, <2>1, LeastExists
    <2>3. least \in later
      <3> HIDE DEF later
      <3> QED
        BY <2>2
    <2> HIDE DEF least
    <2>4. ms[least].id \in Reqs \X {"user", "assistant"} /\ ms[least].id[2] = "assistant"
      BY <2>3, MessageFields
    <2>5. NextAssistant(ms, i) = ms[least].id
      BY <1>2 DEF NextAssistant, least
    <2> QED
      BY <2>4, <2>5
  <1> QED
    BY <1>1, <1>2

\* So does the send of an edited message.
LEMMA EditAndResendKeeps ==
  ASSUME StreamsAssumption, Inv, NEW r \in Requests, EditAndResend(r)
  PROVE  Inv'
  <1>1. /\ edits < MaxEdits /\ edits' = edits + 1
        /\ current # None /\ TypeOK /\ IdsInv
    BY DEF EditAndResend, Inv
  <1>2. current \in Convs
    BY <1>1 DEF TypeOK
  <1>3. PICK i \in DOMAIN store.msgs[current] :
          /\ store.msgs[current][i].id[2] = "user"
          /\ StartSend(r, store.msgs[current][i].id, NextAssistant(store.msgs[current], i))
    BY DEF EditAndResend
  <1>4. PICK edit, drop : /\ edit = store.msgs[current][i].id
                          /\ drop = NextAssistant(store.msgs[current], i)
    OBVIOUS
  <1>5. store.msgs[current] \in Seq(Messages)
    BY <1>1, <1>2, StoreTyped
  <1>6. edit \in (Reqs \X {"user"}) \cup {None}
    <2>1. edit \in Reqs \X {"user", "assistant"} /\ edit[2] = "user"
      BY <1>3, <1>4, <1>5, MessageFields
    <2> QED
      BY <2>1
  <1>7. drop \in (Reqs \X {"assistant"}) \cup {None}
    BY <1>4, <1>5, NextAssistantTyped
  <1>8. edits' \in 0 .. MaxEdits /\ edits' >= edits /\ edits' > 0
    BY <1>1, StreamsAssumption DEF TypeOK
  <1>9. edit # None /\ edit[1] \in Requests => edit[1] \in Sent(current)
    BY <1>1, <1>2, <1>4 DEF IdsInv, Own
  <1>10. StartSend(r, edit, drop)
    BY <1>3, <1>4
  <1> QED
    BY <1>6, <1>7, <1>8, <1>9, <1>10, StartSendKeeps

\* A message is taken out and new ones are added.
LEMMA AppendedEffect ==
  ASSUME NEW s \in Stores, NEW c \in Convs, NEW id, NEW new \in Seq(Messages),
         Distinct(s.msgs[c]), NEW t, t = AddMessages(RemoveMessage(s, c, id), c, new)
  PROVE  /\ t \in Stores
         /\ t.live = s.live /\ t.metrics = s.metrics /\ t.active = s.active
         /\ t.batch = s.batch /\ t.streaming = s.streaming /\ t.outcome = s.outcome
         /\ t.msgs = [s.msgs EXCEPT ![c] = Without(s.msgs[c], id) \o new]
  <1> DEFINE msgs == [s.msgs EXCEPT ![c] = Without(s.msgs[c], id) \o new]
  <1>1. s.msgs \in [Convs -> Seq(Messages)]
    BY StoreFields
  <1>2. Without(s.msgs[c], id) \in Seq(Messages)
    BY <1>1, WithoutKeeps
  <1>3. msgs \in [Convs -> Seq(Messages)]
    BY <1>1, <1>2
  <1>4. PICK w : w = Without(s.msgs[c], id)
    OBVIOUS
  <1>5. PICK m : m = RemoveMessage(s, c, id)
    OBVIOUS
  <1>6. m = [s EXCEPT !.msgs = [s.msgs EXCEPT ![c] = w]]
    BY <1>4, <1>5 DEF RemoveMessage
  <1>7. m.msgs = [s.msgs EXCEPT ![c] = w]
    BY <1>6 DEF Stores
  <1>8. t = [m EXCEPT !.msgs = [m.msgs EXCEPT ![c] = w \o new]]
    BY <1>1, <1>5, <1>7 DEF AddMessages
  <1>9. [m.msgs EXCEPT ![c] = w \o new] = msgs
    BY <1>1, <1>4, <1>7
  <1> HIDE DEF msgs
  <1>10. t = [m EXCEPT !.msgs = msgs]
    BY <1>8, <1>9
  <1> QED
    BY <1>3, <1>6, <1>10 DEF Stores, msgs

\* A message is taken out.
LEMMA RemovedEffect ==
  ASSUME NEW s \in Stores, NEW c \in Convs, NEW id, Distinct(s.msgs[c]),
         NEW t, t = RemoveMessage(s, c, id)
  PROVE  /\ t \in Stores
         /\ t.live = s.live /\ t.metrics = s.metrics /\ t.active = s.active
         /\ t.batch = s.batch /\ t.streaming = s.streaming /\ t.outcome = s.outcome
         /\ t.msgs = [s.msgs EXCEPT ![c] = Without(s.msgs[c], id)]
  <1> DEFINE msgs == [s.msgs EXCEPT ![c] = Without(s.msgs[c], id)]
  <1>1. s.msgs \in [Convs -> Seq(Messages)]
    BY StoreFields
  <1>2. Without(s.msgs[c], id) \in Seq(Messages)
    BY <1>1, WithoutKeeps
  <1>3. msgs \in [Convs -> Seq(Messages)]
    BY <1>1, <1>2
  <1>4. t = [s EXCEPT !.msgs = msgs]
    BY DEF RemoveMessage
  <1> HIDE DEF msgs
  <1> QED
    BY <1>3, <1>4 DEF Stores, msgs

\* The messages a send adds and the one it saves.
LEMMA NewMessages ==
  ASSUME NEW r \in Requests, NEW e \in (Reqs \X {"user"}) \cup {None}
  PROVE  /\ <<Message(User(r)), Message(Assistant(r))>> \in Seq(Messages)
         /\ <<Message(Assistant(r))>> \in Seq(Messages)
         /\ Message(User(r)) \in Messages
         /\ e # None => Message(e) \in Messages
  <1>1. \A id \in Reqs \X {"user", "assistant"} : Message(id) \in Messages
    <2>1. PICK empty \in Seq(Chunks) : empty = <<>>
      BY EmptySeq
    <2>2. \A id \in Reqs \X {"user", "assistant"} :
            [id |-> id, text |-> empty, stopped |-> FALSE, metrics |-> None] \in Messages
      BY <2>1 DEF Messages
    <2> QED
      BY <2>1, <2>2 DEF Message
  <1>2. User(r) \in Reqs \X {"user", "assistant"} /\ Assistant(r) \in Reqs \X {"user", "assistant"}
    BY DEF User, Assistant, Reqs
  <1>3. e # None => e \in Reqs \X {"user", "assistant"}
    OBVIOUS
  <1>4. Message(User(r)) \in Messages /\ Message(Assistant(r)) \in Messages
    BY <1>1, <1>2
  <1> QED
    BY <1>1, <1>3, <1>4

\* A step after a send keeps the invariant of the calls if it registers no
\* stream and tells no outcome too early.
LEMMA CallsKept ==
  ASSUME StreamsAssumption, TypeOK, CallsInv,
         \A q \in Requests :
           /\ calls'[q].conv = calls[q].conv /\ calls'[q].drop = calls[q].drop
           /\ calls'[q].edit = calls[q].edit
           /\ calls'[q].pc = "new" <=> calls[q].pc = "new"
           /\ calls'[q].pc \in {"new", "rag"} =>
                calls[q].pc \in {"new", "rag"} /\ backend'[q] = backend[q] /\ sent'[q] = sent[q]
           /\ calls'[q].pc = "new" => store'.outcome[q] = "none"
           /\ store'.outcome[q] = "complete" => backend'[q] = "ended",
         \A c \in Convs :
           /\ store'.active[c] \in {None, store.active[c]}
           /\ store'.active[c] # None => store'.outcome[store'.active[c]] = "none",
         edits' \in Int, edits' >= edits
  PROVE  CallsInv'
  <1>1. \A c \in Convs : store'.active[c] # None =>
          /\ calls'[store'.active[c]].conv = c
          /\ calls'[store'.active[c]].pc # "new"
          /\ store'.outcome[store'.active[c]] = "none"
    <2> SUFFICES ASSUME NEW c \in Convs, store'.active[c] # None
                 PROVE  /\ calls'[store'.active[c]].conv = c
                        /\ calls'[store'.active[c]].pc # "new"
      OBVIOUS
    <2>1. store'.active[c] = store.active[c] /\ store.active[c] \in Requests
      BY StoreTyped
    <2> QED
      BY <2>1 DEF CallsInv
  <1>2. edits > 0 => edits' > 0
    BY StreamsAssumption DEF TypeOK
  <1>3. \A q \in Requests :
          /\ calls'[q].pc # "new" => calls'[q].conv \in Convs
          /\ calls'[q].pc \in {"new", "rag"} => backend'[q] = "none" /\ sent'[q] = 0
          /\ calls'[q].pc = "new" => store'.outcome[q] = "none" /\ calls'[q].edit = None
          /\ store'.outcome[q] = "complete" => backend'[q] = "ended"
          /\ calls'[q].drop # None => edits' > 0
    BY <1>2 DEF CallsInv
  <1> QED
    BY <1>1, <1>3 DEF CallsInv

\* What a stop does to the streams and their outcomes.
LEMMA StopKeepsOutcomes ==
  ASSUME StreamsAssumption, TypeOK, CallsInv, NEW S \in SUBSET Convs,
         NEW reason \in {"complete", "abort", "error"}, Stopped(store, store', S, reason)
  PROVE  /\ \A c \in Convs :
              /\ store'.active[c] \in {None, store.active[c]}
              /\ store'.active[c] # None => store'.outcome[store'.active[c]] = "none"
         /\ \A q \in Requests :
              /\ calls[q].pc = "new" => store'.outcome[q] = "none"
              /\ store'.outcome[q] # store.outcome[q] =>
                   store'.outcome[q] = reason /\ \E c \in S : store.active[c] = q
  <1>1. \A c \in Convs : store'.active[c] = IF c \in S THEN None ELSE store.active[c]
    BY DEF Stopped
  <1>2. \A q \in Requests :
          store'.outcome[q] = IF \E c \in S : store.active[c] = q THEN reason ELSE store.outcome[q]
    BY DEF Stopped
  <1>3. \A c \in Convs : store.active[c] # None =>
          store.active[c] \in Requests /\ calls[store.active[c]].conv = c
    BY StoreTyped DEF CallsInv
  <1>4. ASSUME NEW c \in Convs, store'.active[c] # None
        PROVE  store'.outcome[store'.active[c]] = "none"
    <2>1. c \notin S /\ store'.active[c] = store.active[c]
      BY <1>1, <1>4
    <2>2. \A d \in S : store.active[d] # store.active[c]
      BY <1>3, <1>4, <2>1
    <2> QED
      BY <1>2, <1>3, <1>4, <2>1, <2>2 DEF CallsInv
  <1>5. ASSUME NEW q \in Requests, calls[q].pc = "new"
        PROVE  store'.outcome[q] = "none"
    <2>1. \A c \in S : store.active[c] # q
      BY <1>5, StreamsAssumption DEF CallsInv
    <2> QED
      BY <1>2, <1>5, <2>1 DEF CallsInv
  <1> QED
    BY <1>1, <1>2, <1>4, <1>5

\* The context comes and the chat call goes out.
LEMMA RagRepliesKeeps ==
  ASSUME StreamsAssumption, Inv, NEW r \in Requests, RagReplies(r)
  PROVE  Inv'
  <1> DEFINE c == calls[r].conv
             e == calls[r].edit
             d == calls[r].drop
             new == IF e = None THEN <<Message(User(r)), Message(Assistant(r))>>
                    ELSE <<Message(Assistant(r))>>
             save == Message(IF e = None THEN User(r) ELSE e)
  <1>1. TypeOK /\ FlagTruthful /\ QuietInv /\ CallsInv /\ IdsInv
    BY DEF Inv
  <1>2. /\ calls[r].pc = "rag"
        /\ calls' = [calls EXCEPT ![r].pc = "chat"]
        /\ store' = AddMessages(RemoveMessage(store, c, d), c, new)
        /\ stored' = IF c \in open THEN [stored EXCEPT ![c] = Without(Saved(stored[c], save), d)]
                     ELSE stored
        /\ backend' = [backend EXCEPT ![r] = "running"]
        /\ UNCHANGED <<current, open, sent, loads, loaded, booting, disturbed, edits, removals>>
    BY DEF RagReplies, counts
  <1>3. c \in Convs /\ e \in (Reqs \X {"user"}) \cup {None}
    BY <1>1, <1>2 DEF CallsInv, TypeOK, Sends
  <1>4. new \in Seq(Messages) /\ save \in Messages
    BY <1>3, NewMessages
  <1>5. /\ store.msgs[c] \in Seq(Messages) /\ stored[c] \in Seq(Messages)
        /\ Distinct(store.msgs[c]) /\ Distinct(stored[c])
    BY <1>1, <1>3, StoreTyped DEF TypeOK
  <1>6. /\ store' \in Stores
        /\ store'.live = store.live /\ store'.metrics = store.metrics
        /\ store'.active = store.active /\ store'.batch = store.batch
        /\ store'.streaming = store.streaming /\ store'.outcome = store.outcome
        /\ store'.msgs = [store.msgs EXCEPT ![c] = Without(store.msgs[c], d) \o new]
    <2>1. store \in Stores
      BY <1>1, StoreTyped
    <2>2. store' = AddMessages(RemoveMessage(store, c, d), c, new)
      BY <1>2
    <2>3. c \in Convs /\ new \in Seq(Messages) /\ Distinct(store.msgs[c])
      BY <1>3, <1>4, <1>5
    <2> HIDE DEF c, d, new
    <2> QED
      BY <2>1, <2>2, <2>3, AppendedEffect
  <1>7. PICK pc \in {"chat", "done"} : pc = "chat"
    OBVIOUS
  <1>8. /\ calls' \in [Requests -> Sends]
        /\ \A q \in Requests : /\ calls'[q].conv = calls[q].conv
                               /\ calls'[q].edit = calls[q].edit
                               /\ calls'[q].drop = calls[q].drop
                               /\ calls'[q].pc = IF q = r THEN pc ELSE calls[q].pc
        /\ \A x : Sent(x) \subseteq Sent(x)'
    <2>1. calls \in [Requests -> Sends]
      BY <1>1 DEF TypeOK
    <2>2. calls' = [calls EXCEPT ![r].pc = pc]
      BY <1>2, <1>7
    <2>3. Moved(r, pc)
      BY <2>1, <2>2, SentStays
    <2> QED
      BY <2>3 DEF Moved
  <1>9. r \in Sent(c)' /\ r \notin Sent(c)
    BY <1>2, <1>7, <1>8 DEF Sent
  <1>10. Own(new, Sent(c)')
    <2>1. Message(Assistant(r)).id = Assistant(r) /\ Message(User(r)).id = User(r)
      BY DEF Message
    <2>2. Own(<<Message(Assistant(r))>>, Sent(c)')
      BY <1>9, <2>1 DEF Own, Distinct, Assistant
    <2>3. Own(<<Message(User(r)), Message(Assistant(r))>>, Sent(c)')
      BY <1>9, <2>1 DEF Own, Distinct, Assistant, User
    <2> QED
      BY <2>2, <2>3
  <1>11. \A i \in DOMAIN new : new[i].id[1] = r
    BY DEF Message, User, Assistant
  <1> HIDE DEF new
  <1>12. Own(Without(store.msgs[c], d) \o new, Sent(c)')
    <2>1. Own(store.msgs[c], Sent(c))
      BY <1>1, <1>3 DEF IdsInv
    <2>2. Without(store.msgs[c], d) \in Seq(Messages) /\ Own(Without(store.msgs[c], d), Sent(c))
      BY <1>5, <2>1, WithoutKeeps, OwnWithout
    <2>3. Own(Without(store.msgs[c], d), Sent(c)')
      BY <1>8, <2>2, OwnStays
    <2>4. IdsOf(Without(store.msgs[c], d)) \cap IdsOf(new) = {}
      BY <1>9, <1>11, <2>2 DEF IdsOf, Own
    <2> QED
      BY <1>4, <1>10, <2>2, <2>3, <2>4, OwnAppended
  <1>13. /\ Without(Saved(stored[c], save), d) \in Seq(Messages)
         /\ Own(Without(Saved(stored[c], save), d), Sent(c)')
    <2>1. save.id[1] \in Requests => save.id[1] \in Sent(c)'
      <3>1. CASE e = None
        BY <1>9, <3>1 DEF Message, User
      <3>2. CASE e # None
        BY <1>1, <1>8, <3>2 DEF Message, IdsInv
      <3> QED
        BY <3>1, <3>2
    <2> HIDE DEF save
    <2>2. Own(stored[c], Sent(c)')
      BY <1>1, <1>3, <1>8, OwnStays DEF IdsInv
    <2>3. Saved(stored[c], save) \in Seq(Messages)
      BY <1>4, <1>5, SavedKeeps
    <2>4. Own(Saved(stored[c], save), Sent(c)')
      BY <1>4, <1>5, <2>1, <2>2, OwnSaved
    <2>5. Distinct(Saved(stored[c], save))
      BY <2>4 DEF Own
    <2> QED
      BY <2>3, <2>4, <2>5, WithoutKeeps, OwnWithout
  <1>14. \A x \in Convs : Own(store'.msgs[x], Sent(x)')
    BY <1>1, <1>6, <1>8, <1>12, StoreTyped, OwnStays DEF IdsInv
  <1>15. stored' \in [Convs -> Seq(Messages)]
    BY <1>1, <1>2, <1>13 DEF TypeOK
  <1>16. \A x \in Convs : Own(stored'[x], Sent(x)')
    BY <1>1, <1>2, <1>8, <1>13, OwnStays DEF IdsInv, TypeOK
  <1>17. \A x \in Convs : Distinct(store'.msgs[x]) /\ Distinct(stored'[x])
    BY <1>14, <1>16 DEF Own
  <1>18. TypeOK'
    BY <1>1, <1>2, <1>6, <1>8, <1>15, <1>17 DEF TypeOK
  <1>19. FlagTruthful' /\ QuietInv'
    BY <1>1, <1>2, <1>6, MessagesKeepQuiet
  <1>20. CallsInv'
    <2>1. \A q \in Requests : calls'[q].pc \in {"new", "rag"} =>
            /\ q # r /\ calls[q].pc \in {"new", "rag"}
            /\ backend'[q] = backend[q] /\ sent'[q] = sent[q]
      BY <1>1, <1>2, <1>7, <1>8 DEF TypeOK
    <2>2. \A q \in Requests : calls'[q].pc = "new" <=> calls[q].pc = "new"
      BY <1>2, <1>7, <1>8
    <2>3. \A q \in Requests : store'.outcome[q] = "complete" => backend'[q] = "ended"
      BY <1>1, <1>2, <1>6 DEF CallsInv, TypeOK
    <2>4. \A q \in Requests : calls'[q].pc = "new" => store'.outcome[q] = "none"
      BY <1>1, <1>6, <2>2 DEF CallsInv
    <2>5. \A x \in Convs :
            /\ store'.active[x] \in {None, store.active[x]}
            /\ store'.active[x] # None => store'.outcome[store'.active[x]] = "none"
      BY <1>1, <1>6 DEF CallsInv
    <2>6. edits' \in Int /\ edits' >= edits
      BY <1>1, <1>2, StreamsAssumption DEF TypeOK
    <2> QED
      BY <1>1, <1>8, <2>1, <2>2, <2>3, <2>4, <2>5, <2>6, CallsKept, StreamsAssumption
  <1>21. IdsInv'
    <2>1. \A x \in Convs : loads'[x] \subseteq loads[x] \cup {stored[x]}
      BY <1>2
    <2> QED
      BY <1>1, <1>2, <1>8, <1>14, <1>16, <2>1, IdsKept
  <1> QED
    BY <1>18, <1>19, <1>20, <1>21 DEF Inv

\* The lists after a step that leaves the calls alone, or only where they are.
LEMMA RestKept ==
  ASSUME StreamsAssumption, Inv,
         store' \in Stores,
         \A c \in Convs : Own(store'.msgs[c], Sent(c)'),
         calls' \in [Requests -> Sends],
         \A r \in Requests : calls'[r].conv = calls[r].conv /\ calls'[r].edit = calls[r].edit,
         \A c : Sent(c) \subseteq Sent(c)',
         UNCHANGED <<current, open, loads, loaded, booting, edits>>,
         stored' \in [Convs -> Seq(Messages)],
         \A c \in Convs : Own(stored'[c], Sent(c)'),
         removals' \in 0 .. MaxRemovals,
         sent' \in [Requests -> 0 .. MaxTokens],
         backend' \in [Requests -> {"none", "running", "ended"}],
         disturbed' \subseteq Reqs
  PROVE  TypeOK' /\ IdsInv'
  <1>1. TypeOK /\ IdsInv
    BY DEF Inv
  <1>2. \A c \in Convs : Distinct(store'.msgs[c]) /\ Distinct(stored'[c])
    BY DEF Own
  <1>3. TypeOK'
    BY <1>1, <1>2 DEF TypeOK
  <1>4. IdsInv'
    <2>1. \A x \in Convs : loads'[x] \subseteq loads[x] \cup {stored[x]}
      OBVIOUS
    <2> QED
      BY <1>1, <2>1, IdsKept
  <1> QED
    BY <1>3, <1>4

\* A step on the calls alone: the messages and the streams stay.
LEMMA SameStoreKeeps ==
  ASSUME StreamsAssumption, Inv, store' = store,
         calls' \in [Requests -> Sends],
         \A r \in Requests :
           /\ calls'[r].conv = calls[r].conv /\ calls'[r].drop = calls[r].drop
           /\ calls'[r].edit = calls[r].edit
           /\ calls'[r].pc = "new" <=> calls[r].pc = "new"
           /\ calls'[r].pc \in {"new", "rag"} =>
                calls[r].pc \in {"new", "rag"} /\ backend'[r] = backend[r] /\ sent'[r] = sent[r]
           /\ backend[r] = "ended" => backend'[r] = "ended",
         \A c : Sent(c) \subseteq Sent(c)',
         UNCHANGED <<current, open, stored, loads, loaded, booting, edits>>,
         removals' \in 0 .. MaxRemovals,
         sent' \in [Requests -> 0 .. MaxTokens],
         backend' \in [Requests -> {"none", "running", "ended"}],
         disturbed \subseteq disturbed', disturbed' \subseteq Reqs
  PROVE  Inv'
  <1>1. TypeOK /\ FlagTruthful /\ QuietInv /\ CallsInv /\ IdsInv
    BY DEF Inv
  <1>2. \A c \in Convs : Own(store'.msgs[c], Sent(c)')
    BY <1>1, OwnStays DEF IdsInv
  <1>3. stored' \in [Convs -> Seq(Messages)] /\ \A c \in Convs : Own(stored'[c], Sent(c)')
    BY <1>1, OwnStays DEF IdsInv, TypeOK
  <1>4. TypeOK' /\ IdsInv'
    BY <1>1, <1>2, <1>3, RestKept, StoreTyped
  <1>5. FlagTruthful' /\ QuietInv'
    BY <1>1, MessagesKeepQuiet
  <1>6. CallsInv'
    <2>1. edits' \in Int /\ edits' >= edits
      BY <1>1, StreamsAssumption DEF TypeOK
    <2>2. \A q \in Requests :
            /\ calls'[q].pc = "new" => store'.outcome[q] = "none"
            /\ store'.outcome[q] = "complete" => backend'[q] = "ended"
      BY <1>1 DEF CallsInv
    <2>3. \A x \in Convs :
            /\ store'.active[x] \in {None, store.active[x]}
            /\ store'.active[x] # None => store'.outcome[store'.active[x]] = "none"
      BY <1>1 DEF CallsInv
    <2> QED
      BY <1>1, <2>1, <2>2, <2>3, CallsKept
  <1> QED
    BY <1>1, <1>4, <1>5, <1>6 DEF Inv

\* The chat call returns, or is rejected.
LEMMA ChatReturnsKeeps ==
  ASSUME StreamsAssumption, Inv, NEW r \in Requests, ChatReturns(r)
  PROVE  Inv'
  <1>1. TypeOK
    BY DEF Inv
  <1>2. PICK pc \in {"chat", "done"} : pc = "done"
    OBVIOUS
  <1>3. /\ calls[r].pc = "chat" /\ calls' = [calls EXCEPT ![r].pc = pc]
        /\ UNCHANGED <<store, current, open, sent, backend, stored, loads, loaded, booting,
                       disturbed, edits, removals>>
    BY <1>2 DEF ChatReturns, counts
  <1>4. /\ calls' \in [Requests -> Sends]
        /\ \A q \in Requests : /\ calls'[q].conv = calls[q].conv
                               /\ calls'[q].edit = calls[q].edit
                               /\ calls'[q].drop = calls[q].drop
                               /\ calls'[q].pc = IF q = r THEN pc ELSE calls[q].pc
        /\ \A x : Sent(x) \subseteq Sent(x)'
    <2>1. calls \in [Requests -> Sends]
      BY <1>1 DEF TypeOK
    <2>2. calls' = [calls EXCEPT ![r].pc = pc]
      BY <1>3
    <2>3. Moved(r, pc)
      BY <2>1, <2>2, SentStays
    <2> QED
      BY <2>3 DEF Moved
  <1>5. \A q \in Requests :
          /\ calls'[q].pc = "new" <=> calls[q].pc = "new"
          /\ calls'[q].pc \in {"new", "rag"} => calls[q].pc \in {"new", "rag"}
    BY <1>2, <1>3, <1>4
  <1>6. /\ sent' \in [Requests -> 0 .. MaxTokens] /\ disturbed' \subseteq Reqs
        /\ backend' \in [Requests -> {"none", "running", "ended"}]
    BY <1>1, <1>3 DEF TypeOK
  <1>7. removals' \in 0 .. MaxRemovals
    BY <1>1, <1>3 DEF TypeOK
  <1> QED
    BY <1>3, <1>4, <1>5, <1>6, <1>7, SameStoreKeeps

\* How the sends go on in a step that stops the streams of S.
GoOn(S, reason) ==
  /\ sent' \in [Requests -> 0 .. MaxTokens] /\ calls' \in [Requests -> Sends]
  /\ backend' \in [Requests -> {"none", "running", "ended"}]
  /\ removals' \in 0 .. MaxRemovals
  /\ disturbed \subseteq disturbed' /\ disturbed' \subseteq Reqs
  /\ \A c : Sent(c) \subseteq Sent(c)'
  /\ \A r \in Requests :
       /\ calls'[r].conv = calls[r].conv /\ calls'[r].drop = calls[r].drop
       /\ calls'[r].edit = calls[r].edit
       /\ calls'[r].pc = "new" <=> calls[r].pc = "new"
       /\ calls'[r].pc \in {"new", "rag"} =>
            calls[r].pc \in {"new", "rag"} /\ backend'[r] = backend[r] /\ sent'[r] = sent[r]
       /\ backend[r] = "ended" => backend'[r] = "ended"
       /\ (reason = "complete" /\ \E c \in S : store.active[c] = r) => backend'[r] = "ended"

\* A step that stops the streams of S and marks their messages; it may save one.
LEMMA StopAndSaveKeeps ==
  ASSUME StreamsAssumption, Inv, NEW S \in SUBSET Convs,
         NEW reason \in {"complete", "abort", "error"}, Stopped(store, store', S, reason),
         \A c \in Convs : SameIds(store.msgs[c], store'.msgs[c]),
         GoOn(S, reason),
         UNCHANGED <<current, open, loads, loaded, booting, edits>>,
         stored' \in [Convs -> Seq(Messages)],
         \A c \in Convs : Own(stored'[c], Sent(c)')
  PROVE  Inv'
  <1>1. TypeOK /\ FlagTruthful /\ QuietInv /\ CallsInv /\ IdsInv
    BY DEF Inv
  <1>2. \A c \in Convs : Own(store'.msgs[c], Sent(c)')
    <2>1. \A c : Sent(c) \subseteq Sent(c)'
      BY DEF GoOn
    <2>2. \A c \in Convs : Own(store'.msgs[c], Sent(c))
      BY <1>1, OwnSameIds DEF IdsInv
    <2> QED
      BY <2>1, <2>2, OwnStays
  <1>3. store' \in Stores
    BY DEF Stopped
  <1>4. TypeOK' /\ IdsInv'
    <2>1. /\ sent' \in [Requests -> 0 .. MaxTokens] /\ calls' \in [Requests -> Sends]
          /\ backend' \in [Requests -> {"none", "running", "ended"}]
          /\ removals' \in 0 .. MaxRemovals /\ disturbed' \subseteq Reqs
          /\ \A c : Sent(c) \subseteq Sent(c)'
      BY DEF GoOn
    <2>2. \A r \in Requests : calls'[r].conv = calls[r].conv /\ calls'[r].edit = calls[r].edit
      BY DEF GoOn
    <2> QED
      BY <1>2, <1>3, <2>1, <2>2, RestKept
  <1>5. FlagTruthful' /\ QuietInv'
    BY <1>1, StopKeepsQuiet
  <1>6. CallsInv'
    <2>1. edits' \in Int /\ edits' >= edits
      BY <1>1, StreamsAssumption DEF TypeOK
    <2>2. /\ \A c \in Convs :
               /\ store'.active[c] \in {None, store.active[c]}
               /\ store'.active[c] # None => store'.outcome[store'.active[c]] = "none"
          /\ \A q \in Requests :
               /\ calls[q].pc = "new" => store'.outcome[q] = "none"
               /\ store'.outcome[q] # store.outcome[q] =>
                    store'.outcome[q] = reason /\ \E c \in S : store.active[c] = q
      BY <1>1, StopKeepsOutcomes
    <2>3. \A q \in Requests : store'.outcome[q] = "complete" => backend'[q] = "ended"
      BY <1>1, <2>2 DEF CallsInv, GoOn
    <2>4. \A q \in Requests :
            /\ calls'[q].conv = calls[q].conv /\ calls'[q].drop = calls[q].drop
            /\ calls'[q].edit = calls[q].edit
            /\ calls'[q].pc = "new" <=> calls[q].pc = "new"
            /\ calls'[q].pc \in {"new", "rag"} =>
                 calls[q].pc \in {"new", "rag"} /\ backend'[q] = backend[q] /\ sent'[q] = sent[q]
            /\ calls'[q].pc = "new" => store'.outcome[q] = "none"
            /\ store'.outcome[q] = "complete" => backend'[q] = "ended"
      BY <2>2, <2>3 DEF GoOn
    <2>5. \A c \in Convs :
            /\ store'.active[c] \in {None, store.active[c]}
            /\ store'.active[c] # None => store'.outcome[store'.active[c]] = "none"
      BY <2>2
    <2> QED
      BY <1>1, <2>1, <2>4, <2>5, CallsKept
  <1> QED
    BY <1>1, <1>4, <1>5, <1>6 DEF Inv

\* A step that stops the streams of S and saves nothing.
LEMMA StopKeeps ==
  ASSUME StreamsAssumption, Inv, NEW S \in SUBSET Convs,
         NEW reason \in {"complete", "abort", "error"}, Stopped(store, store', S, reason),
         \A c \in Convs : SameIds(store.msgs[c], store'.msgs[c]),
         GoOn(S, reason),
         UNCHANGED <<current, open, stored, loads, loaded, booting, edits>>
  PROVE  Inv'
  <1>1. stored' \in [Convs -> Seq(Messages)] /\ \A c \in Convs : Own(stored'[c], Sent(c)')
    <2>1. \A c : Sent(c) \subseteq Sent(c)'
      BY DEF GoOn
    <2>2. \A c \in Convs : Own(stored[c], Sent(c))
      BY DEF Inv, IdsInv
    <2>3. stored' \in [Convs -> Seq(Messages)]
      BY DEF Inv, TypeOK
    <2> QED
      BY <2>1, <2>2, <2>3, OwnStays
  <1> QED
    BY <1>1, StopAndSaveKeeps

\* The stop button of the conversation on the screen.
LEMMA AbortKeeps ==
  ASSUME StreamsAssumption, Inv, Abort
  PROVE  Inv'
  <1>1. TypeOK /\ CallsInv
    BY DEF Inv
  <1>2. /\ current \in Convs /\ store.active[current] # None
        /\ store' = Stop(store, {current}, "abort")
        /\ disturbed' = disturbed \cup TooEarly({current})
        /\ UNCHANGED <<current, open, calls, sent, backend, stored, loads, loaded, booting,
                       edits, removals>>
    BY <1>1 DEF Abort, StopStream, TypeOK, counts
  <1>3. TooEarly({current}) \subseteq Reqs
    <2>1. Owner(store.msgs[current]) \subseteq Reqs
      <3>1. store.msgs[current] \in Seq(Messages)
        BY <1>1, <1>2, StoreTyped
      <3> QED
        BY <3>1, OwnersTyped
    <2> QED
      BY <2>1 DEF TooEarly, Reqs
  <1>4. Stopped(store, store', {current}, "abort") /\ Marked(store, store', {current}, "abort")
    BY <1>1, <1>2, StoreTyped, StopOne
  <1>5. PICK reason \in {"complete", "abort", "error"}, S \in SUBSET Convs :
          S = {current} /\ reason = "abort"
    BY <1>2
  <1>6. Stopped(store, store', S, reason) /\ Marked(store, store', S, reason)
    BY <1>4, <1>5
  <1>7. \A c \in Convs : SameIds(store.msgs[c], store'.msgs[c])
    <2>1. store \in Stores
      BY <1>1, StoreTyped
    <2> QED
      BY <1>6, <2>1, MarkedIds
  <1>8. /\ sent' \in [Requests -> 0 .. MaxTokens] /\ disturbed' \subseteq Reqs
        /\ backend' \in [Requests -> {"none", "running", "ended"}]
        /\ calls' \in [Requests -> Sends] /\ disturbed \subseteq disturbed'
        /\ removals' \in 0 .. MaxRemovals
    BY <1>1, <1>2, <1>3 DEF TypeOK
  <1>9. \A c : Sent(c) \subseteq Sent(c)'
    BY <1>2 DEF Sent
  <1>10. reason # "complete"
    BY <1>5
  <1>11. GoOn(S, reason)
    BY <1>2, <1>8, <1>9, <1>10 DEF GoOn
  <1>12. UNCHANGED <<current, open, stored, loads, loaded, booting, edits>>
    BY <1>2
  <1> QED
    BY <1>5, <1>6, <1>7, <1>11, <1>12, StopKeeps

\* A step that stops every stream.
LEMMA StopAllKeeps ==
  ASSUME StreamsAssumption, Inv, NEW reason \in {"abort", "error"},
         store' = Stop(store, Convs, reason), calls' = calls, sent' = sent,
         \A r \in Requests :
           /\ calls[r].pc \in {"new", "rag"} => backend'[r] = backend[r]
           /\ backend[r] = "ended" => backend'[r] = "ended",
         UNCHANGED <<current, open, stored, loads, loaded, booting, edits>>,
         removals' \in 0 .. MaxRemovals,
         backend' \in [Requests -> {"none", "running", "ended"}],
         disturbed \subseteq disturbed', disturbed' \subseteq Reqs
  PROVE  Inv'
  <1>1. TypeOK
    BY DEF Inv
  <1>2. /\ sent' \in [Requests -> 0 .. MaxTokens] /\ calls' \in [Requests -> Sends]
        /\ \A c : Sent(c) \subseteq Sent(c)'
    BY <1>1 DEF TypeOK, Sent
  <1>3. CASE Streamers(store, Convs) = {}
    <2>1. store' = store
      BY <1>3, StopNothing
    <2> QED
      BY <1>2, <2>1, SameStoreKeeps
  <1>4. CASE Streamers(store, Convs) # {}
    <2>1. PICK S : S = Streamers(store, Convs)
      OBVIOUS
    <2>2. S \in SUBSET Convs /\ store \in Stores /\ Convs \in SUBSET Convs
      BY <1>1, <2>1, StoreTyped DEF Streamers
    <2>3. reason \in {"complete", "abort", "error"} /\ reason # "complete"
      OBVIOUS
    <2>4. Stopped(store, store', S, reason)
      BY <1>4, <2>1, <2>2, <2>3, StopEffect
    <2>5. Marked(store, store', S, reason)
      BY <1>4, <2>1, <2>2, <2>3, StopEffect
    <2>6. \A c \in Convs : SameIds(store.msgs[c], store'.msgs[c])
      BY <2>2, <2>3, <2>5, MarkedIds
    <2>7. GoOn(S, reason)
      BY <1>2, <2>3 DEF GoOn
    <2> QED
      BY <2>2, <2>3, <2>4, <2>6, <2>7, StopKeeps
  <1> QED
    BY <1>3, <1>4

\* The requests a hazard touches are requests.
LEMMA ObserversTyped ==
  ASSUME TypeOK, NEW C \in SUBSET Convs
  PROVE  TooEarly(C) \subseteq Reqs
  <1> SUFFICES ASSUME NEW c \in C
               PROVE  Owner(store.msgs[c]) \subseteq Reqs
    BY DEF TooEarly, Reqs
  <1>1. store.msgs[c] \in Seq(Messages)
    BY StoreTyped
  <1> QED
    BY <1>1, OwnersTyped

LEMMA LeavePageKeeps ==
  ASSUME StreamsAssumption, Inv, LeavePage
  PROVE  Inv'
  <1>1. TypeOK
    BY DEF Inv
  <1>2. /\ store' = Stop(store, Convs, "abort")
        /\ disturbed' = disturbed \cup TooEarly(Convs)
        /\ removals < MaxRemovals /\ removals' = removals + 1
        /\ UNCHANGED <<current, open, calls, sent, backend, stored, loads, loaded, booting, edits>>
    BY DEF LeavePage
  <1>3. TooEarly(Convs) \subseteq Reqs
    BY <1>1, ObserversTyped
  <1>4. /\ disturbed \subseteq disturbed' /\ disturbed' \subseteq Reqs
        /\ removals' \in 0 .. MaxRemovals
        /\ backend' \in [Requests -> {"none", "running", "ended"}]
    BY <1>1, <1>2, <1>3, StreamsAssumption DEF TypeOK
  <1>5. PICK reason \in {"abort", "error"} : reason = "abort"
    OBVIOUS
  <1> QED
    BY <1>2, <1>4, <1>5, StopAllKeeps

LEMMA ConvOfStreams ==
  ASSUME NEW r, Streaming(r) # {}
  PROVE  ConvOf(r) \in Convs /\ store.active[ConvOf(r)] = r
  <1>1. ConvOf(r) \in Streaming(r)
    BY DEF ConvOf
  <1> QED
    BY <1>1 DEF Streaming

\* A step that stops the stream of one conversation.
LEMMA StopOneKeeps ==
  ASSUME StreamsAssumption, Inv, NEW c \in Convs, store.active[c] # None,
         NEW reason \in {"abort", "error"},
         store' = Stop(store, {c}, reason), calls' = calls, sent' = sent,
         \A r \in Requests :
           /\ calls[r].pc \in {"new", "rag"} => backend'[r] = backend[r]
           /\ backend[r] = "ended" => backend'[r] = "ended",
         UNCHANGED <<current, open, stored, loads, loaded, booting, edits>>,
         removals' \in 0 .. MaxRemovals,
         backend' \in [Requests -> {"none", "running", "ended"}],
         disturbed \subseteq disturbed', disturbed' \subseteq Reqs
  PROVE  Inv'
  <1>1. TypeOK
    BY DEF Inv
  <1>2. /\ sent' \in [Requests -> 0 .. MaxTokens] /\ calls' \in [Requests -> Sends]
        /\ \A x : Sent(x) \subseteq Sent(x)'
    BY <1>1 DEF TypeOK, Sent
  <1>3. PICK S \in SUBSET Convs : S = {c}
    OBVIOUS
  <1>4. reason \in {"complete", "abort", "error"} /\ reason # "complete"
    OBVIOUS
  <1>5. store \in Stores
    BY <1>1, StoreTyped
  <1>6. Stopped(store, store', S, reason)
    BY <1>3, <1>4, <1>5, StopOne, ZenonT(30)
  <1>7. Marked(store, store', S, reason)
    BY <1>3, <1>4, <1>5, StopOne, ZenonT(30)
  <1>8. \A x \in Convs : SameIds(store.msgs[x], store'.msgs[x])
    BY <1>4, <1>5, <1>7, MarkedIds
  <1>9. GoOn(S, reason)
    BY <1>2, <1>4 DEF GoOn
  <1> QED
    BY <1>4, <1>6, <1>8, <1>9, StopKeeps

LEMMA ErrorEventKeeps ==
  ASSUME StreamsAssumption, Inv, NEW r \in Requests, ErrorEvent(r)
  PROVE  Inv'
  <1>1. TypeOK /\ CallsInv
    BY DEF Inv
  <1>2. /\ backend[r] = "running" /\ backend' = [backend EXCEPT ![r] = "ended"]
        /\ store' = AfterError(r)
        /\ UNCHANGED <<current, open, calls, sent, stored, loads, loaded, booting, disturbed,
                       edits, removals>>
    BY DEF ErrorEvent, counts
  <1>3. /\ \A q \in Requests :
             /\ calls[q].pc \in {"new", "rag"} => backend'[q] = backend[q]
             /\ backend[q] = "ended" => backend'[q] = "ended"
        /\ backend' \in [Requests -> {"none", "running", "ended"}]
        /\ removals' \in 0 .. MaxRemovals
        /\ disturbed \subseteq disturbed' /\ disturbed' \subseteq Reqs
    BY <1>1, <1>2 DEF CallsInv, TypeOK
  <1>4. PICK reason \in {"abort", "error"} : reason = "error"
    OBVIOUS
  <1>5. CASE Streaming(r) = {}
    <2>1. store' = Stop(store, Convs, reason)
      BY <1>2, <1>4, <1>5 DEF AfterError
    <2> QED
      BY <1>2, <1>3, <2>1, StopAllKeeps
  <1>6. CASE Streaming(r) # {}
    <2>1. PICK c \in Convs : c = ConvOf(r) /\ store.active[c] = r
      BY <1>6, ConvOfStreams
    <2>2. store' = Stop(store, {c}, reason)
      BY <1>2, <1>4, <1>6, <2>1 DEF AfterError, StopStream
    <2>3. store.active[c] # None
      BY <2>1, StreamsAssumption
    <2> QED
      BY <1>2, <1>3, <2>2, <2>3, StopOneKeeps
  <1> QED
    BY <1>5, <1>6

LEMMA SilentEndKeeps ==
  ASSUME StreamsAssumption, Inv, NEW r \in Requests, SilentEnd(r)
  PROVE  Inv'
  <1>1. TypeOK /\ CallsInv
    BY DEF Inv
  <1>2. /\ backend[r] = "running" /\ backend' = [backend EXCEPT ![r] = "ended"]
        /\ UNCHANGED <<store, current, open, calls, sent, stored, loads, loaded, booting,
                       disturbed, edits, removals>>
    BY DEF SilentEnd, counts
  <1>3. /\ \A q \in Requests :
             /\ calls[q].pc \in {"new", "rag"} => backend'[q] = backend[q]
             /\ backend[q] = "ended" => backend'[q] = "ended"
        /\ backend' \in [Requests -> {"none", "running", "ended"}]
        /\ removals' \in 0 .. MaxRemovals /\ calls' \in [Requests -> Sends]
        /\ sent' \in [Requests -> 0 .. MaxTokens]
        /\ disturbed \subseteq disturbed' /\ disturbed' \subseteq Reqs
        /\ \A x : Sent(x) \subseteq Sent(x)'
    BY <1>1, <1>2 DEF CallsInv, TypeOK, Sent
  <1> QED
    BY <1>2, <1>3, SameStoreKeeps

\* The flag and the lists if a step changes the buffers alone.
LEMMA BuffersKeep ==
  ASSUME StreamsAssumption, Inv, store' \in Stores,
         store'.msgs = store.msgs, store'.active = store.active,
         store'.streaming = store.streaming, store'.outcome = store.outcome,
         UNCHANGED <<calls, backend, current, open, stored, loads, loaded, booting, edits, removals,
                     disturbed>>,
         sent' \in [Requests -> 0 .. MaxTokens],
         \A r \in Requests : calls[r].pc \in {"new", "rag"} => sent'[r] = sent[r]
  PROVE  TypeOK' /\ FlagTruthful' /\ CallsInv' /\ IdsInv'
  <1>1. TypeOK /\ FlagTruthful /\ CallsInv /\ IdsInv
    BY DEF Inv
  <1>2. /\ backend' \in [Requests -> {"none", "running", "ended"}] /\ calls' \in [Requests -> Sends]
        /\ removals' \in 0 .. MaxRemovals /\ disturbed' \subseteq Reqs
        /\ \A x : Sent(x) \subseteq Sent(x)'
    BY <1>1 DEF TypeOK, Sent
  <1>3. \A c \in Convs : Own(store'.msgs[c], Sent(c)')
    BY <1>1, <1>2, OwnStays DEF IdsInv
  <1>4. stored' \in [Convs -> Seq(Messages)] /\ \A c \in Convs : Own(stored'[c], Sent(c)')
    BY <1>1, <1>2, OwnStays DEF IdsInv, TypeOK
  <1>5. TypeOK' /\ IdsInv'
    BY <1>2, <1>3, <1>4, RestKept
  <1>6. FlagTruthful'
    BY <1>1 DEF FlagTruthful
  <1>7. CallsInv'
    BY <1>1 DEF CallsInv
  <1> QED
    BY <1>5, <1>6, <1>7

LEMMA AnimationFrameKeeps ==
  ASSUME StreamsAssumption, Inv, AnimationFrame
  PROVE  Inv'
  <1>1. TypeOK /\ QuietInv
    BY DEF Inv
  <1>2. /\ store' = FlushPendingBatches(store)
        /\ UNCHANGED <<current, open, calls, sent, backend, stored, loads, loaded, booting,
                       disturbed, edits, removals>>
    BY DEF AnimationFrame, counts
  <1>3. /\ store' \in Stores /\ store'.msgs = store.msgs /\ store'.active = store.active
        /\ store'.live = [c \in Convs |-> Flushed(store, c)] /\ store'.metrics = store.metrics
        /\ store'.batch = [c \in Convs |-> NoBatch]
        /\ store'.streaming = store.streaming /\ store'.outcome = store.outcome
    BY <1>1, <1>2, StoreTyped, FlushEffect
  <1>4. /\ sent' \in [Requests -> 0 .. MaxTokens]
        /\ \A r \in Requests : calls[r].pc \in {"new", "rag"} => sent'[r] = sent[r]
    BY <1>1, <1>2 DEF TypeOK
  <1>5. TypeOK' /\ FlagTruthful' /\ CallsInv' /\ IdsInv'
    BY <1>2, <1>3, <1>4, BuffersKeep
  <1>6. QuietInv'
    <2>1. \A c \in Convs : store'.batch[c] = NoBatch /\ store'.live[c] = Flushed(store, c)
      BY <1>3
    <2>2. \A c \in Convs : store.active[c] = None => Flushed(store, c) = <<>>
      BY <1>1 DEF QuietInv, Flushed, NoBatch
    <2> QED
      BY <1>1, <1>3, <2>1, <2>2 DEF QuietInv, NoBatch
  <1> QED
    BY <1>5, <1>6 DEF Inv

LEMMA TokenKeeps ==
  ASSUME StreamsAssumption, Inv, NEW r \in Requests, Token(r)
  PROVE  Inv'
  <1>1. TypeOK /\ FlagTruthful /\ QuietInv /\ CallsInv /\ IdsInv
    BY DEF Inv
  <1>2. /\ backend[r] = "running" /\ sent[r] < MaxTokens
        /\ sent' = [sent EXCEPT ![r] = sent[r] + 1]
        /\ UNCHANGED <<current, open, calls, backend, stored, loads, loaded, booting, disturbed,
                       edits, removals>>
    BY DEF Token, counts
  <1>3. /\ sent' \in [Requests -> 0 .. MaxTokens] /\ sent[r] \in Nat
        /\ \A q \in Requests : calls[q].pc \in {"new", "rag"} => sent'[q] = sent[q]
    BY <1>1, <1>2, StreamsAssumption DEF CallsInv, TypeOK
  <1>4. CASE Streaming(r) = {}
    <2>1. store' = store
      BY <1>4 DEF Token
    <2>2. TypeOK' /\ FlagTruthful' /\ CallsInv' /\ IdsInv'
      BY <1>1, <1>2, <1>3, <2>1, StoreTyped, BuffersKeep
    <2>3. QuietInv'
      BY <1>1, <1>2, <2>1 DEF QuietInv
    <2> QED
      BY <2>2, <2>3 DEF Inv
  <1>5. CASE Streaming(r) # {}
    <2>1. PICK c \in Convs : c = ConvOf(r) /\ store.active[c] = r
      BY <1>5, ConvOfStreams
    <2>2. PICK token \in Seq(Chunks) : token = <<<<r, sent[r] + 1>>>>
      <3>1. <<r, sent[r] + 1>> \in Chunks
        BY <1>2, <1>3, StreamsAssumption DEF Chunks, Reqs
      <3>2. <<<<r, sent[r] + 1>>>> \in Seq(Chunks)
        BY <3>1
      <3> QED
        BY <3>2
    <2>3. store' = BufferToken(store, c, r, token)
      BY <1>5, <2>1, <2>2 DEF Token
    <2>4. store \in Stores
      BY <1>1, StoreTyped
    <2>5. /\ store' \in Stores
          /\ store'.msgs = store.msgs /\ store'.live = store.live
          /\ store'.metrics = store.metrics /\ store'.active = store.active
          /\ store'.streaming = store.streaming /\ store'.outcome = store.outcome
          /\ store'.batch = [store.batch EXCEPT
                ![c] = [req |-> IF store.batch[c].req = None THEN r ELSE store.batch[c].req,
                        text |-> IF store.batch[c].req = None THEN token
                                 ELSE store.batch[c].text \o token]]
      BY <2>3, <2>4, BufferEffect
    <2>6. TypeOK' /\ FlagTruthful' /\ CallsInv' /\ IdsInv'
      BY <1>2, <1>3, <2>5, BuffersKeep
    <2>7. /\ \A d \in Convs \ {c} : store'.batch[d] = store.batch[d]
          /\ store'.batch[c].req = IF store.batch[c].req = None THEN r ELSE store.batch[c].req
      BY <1>1, <2>5, StoreTyped
    <2>8. QuietInv'
      <3> SUFFICES ASSUME NEW d \in Convs
                   PROVE  /\ store'.metrics[d] = None
                          /\ store'.active[d] = None =>
                               store'.live[d] = <<>> /\ store'.batch[d] = NoBatch
                          /\ store'.batch[d].req = None => store'.batch[d].text = <<>>
                          /\ store'.batch[d].req # None /\ store'.batch[d].req \notin disturbed'
                               => store'.active[d] = store'.batch[d].req
        BY DEF QuietInv
      <3>1. CASE d = c
        BY <1>1, <1>2, <2>1, <2>5, <2>7, <3>1, StreamsAssumption DEF QuietInv
      <3>2. CASE d # c
        BY <1>1, <1>2, <2>5, <2>7, <3>2 DEF QuietInv
      <3> QED
        BY <3>1, <3>2
    <2> QED
      BY <2>6, <2>8 DEF Inv
  <1> QED
    BY <1>4, <1>5

LEMMA DoneTokenKeeps ==
  ASSUME StreamsAssumption, Inv, NEW r \in Requests, DoneToken(r)
  PROVE  Inv'
  <1>1. TypeOK /\ CallsInv /\ QuietInv /\ IdsInv
    BY DEF Inv
  <1>2. /\ backend[r] = "running" /\ backend' = [backend EXCEPT ![r] = "ended"]
        /\ UNCHANGED <<current, open, calls, sent, loads, loaded, booting, disturbed, edits,
                       removals>>
    BY DEF DoneToken, counts
  <1>3. /\ \A q \in Requests :
             /\ calls[q].pc \in {"new", "rag"} => backend'[q] = backend[q]
             /\ backend[q] = "ended" => backend'[q] = "ended"
        /\ backend' \in [Requests -> {"none", "running", "ended"}] /\ backend'[r] = "ended"
        /\ removals' \in 0 .. MaxRemovals /\ calls' \in [Requests -> Sends]
        /\ sent' \in [Requests -> 0 .. MaxTokens]
        /\ disturbed \subseteq disturbed' /\ disturbed' \subseteq Reqs
        /\ \A x : Sent(x) \subseteq Sent(x)'
    BY <1>1, <1>2 DEF CallsInv, TypeOK, Sent
  <1>4. CASE Streaming(r) = {}
    <2>1. UNCHANGED <<store, stored>>
      BY <1>4 DEF DoneToken
    <2> QED
      BY <1>2, <1>3, <2>1, SameStoreKeeps
  <1>5. CASE Streaming(r) # {}
    <2>1. PICK c \in Convs : c = ConvOf(r) /\ store.active[c] = r
      BY <1>5, ConvOfStreams
    <2>2. /\ store' = Stop(SetPendingMetrics(BufferToken(store, c, r, <<>>), c, r), {c}, "complete")
          /\ stored' = IF /\ c \in open /\ store'.msgs[c] # <<>>
                          /\ Last(store'.msgs[c]).id[2] = "assistant"
                       THEN [stored EXCEPT ![c] = Saved(stored[c], Last(store'.msgs[c]))]
                       ELSE stored
      BY <1>5, <2>1 DEF DoneToken
    <2>3. store \in Stores
      BY <1>1, StoreTyped
    <2>4. store' = Stop(SetPendingMetrics(BufferToken(store, c, r, <<>>), c, r), {c}, "complete")
      BY <2>2
    <2>5. Stopped(store, store', {c}, "complete")
      BY <2>1, <2>3, <2>4, DoneEffect, StreamsAssumption
    <2>6. Completed(store, store', c, r)
      BY <2>1, <2>3, <2>4, DoneEffect, StreamsAssumption
    <2>7. store'.msgs[c] = UpdatedLast(store.msgs[c], Flushed(store, c), "clear", r)
      BY <2>6 DEF Completed
    <2>8. Elsewhere(store, store', c)
      BY <2>1, <2>3, <2>4, DoneEffect, StreamsAssumption
    <2>9. \A d \in Convs \ {c} : store'.msgs[d] = store.msgs[d]
      BY <2>8 DEF Elsewhere
    <2>10. \A d \in Convs : SameIds(store.msgs[d], store'.msgs[d])
      <3>1. PICK clear \in {"keep", "set", "clear"} : clear = "clear"
        OBVIOUS
      <3>2. store.msgs[c] \in Seq(Messages) /\ r \in Reqs \cup {None} /\ store \in Stores
        BY <1>1, StoreTyped DEF Reqs
      <3>3. SameIds(store.msgs[c], UpdatedLast(store.msgs[c], Flushed(store, c), clear, r))
        BY <3>2, FlushedTyped, UpdatedLastIds
      <3> QED
        BY <2>9, <2>7, <3>1, <3>3 DEF SameIds
    <2>11. store'.msgs \in [Convs -> Seq(Messages)] /\ Own(store'.msgs[c], Sent(c))
      <3>1. store' \in Stores
        BY <2>5 DEF Stopped
      <3>2. Own(store.msgs[c], Sent(c))
        BY <1>1 DEF IdsInv
      <3> QED
        BY <2>10, <3>1, <3>2, StoreFields, OwnSameIds
    <2>12. stored' \in [Convs -> Seq(Messages)] /\ \A d \in Convs : Own(stored'[d], Sent(d))
      <3> DEFINE ms == store'.msgs[c]
      <3>1. stored \in [Convs -> Seq(Messages)] /\ \A d \in Convs : Own(stored[d], Sent(d))
        BY <1>1 DEF TypeOK, IdsInv
      <3>2. CASE ms = <<>>
        BY <2>2, <3>1, <3>2
      <3>3. CASE ms # <<>>
        <4>1. ms \in Seq(Messages) /\ Len(ms) \in DOMAIN ms /\ Last(ms) = ms[Len(ms)]
          BY <2>11, <3>3 DEF Last
        <4>2. Last(ms) \in Messages /\ (Last(ms).id[1] \in Requests => Last(ms).id[1] \in Sent(c))
          BY <2>11, <4>1 DEF Own
        <4>3. Saved(stored[c], Last(ms)) \in Seq(Messages)
          BY <3>1, <4>2, SavedKeeps DEF Own
        <4>4. Own(Saved(stored[c], Last(ms)), Sent(c))
          BY <3>1, <4>2, OwnSaved
        <4> QED
          BY <2>2, <3>1, <4>3, <4>4
      <3> QED
        BY <3>2, <3>3
    <2>13. \A d \in Convs : Own(stored'[d], Sent(d)')
      BY <1>3, <2>12, OwnStays
    <2>14. PICK S \in SUBSET Convs, reason \in {"complete", "abort", "error"} :
            S = {c} /\ reason = "complete"
      OBVIOUS
    <2>15. GoOn(S, reason)
      BY <1>2, <1>3, <2>1, <2>14 DEF GoOn
    <2>16. Stopped(store, store', S, reason)
      BY <2>5, <2>14
    <2>17. UNCHANGED <<current, open, loads, loaded, booting, edits>>
      BY <1>2
    <2>18. stored' \in [Convs -> Seq(Messages)]
      BY <2>12
    <2> QED
      BY <2>10, <2>13, <2>15, <2>16, <2>17, <2>18, StopAndSaveKeeps
  <1> QED
    BY <1>4, <1>5

LEMMA ChatRejectsKeeps ==
  ASSUME StreamsAssumption, Inv, NEW r \in Requests, ChatRejects(r)
  PROVE  Inv'
  <1> DEFINE c == calls[r].conv
  <1>1. TypeOK /\ CallsInv /\ QuietInv
    BY DEF Inv
  <1>2. PICK pc \in {"chat", "done"} : pc = "done"
    OBVIOUS
  <1>3. /\ calls[r].pc = "chat" /\ calls' = [calls EXCEPT ![r].pc = pc]
        /\ UNCHANGED <<current, open, sent, stored, loads, loaded, booting, edits, removals>>
    BY <1>2 DEF ChatRejects, counts
  <1>4. /\ calls' \in [Requests -> Sends]
        /\ \A q \in Requests : /\ calls'[q].conv = calls[q].conv
                               /\ calls'[q].edit = calls[q].edit
                               /\ calls'[q].drop = calls[q].drop
                               /\ calls'[q].pc = IF q = r THEN pc ELSE calls[q].pc
        /\ \A x : Sent(x) \subseteq Sent(x)'
    <2>1. calls \in [Requests -> Sends]
      BY <1>1 DEF TypeOK
    <2>2. calls' = [calls EXCEPT ![r].pc = pc]
      BY <1>3
    <2>3. Moved(r, pc)
      BY <2>1, <2>2, SentStays
    <2> QED
      BY <2>3 DEF Moved
  <1>5. c \in Convs
    BY <1>1, <1>3 DEF CallsInv
  <1>6. PICK b \in {backend[r], "ended"} : backend' = [backend EXCEPT ![r] = b]
    BY DEF ChatRejects
  <1>7. /\ backend' \in [Requests -> {"none", "running", "ended"}]
        /\ \A q \in Requests :
             /\ q # r => backend'[q] = backend[q]
             /\ backend[q] = "ended" => backend'[q] = "ended"
    BY <1>1, <1>6 DEF TypeOK
  <1>8. \A q \in Requests :
          /\ calls'[q].pc = "new" <=> calls[q].pc = "new"
          /\ calls'[q].pc \in {"new", "rag"} =>
               calls[q].pc \in {"new", "rag"} /\ backend'[q] = backend[q] /\ sent'[q] = sent[q]
    BY <1>2, <1>3, <1>4, <1>7
  <1>9. disturbed \subseteq disturbed' /\ disturbed' \subseteq Reqs
    <2>1. Owner(store.msgs[c]) \subseteq Reqs
      <3>1. store.msgs[c] \in Seq(Messages)
        BY <1>1, <1>5, StoreTyped
      <3> QED
        BY <3>1, OwnersTyped
    <2>2. store.active[c] \in Requests \cup {None} /\ disturbed \subseteq Reqs
      BY <1>1, <1>5, StoreTyped DEF TypeOK
    <2>3. disturbed' = IF store.active[c] \in {None, r} THEN disturbed
                       ELSE disturbed \cup {store.active[c]} \cup Owner(store.msgs[c])
      BY DEF ChatRejects
    <2> QED
      BY <2>1, <2>2, <2>3 DEF Reqs
  <1>10. removals' \in 0 .. MaxRemovals /\ sent' \in [Requests -> 0 .. MaxTokens]
    BY <1>1, <1>3 DEF TypeOK
  <1>11. UNCHANGED <<current, open, stored, loads, loaded, booting, edits>>
    BY <1>3
  <1>12. CASE store.active[c] = None
    <2>1. store' = store
      BY <1>12 DEF ChatRejects, Resolved
    <2> QED
      BY <1>4, <1>7, <1>8, <1>9, <1>10, <1>11, <2>1, SameStoreKeeps
  <1>13. CASE store.active[c] # None
    <2> DEFINE told == [FlushAndStop(store, c) EXCEPT
                          !.msgs[c] = UpdatedLast(@, <<<<r, 0>>>>, "keep", None)]
    <2>1. store' = Stop(told, {c}, "error")
      BY <1>13 DEF ChatRejects, Resolved
    <2>2. store \in Stores /\ store.metrics[c] = None
      BY <1>1, <1>5, StoreTyped DEF QuietInv
    <2>3. PICK t : t = told
      OBVIOUS
    <2>4. Stopped(store, store', {c}, "error")
      BY <1>5, <1>13, <2>1, <2>2, RejectEffect
    <2>5. Rejected(store, store', c, r)
      BY <1>5, <1>13, <2>1, <2>2, RejectEffect
    <2>6. Elsewhere(store, store', c)
      BY <1>5, <1>13, <2>1, <2>2, RejectEffect
    <2> HIDE DEF told
    <2>7. \A d \in Convs : SameIds(store.msgs[d], store'.msgs[d])
      <3>1. PICK keep \in {"keep", "set", "clear"}, none \in Reqs \cup {None},
                 error \in Seq(Chunks) :
              keep = "keep" /\ none = None /\ error = <<<<r, 0>>>>
        <4>1. <<r, 0>> \in Chunks
          BY StreamsAssumption DEF Chunks, Reqs
        <4>2. <<<<r, 0>>>> \in Seq(Chunks)
          BY <4>1
        <4> QED
          BY <4>2
      <3>2. PICK first : first = UpdatedLast(store.msgs[c], Flushed(store, c), keep, none)
        OBVIOUS
      <3>3. store.msgs[c] \in Seq(Messages)
        BY <1>1, <1>5, StoreTyped
      <3>4. SameIds(store.msgs[c], first) /\ first \in Seq(Messages)
        BY <1>5, <2>2, <3>2, <3>3, FlushedTyped, UpdatedLastIds, UpdatedLastTyped
      <3>5. SameIds(first, UpdatedLast(first, error, keep, none))
        BY <3>4, UpdatedLastIds
      <3>6. store'.msgs[c] = UpdatedLast(first, error, keep, none)
        BY <2>5, <3>1, <3>2 DEF Rejected
      <3>7. SameIds(store.msgs[c], store'.msgs[c])
        BY <3>4, <3>5, <3>6 DEF SameIds
      <3> QED
        BY <2>6, <3>7 DEF SameIds, Elsewhere
    <2>8. PICK S \in SUBSET Convs, reason \in {"complete", "abort", "error"} :
            S = {c} /\ reason = "error"
      BY <1>5
    <2>9. Stopped(store, store', S, reason)
      BY <2>4, <2>8
    <2>10. GoOn(S, reason)
      BY <1>4, <1>7, <1>8, <1>9, <1>10, <2>8 DEF GoOn
    <2> QED
      BY <1>11, <2>7, <2>9, <2>10, StopKeeps
  <1> QED
    BY <1>12, <1>13

\* The calls and the flag if a step changes messages, and lists, alone.
LEMMA MessagesKeep ==
  ASSUME StreamsAssumption, Inv,
         store'.live = store.live, store'.metrics = store.metrics,
         store'.active = store.active, store'.batch = store.batch,
         store'.streaming = store.streaming, store'.outcome = store.outcome,
         calls' = calls, sent' = sent, backend' = backend,
         disturbed \subseteq disturbed', edits' \in Int, edits' >= edits
  PROVE  FlagTruthful' /\ QuietInv' /\ CallsInv' /\ \A c : Sent(c) = Sent(c)'
  <1>1. TypeOK /\ FlagTruthful /\ QuietInv /\ CallsInv
    BY DEF Inv
  <1>2. FlagTruthful' /\ QuietInv'
    BY <1>1, MessagesKeepQuiet
  <1>3. \A q \in Requests :
          /\ calls'[q].conv = calls[q].conv /\ calls'[q].drop = calls[q].drop
          /\ calls'[q].edit = calls[q].edit
          /\ calls'[q].pc = "new" <=> calls[q].pc = "new"
          /\ calls'[q].pc \in {"new", "rag"} =>
               calls[q].pc \in {"new", "rag"} /\ backend'[q] = backend[q] /\ sent'[q] = sent[q]
          /\ calls'[q].pc = "new" => store'.outcome[q] = "none"
          /\ store'.outcome[q] = "complete" => backend'[q] = "ended"
    BY <1>1 DEF CallsInv
  <1>4. \A c \in Convs :
          /\ store'.active[c] \in {None, store.active[c]}
          /\ store'.active[c] # None => store'.outcome[store'.active[c]] = "none"
    BY <1>1 DEF CallsInv
  <1>5. CallsInv'
    BY <1>1, <1>3, <1>4, CallsKept
  <1>6. \A c : Sent(c) = Sent(c)'
    BY DEF Sent
  <1> QED
    BY <1>2, <1>5, <1>6

LEMMA SwitchToKeeps ==
  ASSUME StreamsAssumption, Inv, NEW c \in Convs, SwitchTo(c)
  PROVE  Inv'
  <1>1. TypeOK /\ IdsInv
    BY DEF Inv
  <1>2. /\ c \in open /\ current' = c
        /\ loads' = [d \in Convs |-> IF d = c /\ c \notin loaded /\ store.msgs[c] = <<>>
                                     THEN {stored[c]} ELSE {}]
        /\ UNCHANGED <<store, open, calls, sent, backend, stored, loaded, booting, disturbed,
                       edits, removals>>
    BY DEF SwitchTo, counts
  <1>3. edits' \in Int /\ edits' >= edits
    BY <1>1, <1>2, StreamsAssumption DEF TypeOK
  <1>4. FlagTruthful' /\ QuietInv' /\ CallsInv' /\ \A x : Sent(x) = Sent(x)'
    BY <1>2, <1>3, MessagesKeep
  <1>5. loads' \in [Convs -> SUBSET Seq(Messages)]
    BY <1>1, <1>2 DEF TypeOK
  <1>6. TypeOK'
    BY <1>1, <1>2, <1>5 DEF TypeOK
  <1>7. IdsInv'
    <2>1. \A x \in Convs : loads'[x] \subseteq loads[x] \cup {stored[x]}
      BY <1>2
    <2>2. \A x \in Convs : Own(store'.msgs[x], Sent(x)') /\ Own(stored'[x], Sent(x)')
      BY <1>1, <1>2, <1>4 DEF IdsInv
    <2> QED
      BY <1>1, <1>2, <1>4, <2>1, <2>2, IdsKept
  <1> QED
    BY <1>4, <1>6, <1>7 DEF Inv

LEMMA LoadFailsKeeps ==
  ASSUME StreamsAssumption, Inv, NEW c \in Convs, LoadFails(c)
  PROVE  Inv'
  <1>1. TypeOK /\ IdsInv
    BY DEF Inv
  <1>2. /\ loads' = [loads EXCEPT ![c] = {}]
        /\ UNCHANGED <<store, current, open, calls, sent, backend, stored, loaded, booting,
                       disturbed, edits, removals>>
    BY DEF LoadFails, counts
  <1>3. edits' \in Int /\ edits' >= edits
    BY <1>1, <1>2, StreamsAssumption DEF TypeOK
  <1>4. FlagTruthful' /\ QuietInv' /\ CallsInv' /\ \A x : Sent(x) = Sent(x)'
    BY <1>2, <1>3, MessagesKeep
  <1>5. TypeOK'
    BY <1>1, <1>2 DEF TypeOK
  <1>6. IdsInv'
    <2>1. \A x \in Convs : loads'[x] \subseteq loads[x] \cup {stored[x]}
      BY <1>1, <1>2 DEF TypeOK
    <2>2. \A x \in Convs : Own(store'.msgs[x], Sent(x)') /\ Own(stored'[x], Sent(x)')
      BY <1>1, <1>2, <1>4 DEF IdsInv
    <2> QED
      BY <1>1, <1>2, <1>4, <2>1, <2>2, IdsKept
  <1> QED
    BY <1>4, <1>5, <1>6 DEF Inv

\* What a load writes.
LEMMA SetMessagesEffect ==
  ASSUME TypeOK, NEW c \in Convs, NEW snapshot \in Seq(Messages), SetMessages(c, snapshot)
  PROVE  /\ store' \in Stores
         /\ store'.live = store.live /\ store'.metrics = store.metrics
         /\ store'.active = store.active /\ store'.batch = store.batch
         /\ store'.streaming = store.streaming /\ store'.outcome = store.outcome
         /\ \A d \in Convs \ {c} : store'.msgs[d] = store.msgs[d]
         /\ store'.msgs[c] \in {store.msgs[c], snapshot}
         /\ disturbed \subseteq disturbed' /\ disturbed' \subseteq Reqs
  <1>1. CASE snapshot = <<>>
    BY <1>1, StoreTyped DEF SetMessages, TypeOK
  <1>2. CASE snapshot # <<>>
    <2> DEFINE msgs == [store.msgs EXCEPT ![c] = snapshot]
    <2>1. store' = [store EXCEPT !.msgs = msgs]
      BY <1>2 DEF SetMessages
    <2>2. msgs \in [Convs -> Seq(Messages)] /\ store \in Stores
      BY StoreTyped
    <2>3. \A d \in Convs : msgs[d] = IF d = c THEN snapshot ELSE store.msgs[d]
      BY StoreTyped
    <2> HIDE DEF msgs
    <2>4. /\ store' \in Stores /\ store'.msgs = msgs
          /\ store'.live = store.live /\ store'.metrics = store.metrics
          /\ store'.active = store.active /\ store'.batch = store.batch
          /\ store'.streaming = store.streaming /\ store'.outcome = store.outcome
      BY <2>1, <2>2 DEF Stores
    <2>5. disturbed \subseteq disturbed' /\ disturbed' \subseteq Reqs
      <3>1. /\ disturbed' = disturbed \cup Unresolved(c)
                             \cup (IF store.active[c] = None THEN {} ELSE Owner(snapshot))
            /\ disturbed \subseteq Reqs
        BY <1>2 DEF SetMessages, TypeOK
      <3>2. Owner(snapshot) \subseteq Reqs
        BY OwnersTyped
      <3>3. Unresolved(c) \subseteq Reqs
        BY DEF Unresolved, Reqs
      <3> QED
        BY <3>1, <3>2, <3>3
    <2> QED
      BY <2>3, <2>4, <2>5
  <1> QED
    BY <1>1, <1>2

LEMMA LoadReplyKeeps ==
  ASSUME StreamsAssumption, Inv, NEW c \in Convs, NEW snapshot \in Seq(Messages),
         Own(snapshot, Sent(c)), SetMessages(c, snapshot),
         UNCHANGED <<current, open, calls, sent, backend, stored, edits, removals>>,
         loaded' \subseteq Convs, booting' \subseteq booting,
         loads' \in [Convs -> SUBSET Seq(Messages)],
         \A d \in Convs : loads'[d] \subseteq loads[d]
  PROVE  Inv'
  <1>1. TypeOK /\ IdsInv
    BY DEF Inv
  <1>2. /\ store' \in Stores
        /\ store'.live = store.live /\ store'.metrics = store.metrics
        /\ store'.active = store.active /\ store'.batch = store.batch
        /\ store'.streaming = store.streaming /\ store'.outcome = store.outcome
        /\ \A d \in Convs \ {c} : store'.msgs[d] = store.msgs[d]
        /\ store'.msgs[c] \in {store.msgs[c], snapshot}
        /\ disturbed \subseteq disturbed' /\ disturbed' \subseteq Reqs
    BY <1>1, SetMessagesEffect
  <1>3. edits' \in Int /\ edits' >= edits
    BY <1>1, StreamsAssumption DEF TypeOK
  <1>4. FlagTruthful' /\ QuietInv' /\ CallsInv' /\ \A x : Sent(x) = Sent(x)'
    BY <1>2, <1>3, MessagesKeep
  <1>5. \A x \in Convs : Own(store'.msgs[x], Sent(x)') /\ Own(stored'[x], Sent(x)')
    BY <1>1, <1>2, <1>4 DEF IdsInv
  <1>6. \A x \in Convs : Distinct(store'.msgs[x]) /\ Distinct(stored'[x])
    BY <1>5 DEF Own
  <1>7. TypeOK'
    BY <1>1, <1>2, <1>6 DEF TypeOK
  <1>8. IdsInv'
    BY <1>1, <1>4, <1>5, IdsKept
  <1> QED
    BY <1>4, <1>7, <1>8 DEF Inv

LEMMA LoadRepliesKeeps ==
  ASSUME StreamsAssumption, Inv, NEW c \in Convs, LoadReplies(c)
  PROVE  Inv'
  <1>1. TypeOK /\ IdsInv
    BY DEF Inv
  <1>2. PICK snapshot \in loads[c] \cup {stored[c]} : SetMessages(c, snapshot)
    BY DEF LoadReplies
  <1>3. snapshot \in Seq(Messages) /\ Own(snapshot, Sent(c))
    BY <1>1 DEF TypeOK, IdsInv
  <1>4. /\ loads' = [loads EXCEPT ![c] = {}] /\ loaded' = loaded \cup {c}
        /\ UNCHANGED <<current, open, calls, sent, backend, stored, booting, edits, removals>>
    BY DEF LoadReplies, counts
  <1>5. /\ loaded' \subseteq Convs /\ loads' \in [Convs -> SUBSET Seq(Messages)]
        /\ \A d \in Convs : loads'[d] \subseteq loads[d]
    BY <1>1, <1>4 DEF TypeOK
  <1> QED
    BY <1>2, <1>3, <1>4, <1>5, LoadReplyKeeps

LEMMA BootRepliesKeeps ==
  ASSUME StreamsAssumption, Inv, BootReplies
  PROVE  Inv'
  <1>1. TypeOK /\ IdsInv
    BY DEF Inv
  <1>2. PICK b \in booting : \E snapshot \in {b[2], stored[b[1]]} : SetMessages(b[1], snapshot)
    BY DEF BootReplies
  <1>3. PICK snapshot \in {b[2], stored[b[1]]} : SetMessages(b[1], snapshot)
    BY <1>2
  <1>4. b[1] \in Convs /\ b[2] \in Seq(Messages)
    BY <1>1 DEF TypeOK
  <1>5. snapshot \in Seq(Messages) /\ Own(snapshot, Sent(b[1]))
    BY <1>1, <1>4 DEF TypeOK, IdsInv
  <1>6. /\ booting' = {}
        /\ UNCHANGED <<current, open, calls, sent, backend, stored, loads, loaded, edits, removals>>
    BY DEF BootReplies, counts
  <1>7. /\ loaded' \subseteq Convs /\ loads' \in [Convs -> SUBSET Seq(Messages)]
        /\ booting' \subseteq booting /\ \A d \in Convs : loads'[d] \subseteq loads[d]
    BY <1>1, <1>6 DEF TypeOK
  <1> QED
    BY <1>3, <1>4, <1>5, <1>6, <1>7, LoadReplyKeeps

LEMMA DeleteMessageKeeps ==
  ASSUME StreamsAssumption, Inv, NEW id, DeleteMessage(id)
  PROVE  Inv'
  <1>1. TypeOK /\ IdsInv
    BY DEF Inv
  <1>2. /\ edits < MaxEdits /\ edits' = edits + 1
        /\ current \in Convs
        /\ store' = RemoveMessage(store, current, id)
        /\ stored' = [stored EXCEPT ![current] = Without(stored[current], id)]
        /\ UNCHANGED <<current, open, calls, sent, backend, loads, loaded, booting, removals>>
    BY <1>1 DEF DeleteMessage, TypeOK
  <1>3. /\ store \in Stores /\ Distinct(store.msgs[current]) /\ Distinct(stored[current])
        /\ store.msgs \in [Convs -> Seq(Messages)] /\ stored \in [Convs -> Seq(Messages)]
    BY <1>1, <1>2, StoreTyped DEF TypeOK
  <1>4. /\ store' \in Stores
        /\ store'.live = store.live /\ store'.metrics = store.metrics
        /\ store'.active = store.active
        /\ store'.batch = store.batch /\ store'.streaming = store.streaming
        /\ store'.outcome = store.outcome
        /\ store'.msgs = [store.msgs EXCEPT ![current] = Without(store.msgs[current], id)]
    BY <1>2, <1>3, RemovedEffect
  <1>5. disturbed \subseteq disturbed' /\ disturbed' \subseteq Reqs
    <2>1. Owner(store'.msgs[current]) \subseteq Reqs
      <3>1. store'.msgs[current] \in Seq(Messages)
        BY <1>2, <1>4, StoreFields
      <3> QED
        BY <3>1, OwnersTyped
    <2>2. store.active[current] \in Requests \cup {None} /\ disturbed \subseteq Reqs
      BY <1>1, <1>2, StoreTyped DEF TypeOK
    <2>3. \/ disturbed' = disturbed
          \/ /\ store.active[current] # None
             /\ disturbed' = disturbed \cup {store.active[current]} \cup Owner(store'.msgs[current])
      BY <1>2 DEF DeleteMessage
    <2> QED
      BY <2>1, <2>2, <2>3 DEF Reqs
  <1>6. edits' \in 0 .. MaxEdits /\ edits' \in Int /\ edits' >= edits
    BY <1>1, <1>2, StreamsAssumption DEF TypeOK
  <1>7. FlagTruthful' /\ QuietInv' /\ CallsInv' /\ \A x : Sent(x) = Sent(x)'
    BY <1>2, <1>4, <1>5, <1>6, MessagesKeep
  <1>8. /\ Own(Without(store.msgs[current], id), Sent(current))
        /\ Own(Without(stored[current], id), Sent(current))
        /\ Without(stored[current], id) \in Seq(Messages)
    <2>1. Own(store.msgs[current], Sent(current)) /\ Own(stored[current], Sent(current))
      BY <1>1, <1>2 DEF IdsInv
    <2>2. store.msgs[current] \in Seq(Messages) /\ stored[current] \in Seq(Messages)
      BY <1>2, <1>3
    <2>3. Own(Without(store.msgs[current], id), Sent(current))
      BY <2>1, <2>2, OwnWithout
    <2>4. Own(Without(stored[current], id), Sent(current))
      BY <2>1, <2>2, OwnWithout
    <2>5. Without(stored[current], id) \in Seq(Messages)
      BY <1>3, <2>2, WithoutKeeps
    <2> QED
      BY <2>3, <2>4, <2>5
  <1>9. \A x \in Convs : Own(store'.msgs[x], Sent(x)')
    BY <1>1, <1>3, <1>4, <1>7, <1>8 DEF IdsInv
  <1>10. stored' \in [Convs -> Seq(Messages)] /\ \A x \in Convs : Own(stored'[x], Sent(x)')
    BY <1>1, <1>2, <1>3, <1>7, <1>8 DEF IdsInv
  <1>11. \A x \in Convs : Distinct(store'.msgs[x]) /\ Distinct(stored'[x])
    BY <1>9, <1>10 DEF Own
  <1>12. TypeOK'
    BY <1>1, <1>2, <1>4, <1>5, <1>6, <1>10, <1>11 DEF TypeOK
  <1>13. IdsInv'
    <2>1. \A x \in Convs : loads'[x] \subseteq loads[x] \cup {stored[x]}
      BY <1>2
    <2> QED
      BY <1>1, <1>2, <1>7, <1>9, <1>10, <2>1, IdsKept
  <1> QED
    BY <1>7, <1>12, <1>13 DEF Inv

\* Forgetting the messages of the conversations of C.
LEMMA ClearedEffect ==
  ASSUME NEW s \in Stores, NEW C, NEW t,
         t = [s EXCEPT !.msgs = [c \in Convs |-> IF c \in C THEN <<>> ELSE @[c]]]
  PROVE  /\ t \in Stores
         /\ t.live = s.live /\ t.metrics = s.metrics /\ t.active = s.active
         /\ t.batch = s.batch /\ t.streaming = s.streaming /\ t.outcome = s.outcome
         /\ \A c \in Convs : t.msgs[c] = IF c \in C THEN <<>> ELSE s.msgs[c]
  <1> DEFINE msgs == [c \in Convs |-> IF c \in C THEN <<>> ELSE s.msgs[c]]
  <1>1. t = [s EXCEPT !.msgs = msgs]
    OBVIOUS
  <1>2. msgs \in [Convs -> Seq(Messages)]
    BY StoreFields
  <1>3. \A c \in Convs : msgs[c] = IF c \in C THEN <<>> ELSE s.msgs[c]
    OBVIOUS
  <1> HIDE DEF msgs
  <1> QED
    BY <1>1, <1>2, <1>3 DEF Stores

LEMMA RemoveKeeps ==
  ASSUME StreamsAssumption, Inv, NEW C \in SUBSET Convs, NEW stopped \in Stores,
         NEW S \in SUBSET Convs, NEW reason \in {"complete", "abort", "error"},
         reason = "abort", stopped = store \/ Stopped(store, stopped, S, reason),
         \A c \in Convs : SameIds(store.msgs[c], stopped.msgs[c]),
         Remove(C, stopped)
  PROVE  Inv'
  <1>1. TypeOK /\ IdsInv /\ CallsInv /\ QuietInv
    BY DEF Inv
  <1>2. /\ removals < MaxRemovals /\ removals' = removals + 1
        /\ store' = [stopped EXCEPT !.msgs = [c \in Convs |-> IF c \in C THEN <<>> ELSE @[c]]]
        /\ open' = open \ C
        /\ current' = IF current \in C THEN None ELSE current
        /\ stored' = [c \in Convs |-> IF c \in C THEN <<>> ELSE stored[c]]
        /\ loads' = IF current \in C THEN [c \in Convs |-> {}] ELSE loads
        /\ disturbed' = disturbed \cup {r \in Requests : calls[r].conv \in C /\ calls[r].pc = "rag"}
        /\ UNCHANGED <<calls, sent, backend, loaded, booting, edits>>
    BY DEF Remove
  <1>3. /\ store' \in Stores
        /\ store'.live = stopped.live /\ store'.metrics = stopped.metrics
        /\ store'.active = stopped.active /\ store'.batch = stopped.batch
        /\ store'.streaming = stopped.streaming /\ store'.outcome = stopped.outcome
        /\ \A c \in Convs : store'.msgs[c] = IF c \in C THEN <<>> ELSE stopped.msgs[c]
    BY <1>2, ClearedEffect
  <1>4. /\ edits' \in Int /\ edits' >= edits
        /\ disturbed \subseteq disturbed' /\ disturbed' \subseteq Reqs
    BY <1>1, <1>2, StreamsAssumption DEF TypeOK, Reqs
  <1>5. FlagTruthful' /\ QuietInv' /\ CallsInv' /\ \A x : Sent(x) = Sent(x)'
    <2>1. CASE stopped = store
      BY <1>2, <1>3, <1>4, <2>1, MessagesKeep
    <2>2. CASE Stopped(store, stopped, S, reason)
      <3>1. Stopped(store, store', S, reason)
        BY <1>3, <2>2 DEF Stopped
      <3>2. FlagTruthful' /\ QuietInv'
        BY <1>1, <3>1, StopKeepsQuiet
      <3>3. /\ \A c \in Convs :
                 /\ store'.active[c] \in {None, store.active[c]}
                 /\ store'.active[c] # None => store'.outcome[store'.active[c]] = "none"
            /\ \A q \in Requests :
                 /\ calls[q].pc = "new" => store'.outcome[q] = "none"
                 /\ store'.outcome[q] # store.outcome[q] =>
                      store'.outcome[q] = reason /\ \E c \in S : store.active[c] = q
        BY <1>1, <3>1, StopKeepsOutcomes
      <3>4. \A q \in Requests :
              /\ calls'[q].conv = calls[q].conv /\ calls'[q].drop = calls[q].drop
              /\ calls'[q].edit = calls[q].edit
              /\ calls'[q].pc = "new" <=> calls[q].pc = "new"
              /\ calls'[q].pc \in {"new", "rag"} =>
                   calls[q].pc \in {"new", "rag"} /\ backend'[q] = backend[q] /\ sent'[q] = sent[q]
              /\ calls'[q].pc = "new" => store'.outcome[q] = "none"
              /\ store'.outcome[q] = "complete" => backend'[q] = "ended"
        BY <1>1, <1>2, <3>3 DEF CallsInv
      <3>5. CallsInv'
        BY <1>1, <1>4, <3>3, <3>4, CallsKept
      <3>6. \A x : Sent(x) = Sent(x)'
        BY <1>2 DEF Sent
      <3> QED
        BY <3>2, <3>5, <3>6
    <2> QED
      BY <2>1, <2>2
  <1>6. \A R : Own(<<>>, R)
    BY DEF Own, Distinct
  <1>7. \A x \in Convs : Own(store'.msgs[x], Sent(x)')
    BY <1>1, <1>3, <1>5, <1>6, OwnSameIds DEF IdsInv
  <1>8. stored' \in [Convs -> Seq(Messages)] /\ \A x \in Convs : Own(stored'[x], Sent(x)')
    BY <1>1, <1>2, <1>5, <1>6 DEF IdsInv, TypeOK
  <1>9. \A x \in Convs : Distinct(store'.msgs[x]) /\ Distinct(stored'[x])
    BY <1>7, <1>8 DEF Own
  <1>10. loads' \in [Convs -> SUBSET Seq(Messages)] /\ \A x \in Convs : loads'[x] \subseteq loads[x]
    BY <1>1, <1>2 DEF TypeOK
  <1>11. removals' \in 0 .. MaxRemovals /\ current' \in Convs \cup {None} /\ open' \subseteq Convs
    BY <1>1, <1>2, StreamsAssumption DEF TypeOK
  <1>12. TypeOK'
    BY <1>1, <1>2, <1>3, <1>4, <1>8, <1>9, <1>10, <1>11 DEF TypeOK
  <1>13. IdsInv'
    BY <1>1, <1>2, <1>5, <1>7, <1>8, <1>10, IdsKept
  <1> QED
    BY <1>5, <1>12, <1>13 DEF Inv

LEMMA SameIdsItself == \A ms : SameIds(ms, ms)
  BY DEF SameIds

LEMMA DeleteConversationKeeps ==
  ASSUME StreamsAssumption, Inv, NEW c \in Convs, DeleteConversation(c)
  PROVE  Inv'
  <1>1. TypeOK
    BY DEF Inv
  <1>2. store \in Stores
    BY <1>1, StoreTyped
  <1>3. PICK C \in SUBSET Convs, reason \in {"complete", "abort", "error"} :
          C = {c} /\ reason = "abort"
    OBVIOUS
  <1>4. PICK stopped : stopped = StopStream(store, c, "abort", store.active[c])
    OBVIOUS
  <1>5. Remove(C, stopped)
    BY <1>3, <1>4 DEF DeleteConversation
  <1>6. stopped = Stop(store, C, reason)
    BY <1>3, <1>4 DEF StopStream
  <1>7. CASE store.active[c] = None
    <2>1. stopped = store
      <3>1. Streamers(store, C) = {}
        BY <1>3, <1>7 DEF Streamers
      <3> QED
        BY <1>6, <3>1, StopNothing
    <2>2. \A x \in Convs : SameIds(store.msgs[x], stopped.msgs[x])
      BY <2>1, SameIdsItself
    <2> QED
      BY <1>2, <1>3, <1>5, <2>1, <2>2, RemoveKeeps
  <1>8. CASE store.active[c] # None
    <2>1. Stopped(store, stopped, C, reason)
      BY <1>2, <1>3, <1>6, <1>8, StopOne
    <2>2. Marked(store, stopped, C, reason)
      BY <1>2, <1>3, <1>6, <1>8, StopOne
    <2>3. \A x \in Convs : SameIds(store.msgs[x], stopped.msgs[x])
      BY <1>2, <2>2, MarkedIds
    <2>4. stopped \in Stores
      BY <2>1 DEF Stopped
    <2> QED
      BY <1>3, <1>5, <2>1, <2>3, <2>4, RemoveKeeps
  <1> QED
    BY <1>7, <1>8

LEMMA ClearAllKeeps ==
  ASSUME StreamsAssumption, Inv, ClearAllConversations
  PROVE  Inv'
  <1>1. TypeOK
    BY DEF Inv
  <1>2. store \in Stores
    BY <1>1, StoreTyped
  <1>3. PICK reason \in {"complete", "abort", "error"} : reason = "abort"
    OBVIOUS
  <1>4. PICK S \in SUBSET Convs : S = Streamers(store, Convs)
    BY DEF Streamers
  <1>5. PICK stopped : stopped = Stop(store, Convs, reason)
    OBVIOUS
  <1>6. Convs \in SUBSET Convs /\ Remove(Convs, stopped)
    BY <1>3, <1>5 DEF ClearAllConversations
  <1>7. CASE S = {}
    <2>1. stopped = store
      BY <1>4, <1>5, <1>7, StopNothing
    <2>2. \A x \in Convs : SameIds(store.msgs[x], stopped.msgs[x])
      BY <2>1, SameIdsItself
    <2> QED
      BY <1>2, <1>3, <1>6, <2>1, <2>2, RemoveKeeps
  <1>8. CASE S # {}
    <2>1. Stopped(store, stopped, S, reason)
      BY <1>2, <1>4, <1>5, <1>6, <1>8, StopEffect
    <2>2. Marked(store, stopped, S, reason)
      BY <1>2, <1>4, <1>5, <1>6, <1>8, StopEffect
    <2>3. \A x \in Convs : SameIds(store.msgs[x], stopped.msgs[x])
      BY <1>2, <2>2, MarkedIds
    <2>4. stopped \in Stores
      BY <2>1 DEF Stopped
    <2> QED
      BY <1>3, <1>6, <2>1, <2>3, <2>4, RemoveKeeps
  <1> QED
    BY <1>7, <1>8

LEMMA OldTurnOwned ==
  ASSUME StreamsAssumption
  PROVE  /\ OldTurn \in Seq(Messages) /\ <<>> \in Seq(Messages)
         /\ \A R : Own(OldTurn, R) /\ Own(<<>>, R)
  <1>1. PICK empty \in Seq(Chunks) : empty = <<>>
    BY EmptySeq
  <1>2. PICK m, n :
          /\ m = [id |-> <<Old, "user">>, text |-> empty, stopped |-> FALSE, metrics |-> None]
          /\ n = [id |-> <<Old, "assistant">>, text |-> empty, stopped |-> FALSE, metrics |-> Old]
    OBVIOUS
  <1>3. m \in Messages /\ n \in Messages
    BY <1>1, <1>2 DEF Messages, Reqs
  <1>4. OldTurn = <<m, n>>
    <2>1. Message(User(Old)) = m
      BY <1>1, <1>2 DEF Message, User
    <2>2. [Message(Assistant(Old)) EXCEPT !.metrics = Old] = n
      <3>1. PICK id, no, a : id = <<Old, "assistant">> /\ no = FALSE /\ a = Message(Assistant(Old))
        OBVIOUS
      <3>2. a = [id |-> id, text |-> empty, stopped |-> no, metrics |-> None]
        BY <1>1, <3>1 DEF Message, Assistant
      <3>3. [a EXCEPT !.metrics = Old]
              = [id |-> id, text |-> empty, stopped |-> no, metrics |-> Old]
        BY <3>2
      <3>4. n = [id |-> id, text |-> empty, stopped |-> no, metrics |-> Old]
        BY <1>2, <3>1
      <3> QED
        BY <3>1, <3>3, <3>4
    <2> QED
      BY <2>1, <2>2 DEF OldTurn
  <1>5. <<m, n>> \in Seq(Messages)
    BY <1>3
  <1>6. \A R : Own(<<m, n>>, R)
    BY <1>2, StreamsAssumption DEF Own, Distinct
  <1>7. \A R : Own(<<>>, R)
    BY DEF Own, Distinct
  <1> QED
    BY <1>4, <1>5, <1>6, <1>7, EmptySeq

LEMMA InitInv ==
  ASSUME StreamsAssumption, Init
  PROVE  Inv
  <1>1. PICK starting \in BOOLEAN :
          /\ loads = [c \in Convs |-> IF c = current /\ starting THEN {OldTurn} ELSE {}]
          /\ booting = IF starting THEN {<<current, OldTurn>>} ELSE {}
          /\ loaded = IF starting THEN {} ELSE {current}
          /\ store = [msgs |-> [c \in Convs |-> IF c \in loaded THEN OldTurn ELSE <<>>],
                      live |-> [c \in Convs |-> <<>>], metrics |-> [c \in Convs |-> None],
                      active |-> [c \in Convs |-> None], batch |-> [c \in Convs |-> NoBatch],
                      streaming |-> FALSE, outcome |-> [r \in Requests |-> "none"]]
    BY DEF Init
  <1>2. /\ current \in Convs /\ open \subseteq Convs
        /\ stored = [c \in Convs |-> IF c \in open THEN OldTurn ELSE <<>>]
        /\ calls = [r \in Requests |-> [pc |-> "new", conv |-> None, edit |-> None, drop |-> None]]
        /\ sent = [r \in Requests |-> 0] /\ backend = [r \in Requests |-> "none"]
        /\ edits = 0 /\ removals = 0 /\ disturbed = {}
    BY DEF Init
  <1>3. /\ OldTurn \in Seq(Messages) /\ <<>> \in Seq(Messages)
        /\ \A R : Own(OldTurn, R) /\ Own(<<>>, R)
    BY OldTurnOwned
  <1>4. /\ store.msgs = [c \in Convs |-> IF c \in loaded THEN OldTurn ELSE <<>>]
        /\ store.live = [c \in Convs |-> <<>>] /\ store.metrics = [c \in Convs |-> None]
        /\ store.active = [c \in Convs |-> None] /\ store.batch = [c \in Convs |-> NoBatch]
        /\ store.streaming = FALSE /\ store.outcome = [r \in Requests |-> "none"]
    BY <1>1
  <1>5. store \in Stores
    <2> DEFINE msgs == [c \in Convs |-> IF c \in loaded THEN OldTurn ELSE <<>>]
               live == [c \in Convs |-> <<>>]
               none == [c \in Convs |-> None]
               batch == [c \in Convs |-> NoBatch]
               outcome == [r \in Requests |-> "none"]
    <2>1. msgs \in [Convs -> Seq(Messages)]
      BY <1>3
    <2>2. live \in [Convs -> Seq(Chunks)]
      BY EmptySeq
    <2>3. none \in [Convs -> Requests \cup {None}]
      OBVIOUS
    <2>4. batch \in [Convs -> [req : Requests \cup {None}, text : Seq(Chunks)]]
      BY NoBatchTyped
    <2>5. outcome \in [Requests -> Outcomes]
      BY DEF Outcomes
    <2>6. store = [msgs |-> msgs, live |-> live, metrics |-> none, active |-> none, batch |-> batch,
                   streaming |-> FALSE, outcome |-> outcome]
      BY <1>1
    <2> HIDE DEF msgs, live, none, batch, outcome
    <2> QED
      BY <2>1, <2>2, <2>3, <2>4, <2>5, <2>6 DEF Stores
  <1>6. \A c \in Convs : Own(store.msgs[c], Sent(c)) /\ Own(stored[c], Sent(c))
    BY <1>2, <1>3, <1>4
  <1>7. \A c \in Convs : Distinct(store.msgs[c]) /\ Distinct(stored[c])
    BY <1>6 DEF Own
  <1>8. loads \in [Convs -> SUBSET Seq(Messages)] /\ booting \subseteq Convs \X Seq(Messages)
    BY <1>1, <1>2, <1>3
  <1>9. calls \in [Requests -> Sends]
    BY <1>2 DEF Sends
  <1>10. stored \in [Convs -> Seq(Messages)] /\ loaded \subseteq Convs
    BY <1>1, <1>2, <1>3
  <1>11. TypeOK
    BY <1>2, <1>5, <1>7, <1>8, <1>9, <1>10, StreamsAssumption DEF TypeOK
  <1>12. FlagTruthful
    BY <1>4 DEF FlagTruthful
  <1>13. QuietInv
    BY <1>4 DEF QuietInv, NoBatch
  <1>14. CallsInv
    <2>1. \A r \in Requests : calls[r].pc = "new" /\ calls[r].edit = None /\ calls[r].drop = None
      BY <1>2
    <2> QED
      BY <1>2, <1>4, <2>1 DEF CallsInv
  <1>15. IdsInv
    <2>1. \A c \in Convs : \A ms \in loads[c] : Own(ms, Sent(c))
      BY <1>1, <1>3
    <2>2. \A b \in booting : Own(b[2], Sent(b[1]))
      BY <1>1, <1>3
    <2> QED
      BY <1>2, <1>6, <2>1, <2>2 DEF IdsInv
  <1> QED
    BY <1>11, <1>12, <1>13, <1>14, <1>15 DEF Inv

LEMMA NextInv ==
  ASSUME StreamsAssumption, Inv, [Next]_vars
  PROVE  Inv'
  <1>1. ASSUME NEW r \in Requests,
               \/ SendMessage(r) \/ EditAndResend(r) \/ RagReplies(r)
               \/ ChatReturns(r) \/ ChatRejects(r)
               \/ Token(r) \/ DoneToken(r) \/ ErrorEvent(r) \/ SilentEnd(r)
        PROVE  Inv'
    BY <1>1, SendMessageKeeps, EditAndResendKeeps, RagRepliesKeeps, ChatReturnsKeeps,
       ChatRejectsKeeps, TokenKeeps, DoneTokenKeeps, ErrorEventKeeps, SilentEndKeeps
  <1>2. ASSUME NEW c \in Convs,
               SwitchTo(c) \/ LoadReplies(c) \/ LoadFails(c) \/ DeleteConversation(c)
        PROVE  Inv'
    BY <1>2, SwitchToKeeps, LoadRepliesKeeps, LoadFailsKeeps, DeleteConversationKeeps
  <1>3. ASSUME NEW r \in Reqs, DeleteMessage(User(r)) \/ DeleteMessage(Assistant(r))
        PROVE  Inv'
    BY <1>3, DeleteMessageKeeps
  <1>4. CASE AnimationFrame \/ Abort \/ LeavePage \/ BootReplies \/ ClearAllConversations
    BY <1>4, AnimationFrameKeeps, AbortKeeps, LeavePageKeeps, BootRepliesKeeps, ClearAllKeeps
  <1>5. CASE UNCHANGED vars
    <2>1. UNCHANGED <<store, current, open, calls, sent, backend, stored, loads, loaded, booting,
                      edits, removals, disturbed>>
      BY <1>5 DEF vars
    <2>2. TypeOK' /\ calls' \in [Requests -> Sends] /\ removals' \in 0 .. MaxRemovals
      BY <2>1 DEF Inv, TypeOK
    <2>3. \A c : Sent(c) \subseteq Sent(c)'
      BY <2>1 DEF Sent
    <2>4. /\ sent' \in [Requests -> 0 .. MaxTokens] /\ disturbed' \subseteq Reqs
          /\ backend' \in [Requests -> {"none", "running", "ended"}]
      BY <2>2 DEF TypeOK
    <2> QED
      BY <2>1, <2>2, <2>3, <2>4, SameStoreKeeps
  <1> QED
    BY <1>1, <1>2, <1>3, <1>4, <1>5 DEF Next

\* The types of the stores, and no message twice in a list.
THEOREM Types ==
  ASSUME StreamsAssumption
  PROVE  Spec => []TypeOK
  <1>1. Inv => TypeOK
    BY DEF Inv
  <1> QED
    BY <1>1, InitInv, NextInv, PTL DEF Spec

\* isStreaming tells the truth, for any number of conversations and requests.
THEOREM Flag ==
  ASSUME StreamsAssumption
  PROVE  Spec => []FlagTruthful
  <1>1. Inv => FlagTruthful
    BY DEF Inv
  <1> QED
    BY <1>1, InitInv, NextInv, PTL DEF Spec

\* No text of a resolved stream is left to leak into a later answer.
THEOREM NothingLeft ==
  ASSUME StreamsAssumption
  PROVE  Spec => []NothingLeftBehind
  <1>1. Inv => NothingLeftBehind
    BY DEF Inv, QuietInv, NothingLeftBehind
  <1> QED
    BY <1>1, InitInv, NextInv, PTL DEF Spec

-----------------------------------------------------------------------------
(* What a step does, seen from one conversation.                           *)

\* A message that the conversation shows, or would show after a load.
Known(c, m) == \E ms \in Sources(c) : Holds(ms, m)
\* The lists that a load may bring.
Copies(c) == {stored[c]} \cup loads[c] \cup {b[2] : b \in {x \in booting : x[1] = c}}
Empty(c) == store.live[c] = <<>> /\ store.batch[c] = NoBatch
Buffered(c) == store.live[c] \o store.batch[c].text

\* The buffers and the stream of c stay.
Rests(c) == /\ store'.active[c] = store.active[c]
            /\ store'.live[c] = store.live[c] /\ store'.batch[c] = store.batch[c]
\* The batch of c is flushed.
Flushes(c) == /\ store'.active[c] = store.active[c]
              /\ store'.live[c] = Flushed(store, c) /\ store'.batch[c] = NoBatch
\* The stream of c is over.
Ends(c) == store'.active[c] = None /\ store'.live[c] = <<>> /\ store'.batch[c] = NoBatch
\* A stream of r begins in c: rivals are disturbed, and disturb it.
Begins(c, r) ==
  /\ calls[r].pc = "new" /\ calls'[r].pc = "rag" /\ calls'[r].conv = c /\ c \in Convs
  /\ store'.active[c] = r
  /\ store'.live[c] = store.live[c] /\ store'.batch[c] = store.batch[c]
  /\ store'.msgs[c] = store.msgs[c]
  /\ \A q \in Rivals(c) : q \in disturbed' /\ r \in disturbed'
\* c hears the next token of its stream.
Hears(c, r) ==
  /\ backend[r] = "running" /\ sent'[r] = sent[r] + 1
  /\ store.active[c] = r /\ store'.active[c] = r
  /\ store'.live[c] = store.live[c]
  /\ store'.batch[c].text = store.batch[c].text \o <<<<r, sent[r] + 1>>>>
  /\ store'.batch[c].req = IF store.batch[c].req = None THEN r ELSE store.batch[c].req
\* The messages of r are added, its own answer last.
Replies(r) ==
  LET c == calls[r].conv
  IN /\ calls[r].pc = "rag" /\ calls'[r].pc = "chat" /\ calls'[r].conv = c /\ c \in Convs
     /\ Rests(c) /\ store'.outcome[r] = store.outcome[r]
     /\ store'.msgs[c] # <<>> /\ Last(store'.msgs[c]) = Message(Assistant(r))

BuffersMove(c) ==
  \/ Rests(c) \/ Flushes(c) \/ Ends(c)
  \/ \E r \in Requests : Begins(c, r) \/ Hears(c, r)

CallMoves(r) ==
  \/ calls'[r].pc = calls[r].pc /\ calls'[r].conv = calls[r].conv
  \/ \E c \in Convs : Begins(c, r)
  \/ Replies(r)
  \/ calls[r].pc = "chat" /\ calls'[r].pc = "done" /\ calls'[r].conv = calls[r].conv

CountMoves(r) ==
  sent'[r] # sent[r] => /\ backend[r] = "running" /\ sent'[r] = sent[r] + 1
                        /\ \A c \in Convs : store.active[c] = r => Hears(c, r)

\* A message is new and empty: of a user, or the answer of a call that was
\* still at its lookup.
Added(c, m) ==
  /\ m.text = <<>>
  /\ \/ m.id[2] = "user"
     \/ \E r \in Requests : calls[r].pc = "rag" /\ Replies(r) /\ m.id = Assistant(r)

\* What the end of a stream may leave after its text: the word of an error.
Tails == {<<>>} \cup {<<<<r, 0>>>> : r \in Requests}

\* The last message gets what was buffered as the stream of c ends. If none of
\* its messages was there yet, the stop is one that disturbs the answer above.
Amended(c, m) ==
  LET a == store.active[c]
  IN /\ a # None /\ Ends(c)
     /\ store.msgs[c] # <<>> /\ m.id = Last(store.msgs[c]).id
     /\ \E tail \in Tails : m.text = (Last(store.msgs[c]).text \o Flushed(store, c)) \o tail
     /\ calls[a].pc = "rag" /\ Empty(c) => Owner(store.msgs[c]) \subseteq disturbed'
     /\ store'.outcome[a] = "complete" =>
          /\ m.text = Last(store.msgs[c]).text \o Flushed(store, c)
          /\ m.metrics = a /\ ~m.stopped

ListsMove(c) ==
  \A ms \in Sources(c)' : \A i \in DOMAIN ms :
    Known(c, ms[i]) \/ Added(c, ms[i]) \/ Amended(c, ms[i])

\* The view of c: where the last message is another, the stream is over, or it
\* is disturbed, or it has no message yet.
ViewMoves(c) ==
  \/ store'.msgs[c] = store.msgs[c]
  \/ store'.active[c] = None
  \/ \E r \in Requests : calls[r].conv = c /\ Replies(r)
  \/ {store.active[c]} \cup Owner(store'.msgs[c]) \subseteq disturbed'
  \/ /\ EndsWith(store'.msgs[c], store.active[c])
     /\ EndsWith(store.msgs[c], store.active[c])
     /\ Last(store'.msgs[c]) = Last(store.msgs[c])
  \/ /\ store.active[c] \in Requests \ disturbed
     /\ calls[store.active[c]].pc = "rag" /\ calls' = calls

\* The copies of c get no answer but the one that completes.
CopiesMove(c) ==
  \A ms \in Copies(c)' : \A i \in DOMAIN ms :
    \/ ms[i].id[2] = "user"
    \/ \E old \in Copies(c) : ms[i].id \in IdsOf(old)
    \/ /\ store.active[c] # None /\ calls[store.active[c]].pc # "rag"
       /\ store'.outcome[store.active[c]] = "complete"
       /\ store.msgs[c] # <<>> /\ ms[i].id = Last(store.msgs[c]).id

\* What is stored stays, but for edits and the deletion of the conversation.
StoredMoves(c) ==
  c \in open' => c \in open /\ (edits' > 0 \/ IdsOf(stored[c]) \subseteq IdsOf(stored'[c]))

\* The answer of a stream that completes in c is amended, and stored.
Completes(c, r) ==
  /\ calls[r].pc # "rag"
  /\ EndsWith(store.msgs[c], r) =>
       /\ \A ms \in Sources(c)' : \A i \in DOMAIN ms : ms[i].id = Assistant(r) =>
            Amended(c, ms[i]) \/ \E old \in Copies(c) : Assistant(r) \in IdsOf(old)
       /\ c \in open => Assistant(r) \in IdsOf(stored'[c])

OutcomeMoves(r) ==
  store'.outcome[r] # store.outcome[r] =>
    \E c \in Convs :
      /\ store.active[c] = r /\ Ends(c)
      /\ store'.outcome[r] = "complete" => Completes(c, r)
      /\ store'.outcome[r] = "abort" /\ calls[r].pc = "rag" => r \in disturbed'

Moves ==
  /\ disturbed \subseteq disturbed' /\ (edits > 0 => edits' > 0)
  /\ \A r \in Requests : CallMoves(r) /\ CountMoves(r) /\ OutcomeMoves(r)
  /\ \A c \in Convs : /\ BuffersMove(c) /\ ListsMove(c) /\ ViewMoves(c)
                      /\ CopiesMove(c) /\ StoredMoves(c)

-----------------------------------------------------------------------------
(* The texts of answers. *)

Has(text, r) == \E i \in DOMAIN text : text[i][1] = r /\ text[i][2] > 0
\* The tokens of a request come in their order, none twice.
Ordered(text) ==
  \A i, j \in DOMAIN text :
    i < j /\ text[i][1] = text[j][1] /\ text[i][2] > 0 /\ text[j][2] > 0
      => text[i][2] < text[j][2]
\* Every token has been sent.
Counted(text) ==
  \A i \in DOMAIN text :
    text[i][2] > 0 => text[i][1] \in Requests /\ text[i][2] <= sent[text[i][1]]

\* The places of two texts one after the other.
LEMMA TogetherPlaces ==
  ASSUME NEW t \in Seq(Chunks), NEW u \in Seq(Chunks)
  PROVE  /\ t \o u \in Seq(Chunks)
         /\ \A i \in DOMAIN (t \o u) :
              \/ i \in DOMAIN t /\ i <= Len(t) /\ (t \o u)[i] = t[i]
              \/ i > Len(t) /\ i - Len(t) \in DOMAIN u /\ (t \o u)[i] = u[i - Len(t)]
         /\ \A i \in DOMAIN t : i \in DOMAIN (t \o u) /\ (t \o u)[i] = t[i]
         /\ \A i \in DOMAIN u : /\ Len(t) + i \in DOMAIN (t \o u)
                                /\ (t \o u)[Len(t) + i] = u[i]
  OBVIOUS

\* What two texts have one after the other, one of them has.
LEMMA TogetherHas ==
  ASSUME NEW t \in Seq(Chunks), NEW u \in Seq(Chunks), NEW r
  PROVE  Has(t \o u, r) <=> Has(t, r) \/ Has(u, r)
  <1>1. PICK w : w = t \o u
    OBVIOUS
  <1>2. /\ \A i \in DOMAIN w :
             \/ i \in DOMAIN t /\ i <= Len(t) /\ w[i] = t[i]
             \/ i > Len(t) /\ i - Len(t) \in DOMAIN u /\ w[i] = u[i - Len(t)]
        /\ \A i \in DOMAIN t : i \in DOMAIN w /\ w[i] = t[i]
        /\ \A i \in DOMAIN u : Len(t) + i \in DOMAIN w /\ w[Len(t) + i] = u[i]
    BY <1>1, TogetherPlaces
  <1>3. Has(w, r) => Has(t, r) \/ Has(u, r)
    BY <1>2 DEF Has
  <1>4. Has(t, r) => Has(w, r)
    BY <1>2 DEF Has
  <1>5. Has(u, r) => Has(w, r)
    BY <1>2 DEF Has
  <1> QED
    BY <1>1, <1>3, <1>4, <1>5

\* Two texts that share no request are in order together; so is each of them
\* if they are.
LEMMA TogetherOrdered ==
  ASSUME NEW t \in Seq(Chunks), NEW u \in Seq(Chunks)
  PROVE  /\ Ordered(t) /\ Ordered(u) /\ (\A r : ~(Has(t, r) /\ Has(u, r))) => Ordered(t \o u)
         /\ Ordered(t \o u) => Ordered(t)
  <1>1. PICK w : w = t \o u
    OBVIOUS
  <1>2. /\ \A i \in DOMAIN w :
             \/ i \in DOMAIN t /\ i <= Len(t) /\ w[i] = t[i]
             \/ i > Len(t) /\ i - Len(t) \in DOMAIN u /\ w[i] = u[i - Len(t)]
        /\ \A i \in DOMAIN t : i \in DOMAIN w /\ w[i] = t[i]
    BY <1>1, TogetherPlaces
  <1>3. w \in Seq(Chunks) /\ DOMAIN w \subseteq Nat /\ Len(t) \in Nat
    BY <1>1
  <1>4. ASSUME Ordered(t), Ordered(u), \A r : ~(Has(t, r) /\ Has(u, r))
        PROVE  Ordered(w)
    <2> SUFFICES ASSUME NEW i \in DOMAIN w, NEW j \in DOMAIN w, i < j,
                        w[i][1] = w[j][1], w[i][2] > 0, w[j][2] > 0
                 PROVE  w[i][2] < w[j][2]
      BY DEF Ordered
    <2>1. CASE j \in DOMAIN t /\ j <= Len(t) /\ w[j] = t[j]
      <3>1. i \in DOMAIN t /\ w[i] = t[i]
        BY <1>2, <1>3, <2>1
      <3> QED
        BY <1>4, <2>1, <3>1 DEF Ordered
    <2>2. CASE j > Len(t) /\ j - Len(t) \in DOMAIN u /\ w[j] = u[j - Len(t)]
      <3>1. CASE i \in DOMAIN t /\ w[i] = t[i]
        <4>1. Has(t, w[i][1]) /\ Has(u, w[i][1])
          BY <2>2, <3>1 DEF Has
        <4> QED
          BY <1>4, <4>1
      <3>2. CASE i > Len(t) /\ i - Len(t) \in DOMAIN u /\ w[i] = u[i - Len(t)]
        <4>1. i - Len(t) < j - Len(t)
          BY <1>3
        <4> QED
          BY <1>4, <2>2, <3>2, <4>1 DEF Ordered
      <3> QED
        BY <1>2, <3>1, <3>2
    <2> QED
      BY <1>2, <2>1, <2>2
  <1>5. Ordered(w) => Ordered(t)
    BY <1>2 DEF Ordered
  <1> QED
    BY <1>1, <1>4, <1>5

\* So is what has been sent.
LEMMA TogetherCounted ==
  ASSUME NEW t \in Seq(Chunks), NEW u \in Seq(Chunks)
  PROVE  Counted(t \o u) <=> Counted(t) /\ Counted(u)
  <1>1. PICK w : w = t \o u
    OBVIOUS
  <1>2. /\ \A i \in DOMAIN w :
             \/ i \in DOMAIN t /\ i <= Len(t) /\ w[i] = t[i]
             \/ i > Len(t) /\ i - Len(t) \in DOMAIN u /\ w[i] = u[i - Len(t)]
        /\ \A i \in DOMAIN t : i \in DOMAIN w /\ w[i] = t[i]
        /\ \A i \in DOMAIN u : Len(t) + i \in DOMAIN w /\ w[Len(t) + i] = u[i]
    BY <1>1, TogetherPlaces
  <1>3. Counted(w) => Counted(t)
    BY <1>2 DEF Counted
  <1>4. Counted(w) => Counted(u)
    BY <1>2 DEF Counted
  <1>5. Counted(t) /\ Counted(u) => Counted(w)
    BY <1>2 DEF Counted
  <1> QED
    BY <1>1, <1>3, <1>4, <1>5

\* An empty text, and the word of an error, have no token.
LEMMA NoTokens ==
  ASSUME StreamsAssumption, NEW tail \in Tails
  PROVE  /\ tail \in Seq(Chunks) /\ Ordered(tail) /\ Counted(tail) /\ \A r : ~Has(tail, r)
  <1>1. CASE tail = <<>>
    BY <1>1 DEF Ordered, Counted, Has
  <1>2. ASSUME NEW r \in Requests, tail = <<<<r, 0>>>>
        PROVE  /\ tail \in Seq(Chunks) /\ Ordered(tail) /\ Counted(tail) /\ \A q : ~Has(tail, q)
    <2>1. <<r, 0>> \in Chunks
      BY StreamsAssumption DEF Chunks, Reqs
    <2>2. tail \in Seq(Chunks) /\ DOMAIN tail = {1} /\ tail[1] = <<r, 0>>
      BY <1>2, <2>1
    <2> QED
      BY <2>2 DEF Ordered, Counted, Has
  <1> QED
    BY <1>1, <1>2 DEF Tails

-----------------------------------------------------------------------------
(* What a step keeps of the texts of answers. *)

OrderAt(c) ==
  /\ \A m : Known(c, m) => Ordered(m.text) /\ Counted(m.text)
  /\ \A m, n, r : Known(c, m) /\ Known(c, n) /\ Has(m.text, r) /\ Has(n.text, r) => m.id = n.id
  /\ Ordered(Buffered(c)) /\ Counted(Buffered(c))
  /\ \A m, r : Known(c, m) /\ Has(m.text, r) => ~Has(Buffered(c), r) /\ store.active[c] # r
OrderInv == \A c \in Convs : OrderAt(c)

\* The lists of a conversation are lists of messages.
LEMMA KnownTyped ==
  ASSUME TypeOK, NEW c \in Convs
  PROVE  /\ \A ms \in Sources(c) : ms \in Seq(Messages)
         /\ \A m : Known(c, m) => m \in Messages /\ m.text \in Seq(Chunks)
         /\ store.msgs[c] # <<>> => Known(c, Last(store.msgs[c]))
  <1>1. \A ms \in Sources(c) : ms \in Seq(Messages)
    BY StoreTyped DEF TypeOK, Sources
  <1>2. \A m : Known(c, m) => m \in Messages /\ m.text \in Seq(Chunks)
    <2> SUFFICES ASSUME NEW ms \in Sources(c), NEW i \in DOMAIN ms
                 PROVE  ms[i] \in Messages /\ ms[i].text \in Seq(Chunks)
      BY DEF Known, Holds
    <2> QED
      BY <1>1, MessageFields
  <1>3. store.msgs[c] # <<>> => Known(c, Last(store.msgs[c]))
    <2>1. store.msgs[c] \in Sources(c) /\ store.msgs[c] \in Seq(Messages)
      BY <1>1 DEF Sources
    <2> QED
      BY <2>1 DEF Known, Holds, Last
  <1> QED
    BY <1>1, <1>2, <1>3

\* A flush moves what is buffered, or drops the batch.
LEMMA FlushedBuffered ==
  ASSUME TypeOK, NEW c \in Convs
  PROVE  /\ store.live[c] \in Seq(Chunks) /\ store.batch[c].text \in Seq(Chunks)
         /\ Flushed(store, c) \in Seq(Chunks) /\ Buffered(c) \in Seq(Chunks)
         /\ \A r : Has(Flushed(store, c), r) => Has(Buffered(c), r)
         /\ Ordered(Buffered(c)) => Ordered(Flushed(store, c))
         /\ Counted(Buffered(c)) => Counted(Flushed(store, c))
  <1>1. store.live[c] \in Seq(Chunks) /\ store.batch[c].text \in Seq(Chunks)
    BY StoreTyped
  <1>2. Flushed(store, c) \in {store.live[c], Buffered(c)}
    BY DEF Flushed, Buffered
  <1>3. Buffered(c) \in Seq(Chunks)
    BY <1>1 DEF Buffered
  <1>4. /\ \A r : Has(store.live[c], r) => Has(Buffered(c), r)
        /\ Ordered(Buffered(c)) => Ordered(store.live[c])
        /\ Counted(Buffered(c)) => Counted(store.live[c])
    BY <1>1, TogetherHas, TogetherOrdered, TogetherCounted DEF Buffered
  <1> QED
    BY <1>1, <1>2, <1>3, <1>4

\* A token that is sent comes after those that were.
LEMMA NextOrdered ==
  ASSUME NEW t \in Seq(Chunks), NEW r \in Requests, sent \in [Requests -> 0 .. MaxTokens],
         Ordered(t), Counted(t), NEW k \in Nat, k > sent[r]
  PROVE  Ordered(t \o <<<<r, k>>>>)
  <1>1. PICK w : w = t \o <<<<r, k>>>>
    OBVIOUS
  <1>2. /\ Len(t) \in Nat /\ DOMAIN w = 1 .. Len(t) + 1 /\ DOMAIN t = 1 .. Len(t)
        /\ w[Len(t) + 1] = <<r, k>>
        /\ \A i \in DOMAIN t : w[i] = t[i]
    BY <1>1
  <1> SUFFICES ASSUME NEW i \in DOMAIN w, NEW j \in DOMAIN w, i < j,
                      w[i][1] = w[j][1], w[i][2] > 0, w[j][2] > 0
               PROVE  w[i][2] < w[j][2]
    BY <1>1 DEF Ordered
  <1>3. i \in DOMAIN t /\ w[i] = t[i]
    BY <1>2
  <1>4. CASE j \in DOMAIN t
    BY <1>2, <1>3, <1>4 DEF Ordered
  <1>5. CASE j = Len(t) + 1
    <2>1. t[i][1] = r /\ w[j][2] = k /\ t[i][2] > 0
      BY <1>2, <1>3, <1>5
    <2>2. t[i][2] <= sent[r]
      BY <1>3, <2>1 DEF Counted
    <2>3. t[i] \in Reqs \X (0 .. MaxTokens)
      BY <1>3 DEF Chunks
    <2>4. t[i][2] \in Int /\ sent[r] \in Int
      BY <2>3
    <2> QED
      BY <1>3, <2>1, <2>2, <2>4
  <1> QED
    BY <1>2, <1>4, <1>5

\* No token is taken back.
LEMMA CountedStays ==
  ASSUME TypeOK, Moves, NEW t \in Seq(Chunks), Counted(t)
  PROVE  Counted(t)'
  <1>1. sent \in [Requests -> 0 .. MaxTokens]
    BY DEF TypeOK
  <1>2. \A r \in Requests : sent[r] \in Int /\ sent'[r] \in Int /\ sent'[r] >= sent[r]
    BY <1>1 DEF Moves, CountMoves
  <1>3. \A i \in DOMAIN t : t[i] \in Reqs \X (0 .. MaxTokens)
    BY DEF Chunks
  <1>4. \A i \in DOMAIN t : t[i][2] \in Int
    BY <1>3
  <1> QED
    BY <1>2, <1>4 DEF Counted

\* What a message of c has, a message of the same id had, or the buffers.
Gained(c, m) ==
  /\ Ordered(m.text) /\ Counted(m.text)'
  /\ \A r : Has(m.text, r) =>
       \/ \E n : Known(c, n) /\ n.id = m.id /\ Has(n.text, r)
       \/ Amended(c, m) /\ Has(Buffered(c), r)

LEMMA AmendedGained ==
  ASSUME StreamsAssumption, TypeOK, Moves, NEW c \in Convs, OrderAt(c), NEW m, Amended(c, m)
  PROVE  Gained(c, m)
  <1>1. PICK last : last = Last(store.msgs[c])
    OBVIOUS
  <1>2. PICK tail \in Tails : m.text = (last.text \o Flushed(store, c)) \o tail
    BY <1>1 DEF Amended
  <1>3. Known(c, last) /\ m.id = last.id /\ last.text \in Seq(Chunks)
    BY <1>1, KnownTyped DEF Amended
  <1>4. /\ Flushed(store, c) \in Seq(Chunks)
        /\ Ordered(Flushed(store, c)) /\ Counted(Flushed(store, c))
        /\ \A r : Has(Flushed(store, c), r) => Has(Buffered(c), r)
    BY FlushedBuffered DEF OrderAt
  <1>5. Ordered(last.text) /\ Counted(last.text)
    BY <1>3 DEF OrderAt
  <1>6. \A r : Has(last.text, r) => ~Has(Flushed(store, c), r)
    BY <1>3, <1>4 DEF OrderAt
  <1>7. PICK u : u = last.text \o Flushed(store, c)
    OBVIOUS
  <1>8. /\ u \in Seq(Chunks) /\ Ordered(u) /\ Counted(u)
        /\ \A r : Has(u, r) <=> Has(last.text, r) \/ Has(Flushed(store, c), r)
    BY <1>3, <1>4, <1>5, <1>6, <1>7, TogetherOrdered, TogetherCounted, TogetherHas
  <1>9. /\ tail \in Seq(Chunks) /\ Ordered(tail) /\ Counted(tail) /\ \A r : ~Has(tail, r)
    BY NoTokens
  <1>10. /\ u \o tail \in Seq(Chunks) /\ Ordered(u \o tail) /\ Counted(u \o tail)
         /\ \A r : Has(u \o tail, r) <=> Has(u, r)
    BY <1>8, <1>9, TogetherOrdered, TogetherCounted, TogetherHas
  <1>11. m.text = u \o tail
    BY <1>2, <1>7
  <1>12. Counted(u \o tail)'
    <2>1. PICK w : w = u \o tail
      OBVIOUS
    <2>2. w \in Seq(Chunks) /\ Counted(w)
      BY <1>10, <2>1
    <2>3. Counted(w)'
      BY <2>2, CountedStays
    <2> QED
      BY <2>1, <2>3
  <1> QED
    BY <1>3, <1>4, <1>8, <1>10, <1>11, <1>12 DEF Gained

LEMMA KnownGained ==
  ASSUME StreamsAssumption, TypeOK, Moves, NEW c \in Convs, OrderAt(c), NEW m, Known(c, m)'
  PROVE  Gained(c, m)
  <1>1. Known(c, m) \/ Added(c, m) \/ Amended(c, m)
    BY DEF Known, Holds, Moves, ListsMove
  <1>2. CASE Known(c, m)
    <2>1. m.text \in Seq(Chunks) /\ Ordered(m.text) /\ Counted(m.text)
      BY <1>2, KnownTyped DEF OrderAt
    <2>2. PICK t : t = m.text
      OBVIOUS
    <2>3. Counted(t)'
      BY <2>1, <2>2, CountedStays
    <2> QED
      BY <1>2, <2>1, <2>2, <2>3 DEF Gained
  <1>3. CASE Added(c, m)
    BY <1>3 DEF Added, Gained, Ordered, Counted, Has
  <1> QED
    BY <1>1, <1>2, <1>3, AmendedGained

\* A step that keeps the stream of a conversation amends no message of it.
LEMMA OnlyEndsAmend ==
  ASSUME NEW c, store'.active[c] # None
  PROVE  \A m : ~Amended(c, m)
  BY DEF Amended, Ends

\* The tokens of what is buffered, after a step.
BuffersGain(c) ==
  /\ Ordered(Buffered(c))' /\ Counted(Buffered(c))'
  /\ \A r : Has(Buffered(c)', r) => Has(Buffered(c), r) \/ r = store.active[c]
  /\ \/ store'.active[c] = None /\ Buffered(c)' = <<>>
     \/ store'.active[c] = store.active[c] /\ \A m : ~Amended(c, m)
     \/ /\ store'.active[c] \in Requests /\ sent[store'.active[c]] = 0
        /\ Buffered(c)' = Buffered(c) /\ \A m : ~Amended(c, m)

LEMMA BuffersGained ==
  ASSUME StreamsAssumption, TypeOK, TypeOK', CallsInv, Moves, NEW c \in Convs, OrderAt(c)
  PROVE  BuffersGain(c)
  <1>1. PICK b, out, f : b = Buffered(c) /\ out = Buffered(c)' /\ f = Flushed(store, c)
    OBVIOUS
  <1>2. /\ store.live[c] \in Seq(Chunks) /\ store.batch[c].text \in Seq(Chunks)
        /\ f \in Seq(Chunks) /\ b \in Seq(Chunks)
        /\ \A r : Has(f, r) => Has(b, r)
        /\ Ordered(f) /\ Counted(f) /\ Ordered(b) /\ Counted(b)
    BY <1>1, FlushedBuffered DEF OrderAt
  <1>3. Counted(b)' /\ Counted(f)'
    BY <1>2, CountedStays
  <1>4. store.active[c] \in Requests \cup {None} /\ None \notin Requests
    BY StoreTyped, StreamsAssumption
  <1>5. ASSUME out = b
        PROVE  Ordered(out) /\ Counted(out)' /\ \A r : Has(out, r) => Has(b, r)
    BY <1>2, <1>3, <1>5
  <1>6. CASE Rests(c)
    <2>1. out = b
      BY <1>1, <1>6 DEF Rests, Buffered
    <2>2. \A m : ~Amended(c, m)
      BY <1>6 DEF Amended, Ends, Rests
    <2> QED
      BY <1>1, <1>5, <1>6, <2>1, <2>2 DEF Rests, BuffersGain
  <1>7. CASE Flushes(c)
    <2>1. out = f
      BY <1>1, <1>2, <1>7, ConcatEmptySeq DEF Flushes, Buffered, NoBatch
    <2>2. \A m : ~Amended(c, m)
      BY <1>7 DEF Amended, Ends, Flushes
    <2> QED
      BY <1>1, <1>2, <1>3, <1>7, <2>1, <2>2 DEF Flushes, BuffersGain
  <1>8. CASE Ends(c)
    <2>1. out = <<>>
      BY <1>1, <1>8 DEF Ends, Buffered, NoBatch
    <2>2. Ordered(out) /\ Counted(out)' /\ \A r : ~Has(out, r)
      BY <2>1 DEF Ordered, Counted, Has
    <2> QED
      BY <1>1, <1>8, <2>1, <2>2 DEF Ends, BuffersGain
  <1>9. ASSUME NEW r \in Requests, Begins(c, r)
        PROVE  BuffersGain(c)
    <2>1. out = b
      BY <1>1, <1>9 DEF Begins, Buffered
    <2>2. \A m : ~Amended(c, m)
      BY <1>4, <1>9 DEF Amended, Ends, Begins
    <2>3. store'.active[c] = r /\ sent[r] = 0
      BY <1>9 DEF Begins, CallsInv
    <2> QED
      BY <1>1, <1>5, <2>1, <2>2, <2>3 DEF BuffersGain
  <1>10. ASSUME NEW r \in Requests, Hears(c, r)
         PROVE  BuffersGain(c)
    <2>1. PICK k : k = sent[r] + 1
      OBVIOUS
    <2>2. sent \in [Requests -> 0 .. MaxTokens] /\ sent' \in [Requests -> 0 .. MaxTokens]
      BY DEF TypeOK
    <2>3. k \in 1 .. MaxTokens /\ sent'[r] = k /\ k > sent[r]
      BY <1>10, <2>1, <2>2, StreamsAssumption DEF Hears
    <2>4. <<r, k>> \in Chunks
      BY <2>3 DEF Chunks, Reqs
    <2>5. PICK one : one = <<<<r, k>>>>
      OBVIOUS
    <2>6. one \in Seq(Chunks) /\ DOMAIN one = {1} /\ one[1] = <<r, k>>
      BY <2>4, <2>5
    <2>7. out = store.live[c] \o (store.batch[c].text \o one)
      BY <1>1, <1>10, <2>1, <2>5 DEF Hears, Buffered
    <2>8. out = b \o one
      <3>1. b = store.live[c] \o store.batch[c].text
        BY <1>1 DEF Buffered
      <3>2. \A t, u \in Seq(Chunks) : (t \o u) \o one = t \o (u \o one)
        BY <2>6, ConcatAssociative
      <3> QED
        BY <1>2, <2>7, <3>1, <3>2
    <2>9. Ordered(out)
      <3>1. k \in Nat
        BY <2>3
      <3>2. Ordered(b \o <<<<r, k>>>>)
        BY <1>2, <2>2, <2>3, <3>1, NextOrdered
      <3> QED
        BY <2>5, <2>8, <3>2
    <2>10. Counted(one)'
      BY <2>3, <2>6 DEF Counted
    <2>11. \A i \in DOMAIN out : (\E j \in DOMAIN b : out[i] = b[j]) \/ out[i] = <<r, k>>
      BY <1>2, <2>6, <2>8, TogetherPlaces
    <2>12. Counted(out)'
      BY <1>3, <2>3, <2>11 DEF Counted
    <2>13. \A q : Has(out, q) => Has(b, q) \/ q = r
      BY <2>11 DEF Has
    <2>14. store.active[c] = r /\ store'.active[c] = r
      BY <1>10 DEF Hears
    <2>15. \A m : ~Amended(c, m)
      BY <1>4, <2>14 DEF Amended, Ends
    <2> QED
      BY <1>1, <2>9, <2>12, <2>13, <2>14, <2>15 DEF BuffersGain
  <1> QED
    BY <1>6, <1>7, <1>8, <1>9, <1>10 DEF Moves, BuffersMove

\* The order of the tokens is kept by every step.
LEMMA OrderKept ==
  ASSUME StreamsAssumption, TypeOK, TypeOK', CallsInv, OrderInv, Moves
  PROVE  OrderInv'
  <1> SUFFICES ASSUME NEW c \in Convs
               PROVE  OrderAt(c)'
    BY DEF OrderInv
  <1>1. OrderAt(c)
    BY DEF OrderInv
  <1>2. \A m : Known(c, m)' => Gained(c, m)
    BY <1>1, KnownGained
  <1>3. BuffersGain(c)
    BY <1>1, BuffersGained
  <1>4. \A m, n, r : Known(c, m)' /\ Known(c, n)' /\ Has(m.text, r) /\ Has(n.text, r)
                       => m.id = n.id
    <2> SUFFICES ASSUME NEW m, NEW n, NEW r, Known(c, m)', Known(c, n)',
                        Has(m.text, r), Has(n.text, r)
                 PROVE  m.id = n.id
      OBVIOUS
    <2>1. \/ \E p : Known(c, p) /\ p.id = m.id /\ Has(p.text, r)
          \/ Amended(c, m) /\ Has(Buffered(c), r)
      BY <1>2 DEF Gained
    <2>2. \/ \E p : Known(c, p) /\ p.id = n.id /\ Has(p.text, r)
          \/ Amended(c, n) /\ Has(Buffered(c), r)
      BY <1>2 DEF Gained
    <2>3. \A p, q : Known(c, p) /\ Known(c, q) /\ Has(p.text, r) /\ Has(q.text, r)
                      => p.id = q.id
      BY <1>1 DEF OrderAt
    <2>4. \A p : Known(c, p) /\ Has(p.text, r) => ~Has(Buffered(c), r)
      BY <1>1 DEF OrderAt
    <2>5. Amended(c, m) /\ Amended(c, n) => m.id = n.id
      BY DEF Amended
    <2> QED
      BY <2>1, <2>2, <2>3, <2>4, <2>5
  <1>5. \A m, r : Known(c, m)' /\ Has(m.text, r) =>
                    ~Has(Buffered(c)', r) /\ store'.active[c] # r
    <2> SUFFICES ASSUME NEW m, NEW r, Known(c, m)', Has(m.text, r)
                 PROVE  ~Has(Buffered(c)', r) /\ store'.active[c] # r
      OBVIOUS
    <2>1. \/ \E p : Known(c, p) /\ Has(p.text, r)
          \/ Amended(c, m) /\ Has(Buffered(c), r)
      BY <1>2 DEF Gained
    <2>2. \A p : Known(c, p) /\ Has(p.text, r) =>
            /\ ~Has(Buffered(c), r) /\ store.active[c] # r
            /\ r \in Requests /\ ~(sent[r] = 0)
      <3> SUFFICES ASSUME NEW p, Known(c, p), Has(p.text, r)
                   PROVE  /\ ~Has(Buffered(c), r) /\ store.active[c] # r
                          /\ r \in Requests /\ ~(sent[r] = 0)
        OBVIOUS
      <3>1. PICK i \in DOMAIN p.text : p.text[i][1] = r /\ p.text[i][2] > 0
        BY DEF Has
      <3>2. r \in Requests /\ p.text[i][2] <= sent[r]
        BY <1>1, <3>1 DEF OrderAt, Counted
      <3>3. p.text[i] \in Reqs \X (0 .. MaxTokens)
        BY KnownTyped DEF Chunks
      <3>4. p.text[i][2] \in Int
        BY <3>3
      <3> QED
        BY <1>1, <3>1, <3>2, <3>4 DEF OrderAt
    <2>3. CASE store'.active[c] = None /\ Buffered(c)' = <<>>
      <3>1. ~Has(Buffered(c)', r)
        BY <2>3 DEF Has
      <3>2. r \in Requests
        <4>1. PICK i \in DOMAIN m.text : m.text[i][1] = r /\ m.text[i][2] > 0
          BY DEF Has
        <4> QED
          BY <1>2, <4>1 DEF Gained, Counted
      <3> QED
        BY <2>3, <3>1, <3>2, StreamsAssumption
    <2>4. CASE store'.active[c] = store.active[c] /\ \A n : ~Amended(c, n)
      <3>1. ~Has(Buffered(c), r) /\ store.active[c] # r
        BY <2>1, <2>2, <2>4
      <3> QED
        BY <1>3, <2>4, <3>1 DEF BuffersGain
    <2>5. CASE /\ store'.active[c] \in Requests /\ sent[store'.active[c]] = 0
               /\ Buffered(c)' = Buffered(c) /\ \A n : ~Amended(c, n)
      BY <2>1, <2>2, <2>5
    <2> QED
      BY <1>3, <2>3, <2>4, <2>5 DEF BuffersGain
  <1>6. \A m : Known(c, m)' => Ordered(m.text) /\ Counted(m.text)'
    BY <1>2 DEF Gained
  <1>7. Ordered(Buffered(c))' /\ Counted(Buffered(c))'
    BY <1>3 DEF BuffersGain
  <1> QED
    BY <1>4, <1>5, <1>6, <1>7 DEF OrderAt

\* So nothing of an answer is out of order.
LEMMA OrderTold == TypeOK /\ OrderInv => TokensInOrder
  <1> SUFFICES ASSUME TypeOK, OrderInv, NEW c \in Convs,
                      NEW b \in DOMAIN Texts(c), NEW a \in 1 .. b,
                      NEW i \in DOMAIN Texts(c)[a], NEW j \in DOMAIN Texts(c)[b],
                      a < b \/ i < j, Texts(c)[a][i][1] = Texts(c)[b][j][1],
                      Texts(c)[a][i][2] > 0, Texts(c)[b][j][2] > 0
               PROVE  Texts(c)[a][i][2] < Texts(c)[b][j][2]
    BY DEF TokensInOrder
  <1>1. PICK ms, n, live, batch, buffered, t, u, r :
          /\ ms = store.msgs[c] /\ n = Len(ms) /\ live = store.live[c]
          /\ batch = store.batch[c].text /\ buffered = Buffered(c)
          /\ t = Texts(c)[a] /\ u = Texts(c)[b] /\ r = t[i][1]
    OBVIOUS
  <1>2. ms \in Seq(Messages) /\ n \in Nat /\ DOMAIN ms = 1 .. n /\ Distinct(ms)
    BY <1>1, StoreTyped DEF TypeOK
  <1>3. live \in Seq(Chunks) /\ batch \in Seq(Chunks) /\ buffered = live \o batch
    BY <1>1, FlushedBuffered DEF Buffered
  <1>4. \A k \in DOMAIN ms : Known(c, ms[k])
    BY <1>1 DEF Known, Holds, Sources
  <1>5. b \in 1 .. n + 2 /\ a \in 1 .. n + 2 /\ a \in Int /\ b \in Int /\ a <= b
    <2>1. DOMAIN Texts(c) = 1 .. n + 2
      BY <1>1 DEF Texts
    <2> QED
      BY <1>2, <2>1
  <1>6. /\ t = IF a <= n THEN ms[a].text ELSE IF a = n + 1 THEN live ELSE batch
        /\ u = IF b <= n THEN ms[b].text ELSE IF b = n + 1 THEN live ELSE batch
    BY <1>1, <1>5 DEF Texts
  <1>7. OrderAt(c)
    BY DEF OrderInv
  <1>8. Has(t, r) /\ Has(u, r)
    BY <1>1 DEF Has
  <1>9. /\ \A k \in DOMAIN live : k \in DOMAIN buffered /\ buffered[k] = live[k]
        /\ \A k \in DOMAIN batch : /\ Len(live) + k \in DOMAIN buffered
                                   /\ buffered[Len(live) + k] = batch[k]
        /\ Len(live) \in Nat /\ DOMAIN live = 1 .. Len(live) /\ DOMAIN batch \subseteq Int
    <2>1. DOMAIN batch = 1 .. Len(batch) /\ DOMAIN live = 1 .. Len(live) /\ Len(live) \in Nat
      BY <1>3
    <2>2. /\ \A k \in DOMAIN live : k \in DOMAIN buffered /\ buffered[k] = live[k]
          /\ \A k \in DOMAIN batch : /\ Len(live) + k \in DOMAIN buffered
                                     /\ buffered[Len(live) + k] = batch[k]
      BY <1>3, TogetherPlaces
    <2> QED
      BY <2>1, <2>2
  <1>10. Ordered(buffered)
    BY <1>1, <1>7 DEF OrderAt
  <1>11. CASE b <= n
    <2>1. /\ a \in DOMAIN ms /\ b \in DOMAIN ms /\ t = ms[a].text /\ u = ms[b].text
      BY <1>2, <1>5, <1>6, <1>11
    <2>2. ms[a].id = ms[b].id
      BY <1>4, <1>7, <1>8, <2>1 DEF OrderAt
    <2>3. a = b
      BY <1>2, <2>1, <2>2 DEF Distinct
    <2>4. Ordered(t)
      BY <1>4, <1>7, <2>1 DEF OrderAt
    <2> QED
      BY <1>1, <1>5, <2>3, <2>4 DEF Ordered
  <1>12. CASE a <= n /\ b > n
    <2>1. a \in DOMAIN ms /\ t = ms[a].text /\ u \in {live, batch}
      BY <1>2, <1>5, <1>6, <1>12
    <2>2. Has(buffered, r)
      BY <1>3, <1>8, <2>1, TogetherHas
    <2> QED
      BY <1>1, <1>4, <1>7, <1>8, <2>1, <2>2 DEF OrderAt
  <1>13. CASE a = n + 1 /\ b = n + 1
    <2>1. t = live /\ u = live
      BY <1>2, <1>6, <1>13
    <2>2. i < j /\ i \in DOMAIN live /\ j \in DOMAIN live
      BY <1>1, <1>2, <1>13, <2>1
    <2>3. /\ i \in DOMAIN buffered /\ j \in DOMAIN buffered
          /\ buffered[i] = t[i] /\ buffered[j] = u[j]
      BY <1>9, <2>1, <2>2
    <2> QED
      BY <1>1, <1>10, <2>2, <2>3 DEF Ordered
  <1>14. CASE a = n + 1 /\ b = n + 2
    <2>1. t = live /\ u = batch
      BY <1>2, <1>6, <1>14
    <2>2. PICK k : k = Len(live) + j
      OBVIOUS
    <2>3. i \in DOMAIN live /\ j \in DOMAIN batch
      BY <1>1, <2>1
    <2>4. i \in 1 .. Len(live) /\ j \in Int /\ j >= 1 /\ Len(live) \in Nat
      BY <1>9, <2>3
    <2>5. i < k
      BY <2>2, <2>4
    <2>6. /\ i \in DOMAIN buffered /\ k \in DOMAIN buffered
          /\ buffered[i] = t[i] /\ buffered[k] = u[j]
      BY <1>9, <2>1, <2>2, <2>3
    <2> QED
      BY <1>1, <1>10, <2>5, <2>6 DEF Ordered
  <1>15. CASE a = n + 2 /\ b = n + 2
    <2>1. t = batch /\ u = batch /\ i < j
      BY <1>2, <1>5, <1>6, <1>15
    <2>2. PICK h, k : h = Len(live) + i /\ k = Len(live) + j
      OBVIOUS
    <2>3. i \in DOMAIN batch /\ j \in DOMAIN batch /\ h < k
      BY <1>1, <1>9, <2>1, <2>2
    <2>4. /\ h \in DOMAIN buffered /\ k \in DOMAIN buffered
          /\ buffered[h] = t[i] /\ buffered[k] = u[j]
      BY <1>9, <2>1, <2>2, <2>3
    <2> QED
      BY <1>1, <1>10, <2>3, <2>4 DEF Ordered
  <1> QED
    BY <1>2, <1>5, <1>11, <1>12, <1>13, <1>14, <1>15

-----------------------------------------------------------------------------
(* Whose the last message of a conversation is, and what becomes of answers. *)

\* A send that waits for its context streams in its conversation, or another
\* one does and both are disturbed.
RivalsInv ==
  \A r \in Requests : calls[r].pc = "rag" =>
    LET a == store.active[calls[r].conv]
    IN a \in {None, r} \/ {r, a} \subseteq disturbed

\* The last message of a conversation that streams is the answer of its
\* stream, or nothing came for it yet, or it is disturbed.
HoldingInv ==
  \A c \in Convs : store.active[c] # None =>
    \/ EndsWith(store.msgs[c], store.active[c])
    \/ calls[store.active[c]].pc = "rag" /\ Empty(c)
    \/ Owner(store.msgs[c]) \subseteq disturbed

\* The answer of a stream that nothing disturbed is still empty, and the
\* buffers hold exactly what was sent.
Clean(c, r) ==
  IF calls[r].pc = "rag" THEN Empty(c)
  ELSE /\ EndsWith(store.msgs[c], r)
       /\ Last(store.msgs[c]) = Message(Assistant(r))
       /\ Buffered(c) = [k \in 1 .. sent[r] |-> <<r, k>>]
       /\ store.batch[c].req \in {None, r}
CleanInv ==
  \A c \in Convs : store.active[c] # None /\ store.active[c] \notin disturbed =>
    Clean(c, store.active[c])

\* An answer that completed is whole wherever it is; before that no list that
\* a load may bring has it.
CopiesInv ==
  \A r \in Requests \ disturbed :
    IF store.outcome[r] = "complete"
    THEN \A c \in Convs : \A m : Known(c, m) /\ m.id = Assistant(r) => Whole(m, r)
    ELSE \A c \in Convs : \A ms \in Copies(c) : Assistant(r) \notin IdsOf(ms)

\* And it is stored.
KeptInv ==
  \A r \in Requests \ disturbed : store.outcome[r] = "complete" =>
    edits > 0 \/ calls[r].conv \notin open \/ Assistant(r) \in IdsOf(stored[calls[r].conv])

\* A stop before the messages are there disturbs the send.
EarlyInv ==
  \A r \in Requests :
    calls[r].pc = "rag" /\ store.outcome[r] \in {"abort", "complete"} => r \in disturbed

AnswersInv == RivalsInv /\ HoldingInv /\ CleanInv /\ CopiesInv /\ KeptInv /\ EarlyInv

\* The stream of a conversation, before and after a step.
LEMMA StreamMoves ==
  ASSUME StreamsAssumption, TypeOK, CallsInv, Moves, NEW c \in Convs, store'.active[c] # None
  PROVE  \/ /\ store'.active[c] = store.active[c]
            /\ Rests(c) \/ Flushes(c) \/ Hears(c, store.active[c])
            /\ store.active[c] \in Requests /\ calls[store.active[c]].conv = c
            /\ calls[store.active[c]].pc # "new"
         \/ store'.active[c] \in Requests /\ Begins(c, store'.active[c])
  <1>1. store.active[c] \in Requests \cup {None} /\ None \notin Requests
    BY StoreTyped, StreamsAssumption
  <1>2. store.active[c] # None =>
          store.active[c] \in Requests /\ calls[store.active[c]].conv = c
            /\ calls[store.active[c]].pc # "new"
    BY <1>1 DEF CallsInv
  <1>3. BuffersMove(c)
    BY DEF Moves
  <1>4. CASE Rests(c) \/ Flushes(c)
    BY <1>2, <1>4 DEF Rests, Flushes
  <1>5. CASE Ends(c)
    BY <1>5 DEF Ends
  <1>6. ASSUME NEW r \in Requests, Begins(c, r)
        PROVE  store'.active[c] = r
    BY <1>6 DEF Begins
  <1>7. ASSUME NEW r \in Requests, Hears(c, r)
        PROVE  store.active[c] = r /\ store'.active[c] = r
    BY <1>7 DEF Hears
  <1> QED
    BY <1>1, <1>2, <1>3, <1>4, <1>5, <1>6, <1>7 DEF BuffersMove

\* The call of a stream, before and after a step.
LEMMA CallOfStream ==
  ASSUME StreamsAssumption, TypeOK, CallsInv, Moves, NEW c \in Convs, NEW r \in Requests,
         store.active[c] = r
  PROVE  /\ calls[r].conv = c /\ calls'[r].conv = c /\ store.outcome[r] = "none"
         /\ calls[r].pc # "rag" => calls'[r].pc # "rag"
         /\ calls[r].pc = "rag" => calls'[r].pc = "rag" \/ Replies(r)
         /\ calls[r].pc = "rag" => sent[r] = 0 /\ sent'[r] = 0 /\ ~Hears(c, r)
  <1>1. r # None
    BY StreamsAssumption
  <1>2. calls[r].conv = c /\ calls[r].pc # "new" /\ store.outcome[r] = "none"
    BY <1>1 DEF CallsInv
  <1>3. \A d \in Convs : ~Begins(d, r)
    BY <1>2 DEF Begins
  <1>4. \/ calls'[r].pc = calls[r].pc /\ calls'[r].conv = calls[r].conv
        \/ Replies(r)
        \/ calls[r].pc = "chat" /\ calls'[r].pc = "done" /\ calls'[r].conv = calls[r].conv
    BY <1>3 DEF Moves, CallMoves
  <1>5. Replies(r) => calls[r].pc = "rag" /\ calls'[r].conv = c
    BY <1>2 DEF Replies
  <1>6. calls[r].pc = "rag" => backend[r] = "none" /\ sent[r] = 0
    BY DEF CallsInv
  <1>7. calls[r].pc = "rag" => sent'[r] = sent[r] /\ ~Hears(c, r)
    BY <1>6 DEF Moves, CountMoves, Hears
  <1> QED
    BY <1>2, <1>4, <1>5, <1>6, <1>7

\* What is buffered stays empty while nothing is heard.
LEMMA EmptyStays ==
  ASSUME NEW c, Empty(c), Rests(c) \/ Flushes(c)
  PROVE  Empty(c)'
  BY DEF Empty, Rests, Flushes, Flushed, NoBatch

LEMMA RivalsKept ==
  ASSUME StreamsAssumption, TypeOK, CallsInv, RivalsInv, Moves
  PROVE  RivalsInv'
  <1> SUFFICES ASSUME NEW r \in Requests, calls'[r].pc = "rag",
                      store'.active[calls'[r].conv] \notin {None, r}
               PROVE  {r, store'.active[calls'[r].conv]} \subseteq disturbed'
    BY DEF RivalsInv
  <1>1. \A c \in Convs : Begins(c, r) => calls'[r].conv = c /\ store'.active[c] = r
    BY DEF Begins
  <1>2. ~Replies(r)
    BY DEF Replies
  <1>3. calls[r].pc = "rag" /\ calls'[r].conv = calls[r].conv
    BY <1>1, <1>2 DEF Moves, CallMoves
  <1>4. PICK c \in Convs : c = calls[r].conv
    BY <1>3 DEF CallsInv
  <1>5. \/ store'.active[c] = store.active[c]
        \/ store'.active[c] \in Requests /\ Begins(c, store'.active[c])
    BY <1>3, <1>4, StreamMoves
  <1>6. disturbed \subseteq disturbed'
    BY DEF Moves
  <1>7. CASE store'.active[c] = store.active[c]
    BY <1>3, <1>4, <1>6, <1>7 DEF RivalsInv
  <1>8. CASE store'.active[c] \in Requests /\ Begins(c, store'.active[c])
    <2>1. r \in Rivals(c)
      BY <1>3, <1>4 DEF Rivals
    <2> QED
      BY <1>3, <1>4, <1>8, <2>1 DEF Begins
  <1> QED
    BY <1>5, <1>7, <1>8

\* What begins in a conversation disturbs what streams there.
LEMMA BeginsAlone ==
  ASSUME StreamsAssumption, TypeOK, CallsInv, QuietInv, NEW c \in Convs, NEW r \in Requests,
         Begins(c, r)
  PROVE  /\ store.active[c] = None => Empty(c)'
         /\ store.active[c] # None => {store.active[c], r} \subseteq disturbed'
  <1>1. store.active[c] = None => Empty(c)
    BY DEF QuietInv, Empty
  <1>2. Empty(c) => Empty(c)'
    BY DEF Empty, Begins
  <1>3. store.active[c] # None => store.active[c] \in Rivals(c)
    BY StoreTyped DEF CallsInv, Rivals
  <1> QED
    BY <1>1, <1>2, <1>3 DEF Begins

LEMMA HoldingKept ==
  ASSUME StreamsAssumption, TypeOK, QuietInv, CallsInv, RivalsInv, HoldingInv, CleanInv, Moves
  PROVE  HoldingInv'
  <1> SUFFICES ASSUME NEW c \in Convs, store'.active[c] # None
               PROVE  \/ EndsWith(store'.msgs[c], store'.active[c])
                      \/ calls'[store'.active[c]].pc = "rag" /\ Empty(c)'
                      \/ Owner(store'.msgs[c]) \subseteq disturbed'
    BY DEF HoldingInv
  <1>1. disturbed \subseteq disturbed'
    BY DEF Moves
  <1>2. store.active[c] # None =>
          \/ EndsWith(store.msgs[c], store.active[c])
          \/ calls[store.active[c]].pc = "rag" /\ Empty(c)
          \/ Owner(store.msgs[c]) \subseteq disturbed
    BY DEF HoldingInv
  <1>3. CASE store'.active[c] \in Requests /\ Begins(c, store'.active[c])
    <2>1. PICK r \in Requests : r = store'.active[c] /\ Begins(c, r)
      BY <1>3
    <2>2. calls'[r].pc = "rag" /\ store'.msgs[c] = store.msgs[c]
      BY <2>1 DEF Begins
    <2>3. CASE store.active[c] = None
      BY <2>1, <2>2, <2>3, BeginsAlone
    <2>4. CASE store.active[c] # None
      <3>1. store.active[c] \in disturbed'
        BY <2>1, <2>4, BeginsAlone
      <3>2. EndsWith(store.msgs[c], store.active[c]) => Owner(store.msgs[c]) \subseteq disturbed'
        BY <3>1 DEF EndsWith, Owner, Assistant
      <3>3. Empty(c) => Empty(c)'
        BY <2>1 DEF Empty, Begins
      <3> QED
        BY <1>1, <1>2, <2>1, <2>2, <2>4, <3>2, <3>3
    <2> QED
      BY <2>3, <2>4
  <1>4. ASSUME NEW a \in Requests, store.active[c] = a, store'.active[c] = a, a # None,
               Rests(c) \/ Flushes(c) \/ Hears(c, a), calls[a].conv = c
        PROVE  \/ EndsWith(store'.msgs[c], a)
               \/ calls'[a].pc = "rag" /\ Empty(c)'
               \/ Owner(store'.msgs[c]) \subseteq disturbed'
    <2>1. /\ calls[a].pc = "rag" => calls'[a].pc = "rag" \/ Replies(a)
          /\ calls[a].pc = "rag" => ~Hears(c, a)
      BY <1>4, CallOfStream
    <2>2. \A r : Replies(r) /\ calls[r].conv = c =>
            EndsWith(store'.msgs[c], r) /\ Owner(store'.msgs[c]) = {r}
      BY DEF Replies, EndsWith, Owner, Message, Assistant
    <2>3. calls[a].pc = "rag" /\ Empty(c) =>
            EndsWith(store'.msgs[c], a) \/ (calls'[a].pc = "rag" /\ Empty(c)')
      BY <1>4, <2>1, <2>2, EmptyStays
    <2>4. CASE store'.msgs[c] = store.msgs[c]
      BY <1>1, <1>2, <1>4, <2>3, <2>4
    <2>5. ASSUME NEW r \in Requests, calls[r].conv = c, Replies(r)
          PROVE  EndsWith(store'.msgs[c], a) \/ Owner(store'.msgs[c]) \subseteq disturbed'
      <3>1. calls[r].pc = "rag"
        BY <2>5 DEF Replies
      <3>2. r = a \/ r \in disturbed
        BY <1>4, <2>5, <3>1 DEF RivalsInv
      <3> QED
        BY <1>1, <2>2, <2>5, <3>2
    <2>6. CASE {store.active[c]} \cup Owner(store'.msgs[c]) \subseteq disturbed'
      BY <2>6
    <2>7. CASE EndsWith(store'.msgs[c], store.active[c])
      BY <1>4, <2>7
    <2>8. CASE /\ store.active[c] \in Requests \ disturbed
               /\ calls[store.active[c]].pc = "rag" /\ calls' = calls
      <3>1. Empty(c)
        BY <1>4, <2>8 DEF CleanInv, Clean
      <3> QED
        BY <1>4, <2>3, <2>8, <3>1
    <2>9. ViewMoves(c)
      BY DEF Moves
    <2> QED
      BY <1>4, <2>4, <2>5, <2>6, <2>7, <2>8, <2>9 DEF ViewMoves
  <1> QED
    BY <1>3, <1>4, StreamMoves

\* The view of a stream that nothing disturbs.
LEMMA CleanView ==
  ASSUME StreamsAssumption, TypeOK, CallsInv, RivalsInv, CleanInv, Moves, NEW c \in Convs,
         NEW r \in Requests, store.active[c] = r, store'.active[c] = r, r \notin disturbed',
         calls[r].pc # "rag"
  PROVE  /\ EndsWith(store'.msgs[c], r)
         /\ Last(store'.msgs[c]) = Message(Assistant(r))
  <1>1. r # None /\ r \notin disturbed
    BY StreamsAssumption DEF Moves
  <1>2. EndsWith(store.msgs[c], r) /\ Last(store.msgs[c]) = Message(Assistant(r))
    BY <1>1 DEF CleanInv, Clean
  <1>3. ASSUME NEW q \in Requests, calls[q].conv = c, Replies(q)
        PROVE  FALSE
    <2>1. calls[q].pc = "rag"
      BY <1>3 DEF Replies
    <2> QED
      BY <1>1, <1>3, <2>1 DEF RivalsInv
  <1>4. ViewMoves(c)
    BY DEF Moves
  <1> QED
    BY <1>1, <1>2, <1>3, <1>4 DEF ViewMoves

\* What is buffered of it.
LEMMA CleanBuffers ==
  ASSUME StreamsAssumption, TypeOK, TypeOK', CallsInv, QuietInv, CleanInv, Moves, NEW c \in Convs,
         NEW r \in Requests, store.active[c] = r, r \notin disturbed, calls[r].pc # "rag"
  PROVE  /\ Flushed(store, c) = [k \in 1 .. sent[r] |-> <<r, k>>]
         /\ Rests(c) \/ Flushes(c) \/ Hears(c, r) =>
              /\ Buffered(c)' = [k \in 1 .. sent'[r] |-> <<r, k>>]
              /\ store'.batch[c].req \in {None, r}
         /\ Ends(c) => sent'[r] = sent[r]
  <1>1. r # None
    BY StreamsAssumption
  <1>2. PICK b : b = [k \in 1 .. sent[r] |-> <<r, k>>]
    OBVIOUS
  <1>3. Buffered(c) = b /\ store.batch[c].req \in {None, r}
    BY <1>1, <1>2 DEF CleanInv, Clean
  <1>4. store.live[c] \in Seq(Chunks) /\ store.batch[c].text \in Seq(Chunks) /\ b \in Seq(Chunks)
    BY <1>3, FlushedBuffered
  <1>5. Flushed(store, c) = b
    <2>1. CASE store.batch[c].req = r
      BY <1>1, <1>3, <2>1 DEF Flushed, Buffered
    <2>2. CASE store.batch[c].req = None
      <3>1. store.batch[c].text = <<>>
        BY <2>2 DEF QuietInv
      <3>2. Buffered(c) = store.live[c]
        BY <1>4, <3>1, ConcatEmptySeq DEF Buffered
      <3> QED
        BY <1>3, <2>2, <3>2 DEF Flushed
    <2> QED
      BY <1>3, <2>1, <2>2
  <1>6. sent'[r] = sent[r] \/ Hears(c, r)
    BY DEF Moves, CountMoves
  <1>7. CASE Hears(c, r)
    <2>1. sent[r] \in Nat
      BY DEF TypeOK
    <2>2. PICK n, one : n = sent[r] + 1 /\ one = <<<<r, n>>>>
      OBVIOUS
    <2>3. sent'[r] = n /\ Buffered(c)' = store.live[c] \o (store.batch[c].text \o one)
      BY <1>7, <2>2 DEF Hears, Buffered
    <2>4. one \in Seq(Chunks)
      <3>1. sent'[r] \in 0 .. MaxTokens
        BY DEF TypeOK
      <3>2. <<r, n>> \in Chunks
        BY <2>1, <2>2, <2>3, <3>1 DEF Chunks, Reqs
      <3> QED
        BY <2>2, <3>2
    <2>5. Buffered(c)' = b \o one
      <3>1. \A t, u \in Seq(Chunks) : t \o (u \o one) = (t \o u) \o one
        BY <2>4, ConcatAssociative
      <3> QED
        BY <1>3, <1>4, <2>3, <3>1 DEF Buffered
    <2>6. b \o one = [k \in 1 .. n |-> <<r, k>>]
      <3>1. Len(b) = sent[r] /\ \A k \in 1 .. sent[r] : b[k] = <<r, k>>
        BY <1>2, <1>4, <2>1
      <3>2. PICK w : w = b \o one
        OBVIOUS
      <3>3. /\ w \in Seq(Chunks) /\ DOMAIN w = 1 .. n
            /\ w[n] = <<r, n>> /\ \A k \in 1 .. sent[r] : w[k] = b[k]
        <4>1. Len(one) = 1 /\ one[1] = <<r, n>>
          BY <2>2
        <4>2. w \in Seq(Chunks) /\ Len(w) = sent[r] + 1
          <5>1. b \o one \in Seq(Chunks) /\ Len(b \o one) = Len(b) + Len(one)
            BY <1>4, <2>4, ConcatProperties
          <5> QED
            BY <3>1, <3>2, <4>1, <5>1
        <4>3. w[n] = <<r, n>>
          BY <1>4, <2>1, <2>2, <2>4, <3>1, <3>2, <4>1
        <4>4. \A k \in 1 .. sent[r] : w[k] = b[k]
          BY <1>4, <2>1, <2>4, <3>1, <3>2
        <4> QED
          BY <2>1, <2>2, <4>2, <4>3, <4>4
      <3>4. \A k \in 1 .. n : k = n \/ k \in 1 .. sent[r]
        BY <2>1, <2>2
      <3>5. \A k \in 1 .. n : w[k] = <<r, k>>
        <4> SUFFICES ASSUME NEW k \in 1 .. n
                     PROVE  w[k] = <<r, k>>
          OBVIOUS
        <4>1. CASE k = n
          BY <3>3, <4>1
        <4>2. CASE k \in 1 .. sent[r]
          BY <3>1, <3>3, <4>2
        <4> QED
          BY <3>4, <4>1, <4>2
      <3>6. w = [k \in DOMAIN w |-> w[k]]
        BY <3>3
      <3>7. w = [k \in 1 .. n |-> <<r, k>>]
        BY <3>3, <3>5, <3>6
      <3> QED
        BY <3>2, <3>7
    <2>7. store'.batch[c].req \in {None, r}
      BY <1>3, <1>7 DEF Hears
    <2>8. ~Ends(c)
      BY <1>1, <1>7 DEF Hears, Ends
    <2> QED
      BY <1>2, <1>5, <2>3, <2>5, <2>6, <2>7, <2>8
  <1>8. CASE sent'[r] = sent[r] /\ ~Hears(c, r)
    <2>1. Rests(c) => Buffered(c)' = b /\ store'.batch[c].req \in {None, r}
      BY <1>3 DEF Rests, Buffered
    <2>2. Flushes(c) => Buffered(c)' = b \o <<>> /\ store'.batch[c].req = None
      BY <1>5 DEF Flushes, Buffered, NoBatch
    <2>3. b \o <<>> = b
      BY <1>4, ConcatEmptySeq
    <2> QED
      BY <1>2, <1>5, <1>8, <2>1, <2>2, <2>3
  <1> QED
    BY <1>6, <1>7, <1>8

LEMMA CleanKept ==
  ASSUME StreamsAssumption, TypeOK, TypeOK', QuietInv, CallsInv, RivalsInv, CleanInv, Moves
  PROVE  CleanInv'
  <1> SUFFICES ASSUME NEW c \in Convs, store'.active[c] # None, store'.active[c] \notin disturbed'
               PROVE  Clean(c, store.active[c])'
    BY DEF CleanInv, Clean
  <1>1. CASE store'.active[c] \in Requests /\ Begins(c, store'.active[c])
    <2>1. PICK r \in Requests : r = store'.active[c] /\ Begins(c, r)
      BY <1>1
    <2>2. Empty(c)'
      BY <2>1, BeginsAlone
    <2>3. calls'[r].pc = "rag"
      BY <2>1 DEF Begins
    <2> QED
      BY <2>1, <2>2, <2>3 DEF Clean
  <1>2. ASSUME NEW r \in Requests, store.active[c] = r, store'.active[c] = r,
               Rests(c) \/ Flushes(c) \/ Hears(c, r), calls[r].conv = c
        PROVE  Clean(c, store.active[c])'
    <2>1. r \notin disturbed /\ r \notin disturbed' /\ r # None
      BY <1>2, StreamsAssumption DEF Moves
    <2>2. CASE calls[r].pc = "rag"
      <3>1. Empty(c)
        BY <1>2, <2>1, <2>2 DEF CleanInv, Clean
      <3>2. Empty(c)'
        BY <1>2, <2>2, <3>1, CallOfStream, EmptyStays
      <3>3. CASE calls'[r].pc = "rag"
        BY <1>2, <3>2, <3>3 DEF Clean
      <3>4. CASE Replies(r)
        <4>1. /\ EndsWith(store'.msgs[c], r) /\ Last(store'.msgs[c]) = Message(Assistant(r))
              /\ calls'[r].pc = "chat"
          BY <1>2, <3>4 DEF Replies, EndsWith, Message
        <4>2. sent'[r] = 0
          BY <1>2, <2>2, CallOfStream
        <4>3. Buffered(c)' = <<>> /\ store'.batch[c].req = None
          BY <3>2 DEF Empty, Buffered, NoBatch
        <4>4. <<>> = [k \in 1 .. 0 |-> <<r, k>>]
          OBVIOUS
        <4> QED
          BY <1>2, <4>1, <4>2, <4>3, <4>4 DEF Clean
      <3> QED
        BY <1>2, <2>2, <3>3, <3>4, CallOfStream
    <2>3. CASE calls[r].pc # "rag"
      <3>1. calls'[r].pc # "rag"
        BY <1>2, <2>3, CallOfStream
      <3>2. EndsWith(store'.msgs[c], r) /\ Last(store'.msgs[c]) = Message(Assistant(r))
        BY <1>2, <2>1, <2>3, CleanView
      <3>3. Buffered(c)' = [k \in 1 .. sent'[r] |-> <<r, k>>] /\ store'.batch[c].req \in {None, r}
        BY <1>2, <2>1, <2>3, CleanBuffers
      <3> QED
        BY <1>2, <3>1, <3>2, <3>3 DEF Clean
    <2> QED
      BY <2>2, <2>3
  <1> QED
    BY <1>1, <1>2, StreamMoves

\* The answer of a stream that is over is amended no more.
LEMMA NotAmended ==
  ASSUME StreamsAssumption, TypeOK, CallsInv, HoldingInv, Moves, NEW c \in Convs, NEW m,
         NEW r \in Requests, r \notin disturbed', m.id = Assistant(r), Amended(c, m)
  PROVE  store.active[c] = r
  <1>1. store.active[c] # None /\ EndsWith(store.msgs[c], r) /\ Owner(store.msgs[c]) = {r}
    BY DEF Amended, EndsWith, Owner, Assistant
  <1>2. r \notin disturbed
    BY DEF Moves
  <1>3. ~(calls[store.active[c]].pc = "rag" /\ Empty(c))
    BY <1>1 DEF Amended
  <1>4. EndsWith(store.msgs[c], store.active[c])
    BY <1>1, <1>2, <1>3 DEF HoldingInv
  <1> QED
    BY <1>1, <1>4 DEF EndsWith, Assistant

\* Nor is it added.
LEMMA NotAdded ==
  ASSUME EarlyInv, Moves, NEW c \in Convs, NEW m, NEW r \in Requests, r \notin disturbed',
         m.id = Assistant(r), store.outcome[r] \in {"abort", "complete"}
  PROVE  ~Added(c, m)
  <1>1. r \notin disturbed
    BY DEF Moves
  <1>2. calls[r].pc # "rag"
    BY <1>1 DEF EarlyInv
  <1>3. m.id[2] # "user" /\ \A q : m.id = Assistant(q) => q = r
    BY DEF Assistant
  <1> QED
    BY <1>2, <1>3 DEF Added

\* The view shows an answer that is resolved as it was, or as a list has it.
LEMMA ResolvedStays ==
  ASSUME StreamsAssumption, TypeOK, CallsInv, HoldingInv, EarlyInv, Moves, NEW c \in Convs,
         NEW m, NEW r \in Requests, r \notin disturbed', m.id = Assistant(r),
         store.outcome[r] \in {"abort", "complete"}, Known(c, m)'
  PROVE  Known(c, m)
  <1>1. Known(c, m) \/ Added(c, m) \/ Amended(c, m)
    BY DEF Known, Holds, Moves, ListsMove
  <1>2. store.active[c] # r
    BY StreamsAssumption DEF CallsInv
  <1> QED
    BY <1>1, <1>2, NotAdded, NotAmended

\* A stream that ends as complete.
LEMMA Completing ==
  ASSUME StreamsAssumption, TypeOK, TypeOK', QuietInv, CallsInv, CleanInv, Moves,
         NEW r \in Requests, r \notin disturbed',
         store'.outcome[r] = "complete", store.outcome[r] # "complete"
  PROVE  \E c \in Convs :
           /\ store.active[c] = r /\ Ends(c) /\ Completes(c, r)
           /\ EndsWith(store.msgs[c], r) /\ Last(store.msgs[c]) = Message(Assistant(r))
           /\ Flushed(store, c) = [k \in 1 .. sent[r] |-> <<r, k>>] /\ sent'[r] = sent[r]
           /\ calls[r].conv = c /\ calls'[r].conv = c
  <1>1. PICK c \in Convs : store.active[c] = r /\ Ends(c) /\ Completes(c, r)
    BY DEF Moves, OutcomeMoves
  <1>2. r # None /\ r \notin disturbed
    BY StreamsAssumption DEF Moves
  <1>3. calls[r].pc # "rag"
    BY <1>1 DEF Completes
  <1>4. EndsWith(store.msgs[c], r) /\ Last(store.msgs[c]) = Message(Assistant(r))
    BY <1>1, <1>2, <1>3 DEF CleanInv, Clean
  <1>5. Flushed(store, c) = [k \in 1 .. sent[r] |-> <<r, k>>] /\ sent'[r] = sent[r]
    BY <1>1, <1>2, <1>3, CleanBuffers
  <1>6. calls[r].conv = c /\ calls'[r].conv = c
    BY <1>1, CallOfStream
  <1> QED
    BY <1>1, <1>4, <1>5, <1>6

\* An outcome stays.
LEMMA OutcomeStays ==
  ASSUME StreamsAssumption, CallsInv, Moves, NEW r \in Requests, store.outcome[r] # "none"
  PROVE  store'.outcome[r] = store.outcome[r]
  <1> SUFFICES ASSUME store'.outcome[r] # store.outcome[r]
               PROVE  FALSE
    OBVIOUS
  <1>1. PICK c \in Convs : store.active[c] = r
    BY DEF Moves, OutcomeMoves
  <1> QED
    BY <1>1, StreamsAssumption DEF CallsInv

\* The lists of a conversation have answers of its own calls only.
LEMMA KnownOwn ==
  ASSUME IdsInv, NEW c \in Convs, NEW m, NEW r \in Requests, Known(c, m), m.id = Assistant(r)
  PROVE  calls[r].conv = c
  <1>1. PICK ms \in Sources(c) : Holds(ms, m)
    BY DEF Known
  <1>2. Own(ms, Sent(c))
    BY <1>1 DEF IdsInv, Sources
  <1> QED
    BY <1>1, <1>2 DEF Own, Holds, Assistant, Sent

LEMMA CopiesKept ==
  ASSUME StreamsAssumption, TypeOK, TypeOK', QuietInv, CallsInv, IdsInv', HoldingInv, CleanInv,
         CopiesInv, EarlyInv, Moves
  PROVE  CopiesInv'
  <1>1. ASSUME NEW r \in Requests, r \notin disturbed', store'.outcome[r] = "complete",
               NEW c \in Convs, NEW m, Known(c, m)', m.id = Assistant(r)
        PROVE  Whole(m, r)'
    <2>1. r \notin disturbed
      BY <1>1 DEF Moves
    <2>2. CASE store.outcome[r] = "complete"
      <3>1. Known(c, m)
        BY <1>1, <2>2, ResolvedStays
      <3>2. Whole(m, r)
        BY <1>1, <2>1, <2>2, <3>1 DEF CopiesInv
      <3>3. sent'[r] = sent[r]
        BY <2>2 DEF Moves, CountMoves, CallsInv
      <3> QED
        BY <3>2, <3>3 DEF Whole
    <2>3. CASE store.outcome[r] # "complete"
      <3>1. PICK d \in Convs :
              /\ store.active[d] = r /\ Ends(d) /\ Completes(d, r)
              /\ EndsWith(store.msgs[d], r) /\ Last(store.msgs[d]) = Message(Assistant(r))
              /\ Flushed(store, d) = [k \in 1 .. sent[r] |-> <<r, k>>] /\ sent'[r] = sent[r]
              /\ calls[r].conv = d /\ calls'[r].conv = d
        BY <1>1, <2>3, Completing
      <3>2. PICK ms \in Sources(c)' : Holds(ms, m)
        BY <1>1 DEF Known
      <3>3. Own(ms, Sent(c)')
        BY <3>2 DEF IdsInv, Sources
      <3>4. d = c
        BY <1>1, <3>1, <3>2, <3>3 DEF Own, Holds, Assistant, Sent
      <3>5. Amended(c, m) \/ \E old \in Copies(c) : Assistant(r) \in IdsOf(old)
        BY <1>1, <3>1, <3>2, <3>4 DEF Completes, Holds
      <3>6. Amended(c, m)
        BY <2>1, <2>3, <3>5 DEF CopiesInv
      <3>7. /\ m.text = Last(store.msgs[c]).text \o Flushed(store, c)
            /\ m.metrics = r /\ ~m.stopped
        BY <1>1, <3>1, <3>4, <3>6 DEF Amended
      <3>8. Last(store.msgs[c]).text = <<>>
        BY <3>1, <3>4 DEF Message
      <3>9. Flushed(store, c) \in Seq(Chunks)
        BY FlushedTyped, StoreTyped
      <3>10. m.text = Flushed(store, c)
        BY <3>7, <3>8, <3>9, ConcatEmptySeq
      <3> QED
        BY <3>1, <3>4, <3>7, <3>10 DEF Whole
    <2> QED
      BY <2>2, <2>3
  <1>2. ASSUME NEW r \in Requests, r \notin disturbed', store'.outcome[r] # "complete",
               NEW c \in Convs, NEW ms \in Copies(c)', Assistant(r) \in IdsOf(ms)
        PROVE  FALSE
    <2>1. r \notin disturbed
      BY <1>2 DEF Moves
    <2>2. store.outcome[r] # "complete"
      BY <1>2, OutcomeStays
    <2>3. PICK i \in DOMAIN ms : ms[i].id = Assistant(r)
      BY <1>2 DEF IdsOf
    <2>4. ms[i].id[2] # "user"
      BY <2>3 DEF Assistant
    <2>5. \A old \in Copies(c) : Assistant(r) \notin IdsOf(old)
      BY <2>1, <2>2 DEF CopiesInv
    <2>6. PICK a : a = store.active[c]
      OBVIOUS
    <2>7. /\ a # None /\ calls[a].pc # "rag" /\ store'.outcome[a] = "complete"
          /\ store.msgs[c] # <<>> /\ Assistant(r) = Last(store.msgs[c]).id
      BY <1>2, <2>3, <2>4, <2>5, <2>6 DEF Moves, CopiesMove
    <2>8. a # r
      BY <1>2, <2>7
    <2>9. ~EndsWith(store.msgs[c], a) /\ Owner(store.msgs[c]) = {r}
      BY <2>7, <2>8 DEF EndsWith, Owner, Assistant
    <2> QED
      BY <2>1, <2>6, <2>7, <2>9 DEF HoldingInv
  <1> QED
    BY <1>1, <1>2 DEF CopiesInv

LEMMA KeptKept ==
  ASSUME StreamsAssumption, TypeOK, TypeOK', QuietInv, CallsInv, CleanInv, KeptInv, Moves
  PROVE  KeptInv'
  <1> SUFFICES ASSUME NEW r \in Requests, r \notin disturbed', store'.outcome[r] = "complete",
                      ~(edits' > 0), calls'[r].conv \in open'
               PROVE  Assistant(r) \in IdsOf(stored'[calls'[r].conv])
    BY DEF KeptInv
  <1>1. r \notin disturbed /\ ~(edits > 0)
    BY DEF Moves
  <1>2. CASE store.outcome[r] = "complete"
    <2>1. calls[r].pc # "new"
      BY <1>2 DEF CallsInv
    <2>2. calls'[r].conv = calls[r].conv /\ calls[r].conv \in Convs
      BY <2>1 DEF Moves, CallMoves, Begins, Replies, CallsInv
    <2>3. PICK c \in Convs : c = calls[r].conv
      BY <2>2
    <2>4. StoredMoves(c)
      BY DEF Moves
    <2>5. c \in open /\ IdsOf(stored[c]) \subseteq IdsOf(stored'[c])
      BY <2>2, <2>3, <2>4 DEF StoredMoves
    <2>6. Assistant(r) \in IdsOf(stored[c])
      BY <1>1, <1>2, <2>3, <2>5 DEF KeptInv
    <2> QED
      BY <2>2, <2>3, <2>5, <2>6
  <1>3. CASE store.outcome[r] # "complete"
    <2>1. PICK c \in Convs : /\ Completes(c, r) /\ EndsWith(store.msgs[c], r)
                             /\ calls'[r].conv = c
      BY <1>3, Completing
    <2>2. c \in open
      BY <2>1 DEF Moves, StoredMoves
    <2> QED
      BY <2>1, <2>2 DEF Completes
  <1> QED
    BY <1>2, <1>3

LEMMA EarlyKept ==
  ASSUME StreamsAssumption, CallsInv, EarlyInv, Moves
  PROVE  EarlyInv'
  <1> SUFFICES ASSUME NEW r \in Requests, calls'[r].pc = "rag",
                      store'.outcome[r] \in {"abort", "complete"}
               PROVE  r \in disturbed'
    BY DEF EarlyInv
  <1>1. disturbed \subseteq disturbed' /\ OutcomeMoves(r) /\ CallMoves(r)
    BY DEF Moves
  <1>2. calls[r].pc \in {"new", "rag"}
    BY <1>1 DEF CallMoves, Begins, Replies
  <1>3. CASE store'.outcome[r] = store.outcome[r]
    BY <1>1, <1>2, <1>3 DEF EarlyInv, CallsInv
  <1>4. CASE store'.outcome[r] # store.outcome[r]
    <2>1. PICK c \in Convs :
            /\ store.active[c] = r
            /\ store'.outcome[r] = "complete" => Completes(c, r)
            /\ store'.outcome[r] = "abort" /\ calls[r].pc = "rag" => r \in disturbed'
      BY <1>1, <1>4 DEF OutcomeMoves
    <2>2. calls[r].pc = "rag"
      BY <1>2, <2>1, StreamsAssumption DEF CallsInv
    <2> QED
      BY <2>1, <2>2 DEF Completes
  <1> QED
    BY <1>3, <1>4

\* Together: every step keeps what is said of answers.
LEMMA AnswersKept ==
  ASSUME StreamsAssumption, Inv, Inv', AnswersInv, Moves
  PROVE  AnswersInv'
  <1>1. /\ TypeOK /\ QuietInv /\ CallsInv /\ TypeOK' /\ IdsInv'
    BY DEF Inv
  <1>2. RivalsInv /\ HoldingInv /\ CleanInv /\ CopiesInv /\ KeptInv /\ EarlyInv
    BY DEF AnswersInv
  <1>3. RivalsInv' /\ EarlyInv'
    BY <1>1, <1>2, RivalsKept, EarlyKept
  <1>4. HoldingInv' /\ CleanInv'
    BY <1>1, <1>2, HoldingKept, CleanKept
  <1>5. CopiesInv' /\ KeptInv'
    BY <1>1, <1>2, CopiesKept, KeptKept
  <1> QED
    BY <1>3, <1>4, <1>5 DEF AnswersInv

-----------------------------------------------------------------------------
(* Every step is one of these moves. *)

ConvMoves(c) == BuffersMove(c) /\ ListsMove(c) /\ ViewMoves(c) /\ CopiesMove(c) /\ StoredMoves(c)
CallOnly(r) == CallMoves(r) /\ CountMoves(r) /\ OutcomeMoves(r)

\* What a list of c may get.
Fresh(c, m) == Known(c, m) \/ Added(c, m) \/ Amended(c, m)
\* What a copy of it may get besides.
Copied(c, m) ==
  \/ m.id[2] = "user"
  \/ \E old \in Copies(c) : m.id \in IdsOf(old)
  \/ /\ store.active[c] # None /\ calls[store.active[c]].pc # "rag"
     /\ store'.outcome[store.active[c]] = "complete"
     /\ store.msgs[c] # <<>> /\ m.id = Last(store.msgs[c]).id
\* No load brings anything but what was stored.
LoadsOld == /\ \A c \in Convs : loads'[c] \subseteq loads[c] \cup {stored[c]}
            /\ booting' \subseteq booting

\* A load brings what a load or the database has.
LEMMA ListsFrom ==
  ASSUME NEW c \in Convs, LoadsOld,
         \A i \in DOMAIN store'.msgs[c] : Fresh(c, store'.msgs[c][i]),
         \A i \in DOMAIN stored'[c] : Fresh(c, stored'[c][i]) /\ Copied(c, stored'[c][i])
  PROVE  ListsMove(c) /\ CopiesMove(c)
  <1>1. \A ms \in Copies(c)' : ms = stored'[c] \/ ms \in Copies(c)
    BY DEF LoadsOld, Copies
  <1>2. \A ms \in Sources(c)' : ms = store'.msgs[c] \/ ms \in Copies(c)'
    BY DEF Sources, Copies
  <1>3. \A ms \in Copies(c) : \A i \in DOMAIN ms : Known(c, ms[i]) /\ ms[i].id \in IdsOf(ms)
    BY DEF Copies, Sources, Known, Holds, IdsOf
  <1>4. ListsMove(c)
    BY <1>1, <1>2, <1>3 DEF ListsMove, Fresh
  <1>5. CopiesMove(c)
    BY <1>1, <1>3 DEF CopiesMove, Copied
  <1> QED
    BY <1>4, <1>5

\* What a list of c had it may have.
LEMMA ListedKnown ==
  ASSUME NEW c \in Convs
  PROVE  /\ \A i \in DOMAIN store.msgs[c] : Fresh(c, store.msgs[c][i])
         /\ \A ms \in Copies(c) : \A i \in DOMAIN ms : Fresh(c, ms[i]) /\ Copied(c, ms[i])
         /\ stored[c] \in Copies(c)
  BY DEF Fresh, Copied, Known, Holds, Sources, Copies, IdsOf

\* A conversation that a step does not touch.
LEMMA Untouched ==
  ASSUME NEW c \in Convs, LoadsOld, store'.msgs[c] = store.msgs[c], Rests(c) \/ Flushes(c),
         stored'[c] = stored[c], open' \subseteq open
  PROVE  ConvMoves(c)
  <1>1. ListsMove(c) /\ CopiesMove(c)
    BY ListedKnown, ListsFrom
  <1> QED
    BY <1>1 DEF ConvMoves, BuffersMove, ViewMoves, StoredMoves

\* A call that a step leaves where it is.
LEMMA CallStays ==
  ASSUME NEW r \in Requests, calls'[r] = calls[r], sent'[r] = sent[r],
         store'.outcome[r] = store.outcome[r]
  PROVE  CallOnly(r)
  BY DEF CallOnly, CallMoves, CountMoves, OutcomeMoves

LEMMA MovesFrom ==
  ASSUME disturbed \subseteq disturbed', edits > 0 => edits' > 0,
         \A r \in Requests : CallOnly(r), \A c \in Convs : ConvMoves(c)
  PROVE  Moves
  BY DEF Moves, CallOnly, ConvMoves

\* The views and the calls alone.
LEMMA IdleMoves ==
  ASSUME TypeOK, store' = store, stored' = stored, open' = open, LoadsOld,
         disturbed' = disturbed, edits' = edits, sent' = sent,
         \A r \in Requests : \/ calls'[r] = calls[r]
                             \/ /\ calls[r].pc = "chat" /\ calls'[r].pc = "done"
                                /\ calls'[r].conv = calls[r].conv
  PROVE  Moves
  <1>1. \A c \in Convs : ConvMoves(c)
    BY Untouched DEF Rests
  <1>2. \A r \in Requests : CallOnly(r)
    BY DEF CallOnly, CallMoves, CountMoves, OutcomeMoves
  <1> QED
    BY <1>1, <1>2, MovesFrom

LEMMA StartSendMoves ==
  ASSUME StreamsAssumption, TypeOK, NEW r \in Requests, NEW edit, NEW drop,
         StartSend(r, edit, drop), edits > 0 => edits' > 0
  PROVE  Moves
  <1>1. PICK c \in Convs : c = current
    BY DEF StartSend, TypeOK
  <1>2. /\ store'.msgs = store.msgs /\ store'.live = store.live /\ store'.batch = store.batch
        /\ store'.outcome = store.outcome /\ store'.active = [store.active EXCEPT ![c] = r]
    BY <1>1, SendEffect DEF StartSend
  <1>3. /\ UNCHANGED <<open, sent, stored, loads, booting>>
        /\ calls[r].pc = "new" /\ calls \in [Requests -> Sends]
        /\ store.active \in [Convs -> Requests \cup {None}]
        /\ calls' = [calls EXCEPT ![r] = [pc |-> "rag", conv |-> c, edit |-> edit, drop |-> drop]]
        /\ disturbed \subseteq disturbed'
    BY <1>1, StoreTyped DEF StartSend, TypeOK
  <1>4. Rivals(c) # {} => Rivals(c) \cup {r} \subseteq disturbed'
    BY <1>1 DEF StartSend
  <1>5. calls'[r].pc = "rag" /\ calls'[r].conv = c
    BY <1>3
  <1>6. Begins(c, r)
    BY <1>2, <1>3, <1>4, <1>5 DEF Begins
  <1>7. LoadsOld
    BY <1>3 DEF LoadsOld
  <1>8. ASSUME NEW d \in Convs
        PROVE  ConvMoves(d)
    <2>1. CASE d = c
      <3>1. ListsMove(c) /\ CopiesMove(c)
        BY <1>2, <1>3, <1>7, ListedKnown, ListsFrom
      <3> QED
        BY <1>2, <1>3, <1>6, <2>1, <3>1 DEF ConvMoves, BuffersMove, ViewMoves, StoredMoves
    <2>2. CASE d # c
      BY <1>2, <1>3, <1>7, <2>2, Untouched DEF Rests
    <2> QED
      BY <2>1, <2>2
  <1>9. ASSUME NEW q \in Requests
        PROVE  CallOnly(q)
    <2>1. CASE q = r
      BY <1>2, <1>3, <1>6, <2>1 DEF CallOnly, CallMoves, CountMoves, OutcomeMoves
    <2>2. CASE q # r
      BY <1>2, <1>3, <2>2, CallStays
    <2> QED
      BY <2>1, <2>2
  <1> QED
    BY <1>3, <1>8, <1>9, MovesFrom

LEMMA FrameMoves ==
  ASSUME TypeOK, AnimationFrame
  PROVE  Moves
  <1>1. /\ store'.msgs = store.msgs /\ store'.live = [c \in Convs |-> Flushed(store, c)]
        /\ store'.active = store.active /\ store'.batch = [c \in Convs |-> NoBatch]
        /\ store'.outcome = store.outcome
    BY FlushEffect, StoreTyped DEF AnimationFrame
  <1>2. UNCHANGED <<open, calls, sent, stored, loads, booting, disturbed, edits>>
    BY DEF AnimationFrame, counts
  <1>3. LoadsOld
    BY <1>2 DEF LoadsOld
  <1>4. \A c \in Convs : Flushes(c)
    BY <1>1 DEF Flushes
  <1>5. \A c \in Convs : ConvMoves(c)
    BY <1>1, <1>2, <1>3, <1>4, Untouched
  <1>6. \A r \in Requests : CallOnly(r)
    BY <1>1, <1>2, CallStays
  <1> QED
    BY <1>2, <1>5, <1>6, MovesFrom

LEMMA TokenMoves ==
  ASSUME StreamsAssumption, TypeOK, QuietInv, CallsInv, NEW r \in Requests, Token(r)
  PROVE  Moves
  <1>1. /\ UNCHANGED <<open, calls, stored, loads, booting, disturbed, edits>>
        /\ backend[r] = "running" /\ sent' = [sent EXCEPT ![r] = @ + 1]
        /\ sent \in [Requests -> 0 .. MaxTokens] /\ sent[r] < MaxTokens
    BY DEF Token, counts, TypeOK
  <1>2. LoadsOld
    BY <1>1 DEF LoadsOld
  <1>3. sent'[r] = sent[r] + 1 /\ \A q \in Requests : q # r => sent'[q] = sent[q]
    BY <1>1
  <1>4. CASE Streaming(r) = {}
    <2>1. store' = store
      BY <1>4 DEF Token
    <2>2. \A c \in Convs : store.active[c] # r
      BY <1>4 DEF Streaming
    <2>3. CallOnly(r)
      BY <1>1, <1>3, <2>1, <2>2 DEF CallOnly, CallMoves, CountMoves, OutcomeMoves
    <2>4. \A q \in Requests : CallOnly(q)
      BY <1>1, <1>3, <2>1, <2>3, CallStays
    <2>5. \A c \in Convs : ConvMoves(c)
      BY <1>1, <1>2, <2>1, Untouched DEF Rests
    <2> QED
      BY <1>1, <2>4, <2>5, MovesFrom
  <1>5. CASE Streaming(r) # {}
    <2>1. PICK c \in Convs : c = ConvOf(r) /\ store.active[c] = r
      BY <1>5, ConvOfStreams
    <2>2. PICK token : token = <<<<r, sent[r] + 1>>>>
      OBVIOUS
    <2>3. token \in Seq(Chunks)
      <3>1. <<r, sent[r] + 1>> \in Chunks
        BY <1>1, StreamsAssumption DEF Chunks, Reqs
      <3> QED
        BY <2>2, <3>1
    <2>4. /\ store'.msgs = store.msgs /\ store'.live = store.live /\ store'.active = store.active
          /\ store'.outcome = store.outcome
          /\ store'.batch = [store.batch EXCEPT
               ![c] = [req |-> IF store.batch[c].req = None THEN r ELSE store.batch[c].req,
                       text |-> IF store.batch[c].req = None THEN token
                                ELSE store.batch[c].text \o token]]
      <3>1. store \in Stores
        BY StoreTyped
      <3>2. store' = BufferToken(store, c, r, token)
        BY <1>5, <2>1, <2>2 DEF Token
      <3> QED
        BY <2>3, <3>1, <3>2, BufferEffect
    <2>5. store.batch \in [Convs -> [req : Requests \cup {None}, text : Seq(Chunks)]]
      BY StoreTyped
    <2>6. store'.batch[c].text = store.batch[c].text \o token
      <3>1. CASE store.batch[c].req = None
        <4>1. store.batch[c].text = <<>>
          BY <3>1 DEF QuietInv
        <4>2. store'.batch[c].text = token
          BY <2>4, <2>5, <3>1
        <4> QED
          BY <2>3, <4>1, <4>2, ConcatEmptySeq
      <3>2. CASE store.batch[c].req # None
        BY <2>4, <2>5, <3>2
      <3> QED
        BY <3>1, <3>2
    <2>7. store'.batch[c].req = IF store.batch[c].req = None THEN r ELSE store.batch[c].req
      BY <2>4, <2>5
    <2>8. Hears(c, r)
      BY <1>1, <1>3, <2>1, <2>2, <2>4, <2>6, <2>7 DEF Hears
    <2>9. \A d \in Convs : store.active[d] = r => d = c
      BY <2>1, StreamsAssumption DEF CallsInv
    <2>10. CallOnly(r)
      BY <1>1, <1>3, <2>4, <2>8, <2>9 DEF CallOnly, CallMoves, CountMoves, OutcomeMoves
    <2>11. \A q \in Requests : CallOnly(q)
      BY <1>1, <1>3, <2>4, <2>10, CallStays
    <2>12. ASSUME NEW d \in Convs
           PROVE  ConvMoves(d)
      <3>1. CASE d = c
        <4>1. ListsMove(c) /\ CopiesMove(c)
          BY <1>1, <1>2, <2>4, ListedKnown, ListsFrom
        <4> QED
          BY <1>1, <2>4, <2>8, <3>1, <4>1 DEF ConvMoves, BuffersMove, ViewMoves, StoredMoves
      <3>2. CASE d # c
        <4>1. Rests(d)
          BY <2>4, <2>5, <3>2 DEF Rests
        <4> QED
          BY <1>1, <1>2, <2>4, <4>1, Untouched
      <3> QED
        BY <3>1, <3>2
    <2> QED
      BY <1>1, <2>11, <2>12, MovesFrom
  <1> QED
    BY <1>4, <1>5

\* The lists of c that get messages of a user, or lose some.
LEMMA SavedFresh ==
  ASSUME NEW c \in Convs, NEW ms \in Seq(Messages), NEW m \in Messages, NEW id, Distinct(ms),
         ms = stored[c], m.id[2] = "user", m.text = <<>>
  PROVE  /\ \A i \in DOMAIN Without(Saved(ms, m), id) :
              Fresh(c, Without(Saved(ms, m), id)[i]) /\ Copied(c, Without(Saved(ms, m), id)[i])
         /\ id \notin IdsOf(ms) \cup {m.id} =>
              IdsOf(ms) \subseteq IdsOf(Without(Saved(ms, m), id))
  <1>1. PICK mid, out : mid = Saved(ms, m) /\ out = Without(mid, id)
    OBVIOUS
  <1>2. /\ mid \in Seq(Messages) /\ Distinct(mid) /\ IdsOf(mid) = IdsOf(ms) \cup {m.id}
        /\ \A i \in DOMAIN mid : mid[i] = m \/ \E j \in DOMAIN ms : mid[i] = ms[j]
    BY <1>1, SavedKeeps
  <1>3. \A i \in DOMAIN out : \E j \in DOMAIN mid : out[i] = mid[j]
    BY <1>1, <1>2, WithoutKeeps
  <1>4. Fresh(c, m) /\ Copied(c, m)
    BY DEF Fresh, Added, Copied
  <1>5. \A j \in DOMAIN ms : Fresh(c, ms[j]) /\ Copied(c, ms[j])
    BY ListedKnown
  <1>6. \A i \in DOMAIN out : Fresh(c, out[i]) /\ Copied(c, out[i])
    BY <1>2, <1>3, <1>4, <1>5
  <1>7. id \notin IdsOf(mid) => out = mid
    BY <1>1 DEF Without
  <1> QED
    BY <1>1, <1>2, <1>6, <1>7

LEMMA RagRepliesMoves ==
  ASSUME StreamsAssumption, TypeOK, CallsInv, NEW r \in Requests, RagReplies(r)
  PROVE  Moves
  <1>1. PICK c, e, d : c = calls[r].conv /\ e = calls[r].edit /\ d = calls[r].drop
    OBVIOUS
  <1>2. PICK new, save :
          /\ new = IF e = None THEN <<Message(User(r)), Message(Assistant(r))>>
                   ELSE <<Message(Assistant(r))>>
          /\ save = Message(IF e = None THEN User(r) ELSE e)
    OBVIOUS
  <1>3. /\ calls[r].pc = "rag" /\ calls' = [calls EXCEPT ![r].pc = "chat"]
        /\ store' = AddMessages(RemoveMessage(store, c, d), c, new)
        /\ stored' = IF c \in open THEN [stored EXCEPT ![c] = Without(Saved(stored[c], save), d)]
                     ELSE stored
        /\ UNCHANGED <<open, sent, loads, booting, disturbed, edits>>
    BY <1>1, <1>2 DEF RagReplies, counts
  <1>4. /\ c \in Convs /\ e \in (Reqs \X {"user"}) \cup {None}
        /\ d \in (Reqs \X {"assistant"}) \cup {None}
    BY <1>1, <1>3 DEF CallsInv, TypeOK, Sends
  <1>5. new \in Seq(Messages) /\ save \in Messages
    BY <1>2, <1>4, NewMessages
  <1>6. /\ store \in Stores /\ store.msgs \in [Convs -> Seq(Messages)]
        /\ stored \in [Convs -> Seq(Messages)] /\ calls \in [Requests -> Sends]
        /\ store.msgs[c] \in Seq(Messages) /\ stored[c] \in Seq(Messages)
        /\ Distinct(store.msgs[c]) /\ Distinct(stored[c])
    BY <1>4, StoreTyped DEF TypeOK
  <1>7. /\ store'.live = store.live /\ store'.active = store.active
        /\ store'.batch = store.batch /\ store'.outcome = store.outcome
        /\ store'.msgs = [store.msgs EXCEPT ![c] = Without(store.msgs[c], d) \o new]
    <2>1. store \in Stores /\ Distinct(store.msgs[c]) /\ c \in Convs /\ new \in Seq(Messages)
      BY <1>4, <1>5, <1>6
    <2>2. PICK s, t : s = store /\ t = store'
      OBVIOUS
    <2>3. /\ s \in Stores /\ Distinct(s.msgs[c]) /\ c \in Convs /\ new \in Seq(Messages)
          /\ t = AddMessages(RemoveMessage(s, c, d), c, new)
      BY <1>3, <2>1, <2>2
    <2>4. /\ t.live = s.live /\ t.active = s.active /\ t.batch = s.batch /\ t.outcome = s.outcome
          /\ t.msgs = [s.msgs EXCEPT ![c] = Without(s.msgs[c], d) \o new]
      BY <2>3, AppendedEffect
    <2> QED
      BY <2>2, <2>4
  <1>8. PICK kept, msgs : kept = Without(store.msgs[c], d) /\ msgs = kept \o new
    OBVIOUS
  <1>9. store'.msgs[c] = msgs /\ \A x \in Convs : x # c => store'.msgs[x] = store.msgs[x]
    <2>1. store'.msgs = [store.msgs EXCEPT ![c] = msgs]
      BY <1>7, <1>8
    <2> QED
      BY <1>4, <1>6, <2>1
  <1>10. /\ kept \in Seq(Messages)
         /\ \A i \in DOMAIN kept : \E j \in DOMAIN store.msgs[c] : kept[i] = store.msgs[c][j]
    BY <1>6, <1>8, WithoutKeeps
  <1>11. new # <<>> /\ new[Len(new)] = Message(Assistant(r)) /\ Len(new) \in DOMAIN new
    BY <1>2
  <1>12. msgs # <<>> /\ Last(msgs) = Message(Assistant(r))
    <2>1. msgs \in Seq(Messages) /\ Len(msgs) = Len(kept) + Len(new)
      BY <1>5, <1>8, <1>10
    <2>2. msgs[Len(kept) + Len(new)] = new[Len(new)] /\ Len(kept) + Len(new) > 0
      BY <1>5, <1>8, <1>10, <1>11
    <2> QED
      BY <1>11, <2>1, <2>2 DEF Last
  <1>13. /\ calls'[r].pc = "chat" /\ calls'[r].conv = c
         /\ \A q \in Requests : q # r => calls'[q] = calls[q]
    <2>1. calls[r] \in Sends
      BY <1>6
    <2> QED
      BY <1>1, <1>3, <1>6, <2>1 DEF Sends
  <1>14. \A x \in Convs : Rests(x)
    BY <1>7 DEF Rests
  <1>15. Replies(r)
    BY <1>1, <1>3, <1>4, <1>7, <1>9, <1>12, <1>13, <1>14 DEF Replies
  <1>16. \A i \in DOMAIN msgs : Fresh(c, msgs[i])
    <2>1. \A i \in DOMAIN new : new[i] = Message(User(r)) \/ new[i] = Message(Assistant(r))
      BY <1>2
    <2>2. Fresh(c, Message(User(r))) /\ Fresh(c, Message(Assistant(r)))
      BY <1>3, <1>15 DEF Fresh, Added, Message, User
    <2>3. \A i \in DOMAIN kept : Fresh(c, kept[i])
      BY <1>4, <1>10, ListedKnown
    <2>4. \A i \in DOMAIN msgs : (\E j \in DOMAIN kept : msgs[i] = kept[j])
                                   \/ \E j \in DOMAIN new : msgs[i] = new[j]
      BY <1>5, <1>8, <1>10
    <2> QED
      BY <2>1, <2>2, <2>3, <2>4
  <1>17. save.id[2] = "user" /\ save.text = <<>> /\ save.id # d
    <2>1. save.id = IF e = None THEN User(r) ELSE e
      BY <1>2 DEF Message
    <2>2. save.text = <<>>
      BY <1>2 DEF Message
    <2>3. save.id[2] = "user"
      BY <1>4, <2>1 DEF User
    <2>4. save.id \in (Requests \cup {Old}) \X {"user", "assistant"}
      BY <1>5 DEF Messages, Reqs
    <2> QED
      BY <1>4, <2>2, <2>3, <2>4, StreamsAssumption
  <1>18. LoadsOld
    BY <1>3 DEF LoadsOld
  <1>19. PICK out : out = Without(Saved(stored[c], save), d)
    OBVIOUS
  <1>20. \A i \in DOMAIN out : Fresh(c, out[i]) /\ Copied(c, out[i])
    BY <1>4, <1>5, <1>6, <1>17, <1>19, SavedFresh
  <1>21. edits' > 0 \/ IdsOf(stored[c]) \subseteq IdsOf(out)
    <2>1. CASE d # None
      BY <1>1, <1>3, <2>1 DEF CallsInv
    <2>2. CASE d = None
      <3>1. IdsOf(stored[c]) \subseteq (Requests \cup {Old}) \X {"user", "assistant"}
        BY <1>6, MessageFields DEF IdsOf, Reqs
      <3>2. d \notin IdsOf(stored[c]) \cup {save.id}
        BY <1>17, <2>2, <3>1, StreamsAssumption
      <3> QED
        BY <1>4, <1>5, <1>6, <1>17, <1>19, <3>2, SavedFresh
    <2> QED
      BY <2>1, <2>2
  <1>22. stored'[c] \in {stored[c], out} /\ \A x \in Convs : x # c => stored'[x] = stored[x]
    BY <1>3, <1>6, <1>19
  <1>23. ASSUME NEW x \in Convs
         PROVE  ConvMoves(x)
    <2>1. CASE x = c
      <3>1. ListsMove(c) /\ CopiesMove(c)
        <4>1. \A i \in DOMAIN store'.msgs[c] : Fresh(c, store'.msgs[c][i])
          BY <1>9, <1>16
        <4>2. \A i \in DOMAIN stored'[c] : Fresh(c, stored'[c][i]) /\ Copied(c, stored'[c][i])
          BY <1>4, <1>20, <1>22, ListedKnown
        <4> QED
          BY <1>4, <1>18, <4>1, <4>2, ListsFrom
      <3>2. StoredMoves(c)
        BY <1>3, <1>21, <1>22 DEF StoredMoves
      <3>3. ViewMoves(c)
        BY <1>1, <1>15 DEF ViewMoves
      <3> QED
        BY <1>4, <1>14, <2>1, <3>1, <3>2, <3>3 DEF ConvMoves, BuffersMove
    <2>2. CASE x # c
      BY <1>3, <1>9, <1>14, <1>18, <1>22, <2>2, Untouched
    <2> QED
      BY <2>1, <2>2
  <1>24. ASSUME NEW q \in Requests
         PROVE  CallOnly(q)
    <2>1. CASE q = r
      BY <1>3, <1>7, <1>15, <2>1 DEF CallOnly, CallMoves, CountMoves, OutcomeMoves
    <2>2. CASE q # r
      BY <1>3, <1>7, <1>13, <2>2, CallStays
    <2> QED
      BY <2>1, <2>2
  <1> QED
    BY <1>3, <1>23, <1>24, MovesFrom

\* A load that arrives.
LEMMA ArrivalMoves ==
  ASSUME StreamsAssumption, TypeOK, CallsInv, NEW c \in Convs, NEW snapshot \in Copies(c),
         SetMessages(c, snapshot), LoadsOld, UNCHANGED <<open, calls, sent, stored, edits>>
  PROVE  Moves
  <1>1. snapshot \in Seq(Messages)
    BY KnownTyped DEF Copies, Sources
  <1>2. /\ store'.live = store.live /\ store'.active = store.active
        /\ store'.batch = store.batch /\ store'.outcome = store.outcome
        /\ \A d \in Convs \ {c} : store'.msgs[d] = store.msgs[d]
        /\ store'.msgs[c] \in {store.msgs[c], snapshot} /\ disturbed \subseteq disturbed'
    BY <1>1, SetMessagesEffect
  <1>3. \A d \in Convs : Rests(d)
    BY <1>2 DEF Rests
  <1>4. ListsMove(c) /\ CopiesMove(c)
    BY <1>2, ListedKnown, ListsFrom
  <1>5. ViewMoves(c)
    <2>1. CASE snapshot = <<>>
      BY <2>1 DEF SetMessages, ViewMoves
    <2>2. CASE store.active[c] = None
      BY <1>2, <2>2 DEF ViewMoves
    <2>3. CASE snapshot # <<>> /\ store.active[c] # None
      <3>1. /\ store' = [store EXCEPT !.msgs[c] = snapshot]
            /\ disturbed' = disturbed \cup Unresolved(c) \cup Owner(snapshot)
        BY <2>3 DEF SetMessages
      <3>2. store'.msgs[c] = snapshot
        BY <3>1, StoreTyped DEF Stores
      <3>3. store.active[c] \in Unresolved(c)
        BY <2>3, StoreTyped DEF CallsInv, Unresolved
      <3> QED
        BY <3>1, <3>2, <3>3 DEF ViewMoves
    <2> QED
      BY <2>1, <2>2, <2>3
  <1>6. \A d \in Convs : ConvMoves(d)
    <2>1. ConvMoves(c)
      BY <1>3, <1>4, <1>5 DEF ConvMoves, BuffersMove, StoredMoves
    <2>2. \A d \in Convs \ {c} : ConvMoves(d)
      BY <1>2, <1>3, Untouched
    <2> QED
      BY <2>1, <2>2
  <1>7. \A r \in Requests : CallOnly(r)
    BY <1>2, CallStays
  <1> QED
    BY <1>2, <1>6, <1>7, MovesFrom

LEMMA LoadRepliesMoves ==
  ASSUME StreamsAssumption, TypeOK, CallsInv, NEW c \in Convs, LoadReplies(c)
  PROVE  Moves
  <1>1. PICK snapshot \in loads[c] \cup {stored[c]} : SetMessages(c, snapshot)
    BY DEF LoadReplies
  <1>2. snapshot \in Copies(c)
    BY <1>1 DEF Copies
  <1>3. UNCHANGED <<open, calls, sent, stored, booting, edits>> /\ loads' = [loads EXCEPT ![c] = {}]
    BY DEF LoadReplies, counts
  <1>4. LoadsOld
    BY <1>3 DEF LoadsOld, TypeOK
  <1> QED
    BY <1>1, <1>2, <1>3, <1>4, ArrivalMoves

LEMMA BootRepliesMoves ==
  ASSUME StreamsAssumption, TypeOK, CallsInv, BootReplies
  PROVE  Moves
  <1>1. PICK b \in booting : \E snapshot \in {b[2], stored[b[1]]} : SetMessages(b[1], snapshot)
    BY DEF BootReplies
  <1>2. PICK c \in Convs : c = b[1]
    BY <1>1 DEF TypeOK
  <1>3. PICK snapshot \in {b[2], stored[c]} : SetMessages(c, snapshot)
    BY <1>1, <1>2
  <1>4. snapshot \in Copies(c)
    BY <1>1, <1>2, <1>3 DEF Copies
  <1>5. UNCHANGED <<open, calls, sent, stored, loads, edits>> /\ booting' = {}
    BY DEF BootReplies, counts
  <1>6. LoadsOld
    BY <1>5 DEF LoadsOld
  <1> QED
    BY <1>3, <1>4, <1>5, <1>6, ArrivalMoves

\* A message that is deleted: who streams there goes on with its answer last,
\* or is disturbed.
LEMMA DeleteMessageMoves ==
  ASSUME StreamsAssumption, TypeOK, CallsInv, CleanInv, NEW id, DeleteMessage(id)
  PROVE  Moves
  <1>1. PICK c \in Convs : c = current
    BY DEF DeleteMessage, TypeOK
  <1>2. PICK left, r : left = RemoveMessage(store, c, id) /\ r = store.active[c]
    OBVIOUS
  <1>3. /\ edits' = edits + 1 /\ store' = left
        /\ stored' = [stored EXCEPT ![c] = Without(stored[c], id)]
        /\ disturbed' = IF /\ r # None /\ (calls[r].pc # "rag" \/ r \in disturbed)
                           /\ ~EndsWith(left.msgs[c], r)
                        THEN disturbed \cup {r} \cup Owner(left.msgs[c]) ELSE disturbed
        /\ UNCHANGED <<open, calls, sent, loads, booting>>
    BY <1>1, <1>2 DEF DeleteMessage
  <1>4. /\ store \in Stores /\ store.msgs \in [Convs -> Seq(Messages)]
        /\ stored \in [Convs -> Seq(Messages)]
        /\ store.msgs[c] \in Seq(Messages) /\ stored[c] \in Seq(Messages)
        /\ Distinct(store.msgs[c]) /\ Distinct(stored[c])
    BY StoreTyped DEF TypeOK
  <1>5. /\ store'.live = store.live /\ store'.active = store.active
        /\ store'.batch = store.batch /\ store'.outcome = store.outcome
        /\ store'.msgs = [store.msgs EXCEPT ![c] = Without(store.msgs[c], id)]
    BY <1>2, <1>3, <1>4, RemovedEffect
  <1>6. \A d \in Convs : Rests(d)
    BY <1>5 DEF Rests
  <1>7. LoadsOld
    BY <1>3 DEF LoadsOld
  <1>8. PICK ms, out : ms = store.msgs[c] /\ out = Without(ms, id)
    OBVIOUS
  <1>9. store'.msgs[c] = out /\ left.msgs[c] = out
    BY <1>3, <1>4, <1>5, <1>8
  <1>10. /\ id \notin IdsOf(out)
         /\ \A i \in DOMAIN out : \E j \in DOMAIN ms : out[i] = ms[j]
         /\ ms # <<>> /\ Last(ms).id # id => out # <<>> /\ Last(out) = Last(ms)
         /\ out \in Seq(Messages)
    BY <1>4, <1>8, WithoutKeeps
  <1>11. \A i \in DOMAIN stored'[c] : \E j \in DOMAIN stored[c] : stored'[c][i] = stored[c][j]
    <2>1. PICK kept : kept = Without(stored[c], id)
      OBVIOUS
    <2>2. \A i \in DOMAIN kept : \E j \in DOMAIN stored[c] : kept[i] = stored[c][j]
      BY <1>4, <2>1, WithoutKeeps
    <2> QED
      BY <1>3, <1>4, <2>1, <2>2
  <1>12. ListsMove(c) /\ CopiesMove(c)
    <2>1. \A i \in DOMAIN store'.msgs[c] : Fresh(c, store'.msgs[c][i])
      BY <1>8, <1>9, <1>10, ListedKnown
    <2>2. \A i \in DOMAIN stored'[c] : Fresh(c, stored'[c][i]) /\ Copied(c, stored'[c][i])
      BY <1>11, ListedKnown
    <2> QED
      BY <1>7, <2>1, <2>2, ListsFrom
  <1>13. ViewMoves(c)
    <2>1. CASE r = None
      BY <1>2, <1>5, <2>1 DEF ViewMoves
    <2>2. CASE r # None /\ calls[r].pc = "rag" /\ r \notin disturbed
      BY <1>2, <1>3, <2>2, StoreTyped DEF ViewMoves
    <2>3. CASE r # None /\ (calls[r].pc # "rag" \/ r \in disturbed) /\ ~EndsWith(out, r)
      BY <1>2, <1>3, <1>9, <2>3 DEF ViewMoves
    <2>4. CASE r # None /\ (calls[r].pc # "rag" \/ r \in disturbed) /\ EndsWith(out, r)
      <3>1. Owner(out) = {r}
        BY <2>4 DEF EndsWith, Owner, Assistant
      <3>2. CASE r \in disturbed
        BY <1>2, <1>3, <1>9, <2>4, <3>1, <3>2 DEF ViewMoves
      <3>3. CASE r \notin disturbed
        <4>1. EndsWith(ms, r)
          BY <1>2, <1>8, <2>4, <3>3 DEF CleanInv, Clean
        <4>2. Last(out).id \in IdsOf(out)
          BY <1>10, <2>4 DEF EndsWith, IdsOf, Last
        <4>3. Last(out) = Last(ms)
          BY <1>10, <2>4, <4>1, <4>2 DEF EndsWith
        <4> QED
          BY <1>2, <1>8, <1>9, <2>4, <4>1, <4>3 DEF ViewMoves
      <3> QED
        BY <3>2, <3>3
    <2> QED
      BY <2>1, <2>2, <2>3, <2>4
  <1>14. edits' > 0 /\ disturbed \subseteq disturbed'
    BY <1>3 DEF TypeOK
  <1>15. \A d \in Convs : ConvMoves(d)
    <2>1. ConvMoves(c)
      BY <1>3, <1>6, <1>12, <1>13, <1>14 DEF ConvMoves, BuffersMove, StoredMoves
    <2>2. \A d \in Convs : d # c => store'.msgs[d] = store.msgs[d] /\ stored'[d] = stored[d]
      BY <1>3, <1>4, <1>5
    <2>3. \A d \in Convs : d # c => ConvMoves(d)
      BY <1>3, <1>6, <1>7, <2>2, Untouched
    <2> QED
      BY <2>1, <2>3
  <1>16. \A q \in Requests : CallOnly(q)
    BY <1>3, <1>5, CallStays
  <1> QED
    BY <1>14, <1>15, <1>16, MovesFrom

\* A list of which only the last message is another.
LEMMA LastFresh ==
  ASSUME NEW c \in Convs, NEW ms, ms = store.msgs[c], NEW out \in Seq(Messages),
         DOMAIN out = DOMAIN ms, Len(out) = Len(ms),
         \A i \in DOMAIN ms : i # Len(ms) => out[i] = ms[i],
         ms # <<>> => Fresh(c, Last(out))
  PROVE  \A i \in DOMAIN out : Fresh(c, out[i])
  <1> SUFFICES ASSUME NEW i \in DOMAIN out
               PROVE  Fresh(c, out[i])
    OBVIOUS
  <1>1. CASE i # Len(ms)
    BY <1>1, ListedKnown
  <1>2. CASE i = Len(ms)
    <2>1. out[i] = Last(out)
      BY <1>2 DEF Last
    <2>2. ms # <<>>
      OBVIOUS
    <2> QED
      BY <2>1, <2>2
  <1> QED
    BY <1>1, <1>2

\* The lists of a conversation whose stream is stopped.
LEMMA StoppedLists ==
  ASSUME StreamsAssumption, TypeOK, QuietInv, LoadsOld, NEW c \in Convs, store.active[c] # None,
         Ends(c), NEW reason \in {"abort", "error"},
         store'.msgs[c] = UpdatedLast(store.msgs[c], Flushed(store, c), StoppedMarker(reason),
                                      store.metrics[c]),
         store'.outcome[store.active[c]] = reason, stored'[c] = stored[c],
         \/ reason = "error"
         \/ calls[store.active[c]].pc = "rag" => Owner(store.msgs[c]) \subseteq disturbed'
  PROVE  ListsMove(c) /\ CopiesMove(c)
  <1>1. PICK ms, out, f, none, mark :
          /\ ms = store.msgs[c] /\ out = store'.msgs[c] /\ f = Flushed(store, c)
          /\ none = store.metrics[c] /\ mark = StoppedMarker(reason)
    OBVIOUS
  <1>2. ms \in Seq(Messages) /\ f \in Seq(Chunks) /\ none = None
    BY <1>1, StoreTyped, FlushedTyped DEF QuietInv
  <1>3. mark \in {"keep", "set", "clear"} /\ (reason = "error" => mark = "keep")
    BY <1>1 DEF StoppedMarker
  <1>4. out = UpdatedLast(ms, f, mark, none)
    BY <1>1
  <1>5. Updated(ms, out, f, mark, none)
    BY <1>2, <1>3, <1>4, UpdatedLastEffect
  <1>6. ASSUME ms # <<>>
        PROVE  Fresh(c, Last(out))
    <2>1. Last(out).id = Last(ms).id /\ Last(out).text = Last(ms).text \o f
      BY <1>5, <1>6 DEF Updated
    <2>2. Last(ms).text \in Seq(Chunks)
      BY <1>2, <1>6, MessageFields DEF Last
    <2>3. Last(out).text = (Last(ms).text \o f) \o <<>> /\ <<>> \in Tails
      BY <1>2, <2>1, <2>2, ConcatEmptySeq, ConcatProperties DEF Tails
    <2>4. CASE calls[store.active[c]].pc = "rag" /\ Empty(c) /\ reason = "error"
      <3>1. f = <<>>
        BY <1>1, <2>4 DEF Empty, Flushed, NoBatch
      <3>2. out = ms
        BY <1>2, <1>3, <1>4, <2>4, <3>1, UpdatedLastSame
      <3> QED
        BY <1>1, <1>2, <1>6, <3>2, ListedKnown DEF Last
    <2>5. CASE ~(calls[store.active[c]].pc = "rag" /\ Empty(c) /\ reason = "error")
      <3>1. store'.outcome[store.active[c]] # "complete"
        OBVIOUS
      <3>2. calls[store.active[c]].pc = "rag" /\ Empty(c) => Owner(ms) \subseteq disturbed'
        BY <1>1, <2>5
      <3>3. Amended(c, Last(out))
        BY <1>1, <1>6, <2>1, <2>3, <3>1, <3>2 DEF Amended
      <3> QED
        BY <3>3 DEF Fresh
    <2> QED
      BY <2>4, <2>5
  <1>7. \A i \in DOMAIN out : Fresh(c, out[i])
    BY <1>1, <1>5, <1>6, LastFresh DEF Updated
  <1> QED
    BY <1>1, <1>7, ListedKnown, ListsFrom

\* The stop of the streams of S.
LEMMA StopMoves ==
  ASSUME StreamsAssumption, TypeOK, NEW S \in SUBSET Convs,
         NEW reason \in {"complete", "abort", "error"}, Stopped(store, store', S, reason),
         LoadsOld, disturbed \subseteq disturbed', edits' = edits, open' \subseteq open,
         sent' = sent, \A r \in Requests : CallMoves(r),
         \A c \in Convs \ S : store'.msgs[c] = store.msgs[c] /\ stored'[c] = stored[c],
         \A c \in S : ListsMove(c) /\ CopiesMove(c) /\ StoredMoves(c),
         \A c \in S : \A r \in Requests : store.active[c] = r =>
           /\ reason = "complete" => Completes(c, r)
           /\ reason = "abort" /\ calls[r].pc = "rag" => r \in disturbed'
  PROVE  Moves
  <1>1. ASSUME NEW c \in S
        PROVE  ConvMoves(c) /\ Ends(c)
    <2>1. Ends(c)
      BY <1>1 DEF Stopped, Ends
    <2>2. ViewMoves(c)
      BY <2>1 DEF ViewMoves, Ends
    <2> QED
      BY <1>1, <2>1, <2>2 DEF ConvMoves, BuffersMove
  <1>2. ASSUME NEW c \in Convs \ S
        PROVE  ConvMoves(c)
    <2>1. Flushes(c)
      BY <1>2 DEF Stopped, Flushes
    <2> QED
      BY <1>2, <2>1, Untouched
  <1>3. ASSUME NEW r \in Requests
        PROVE  CallOnly(r)
    <2>1. store'.outcome[r] = IF \E c \in S : store.active[c] = r THEN reason
                              ELSE store.outcome[r]
      BY DEF Stopped
    <2>2. OutcomeMoves(r)
      BY <1>1, <2>1 DEF OutcomeMoves
    <2> QED
      BY <1>3, <2>2 DEF CallOnly, CountMoves
  <1> QED
    BY <1>1, <1>2, <1>3, MovesFrom

\* A stop or an error that leaves the database alone.
LEMMA InterruptMoves ==
  ASSUME StreamsAssumption, TypeOK, QuietInv, NEW C \in SUBSET Convs,
         NEW reason \in {"abort", "error"}, store' = Stop(store, C, reason),
         UNCHANGED <<open, calls, sent, stored, loads, booting, edits>>,
         disturbed \subseteq disturbed', reason = "abort" => TooEarly(C) \subseteq disturbed'
  PROVE  Moves
  <1> DEFINE S == Streamers(store, C)
  <1>1. LoadsOld
    BY DEF LoadsOld
  <1>2. CASE S = {}
    <2>1. store' = store
      BY <1>2, StopNothing
    <2>2. \A c \in Convs : ConvMoves(c)
      BY <1>1, <2>1, Untouched DEF Rests
    <2>3. \A r \in Requests : CallOnly(r)
      BY <2>1, CallStays
    <2> QED
      BY <2>2, <2>3, MovesFrom
  <1>3. CASE S # {}
    <2>1. PICK why \in {"complete", "abort", "error"} : why = reason
      OBVIOUS
    <2>2. Stopped(store, store', S, reason) /\ Marked(store, store', S, reason)
      <3>1. store' = Stop(store, C, why) /\ store \in Stores
        BY <2>1, StoreTyped
      <3>2. Stopped(store, store', S, why) /\ Marked(store, store', S, why)
        BY <1>3, <3>1, StopEffect
      <3> QED
        BY <2>1, <3>2
    <2>3. S \in SUBSET Convs /\ \A c \in S : c \in C /\ store.active[c] # None
      BY DEF Streamers
    <2> HIDE DEF S
    <2>4. \A c \in Convs \ S : store'.msgs[c] = store.msgs[c]
      BY <2>2 DEF Marked
    <2>5. \A c \in S : store.active[c] \in Requests
      BY <2>3, StoreTyped
    <2>6. \A c \in S : reason = "abort" /\ calls[store.active[c]].pc = "rag" =>
            {store.active[c]} \cup Owner(store.msgs[c]) \subseteq disturbed'
      BY <2>3, <2>5 DEF TooEarly
    <2>7. ASSUME NEW c \in S
          PROVE  ListsMove(c) /\ CopiesMove(c) /\ StoredMoves(c)
      <3>1. Ends(c) /\ store'.outcome[store.active[c]] = reason
        BY <2>2, <2>3, <2>5, <2>7 DEF Stopped, Ends
      <3>2. store'.msgs[c] = UpdatedLast(store.msgs[c], Flushed(store, c), StoppedMarker(reason),
                                         store.metrics[c])
        BY <2>2, <2>3, <2>7 DEF Marked
      <3>3. \/ reason = "error"
            \/ calls[store.active[c]].pc = "rag" => Owner(store.msgs[c]) \subseteq disturbed'
        BY <2>6, <2>7
      <3>4. ListsMove(c) /\ CopiesMove(c)
        BY <1>1, <2>3, <2>7, <3>1, <3>2, <3>3, StoppedLists
      <3> QED
        BY <3>4 DEF StoredMoves
    <2>8. \A r \in Requests : CallMoves(r)
      BY DEF CallMoves
    <2>9. \A c \in S : \A r \in Requests : store.active[c] = r =>
            /\ why = "complete" => Completes(c, r)
            /\ why = "abort" /\ calls[r].pc = "rag" => r \in disturbed'
      BY <2>1, <2>6
    <2> QED
      BY <1>1, <2>1, <2>2, <2>3, <2>4, <2>7, <2>8, <2>9, StopMoves
  <1> QED
    BY <1>2, <1>3

LEMMA AbortMoves ==
  ASSUME StreamsAssumption, TypeOK, QuietInv, Abort
  PROVE  Moves
  <1>1. PICK C \in SUBSET Convs, reason \in {"abort", "error"} : C = {current} /\ reason = "abort"
    BY DEF Abort, TypeOK
  <1>2. store' = Stop(store, C, reason) /\ disturbed' = disturbed \cup TooEarly(C)
    BY <1>1 DEF Abort, StopStream
  <1>3. UNCHANGED <<open, calls, sent, stored, loads, booting, edits>>
    BY DEF Abort, counts
  <1> QED
    BY <1>2, <1>3, InterruptMoves

LEMMA LeavePageMoves ==
  ASSUME StreamsAssumption, TypeOK, QuietInv, LeavePage
  PROVE  Moves
  <1>1. PICK C \in SUBSET Convs, reason \in {"abort", "error"} : C = Convs /\ reason = "abort"
    OBVIOUS
  <1>2. store' = Stop(store, C, reason) /\ disturbed' = disturbed \cup TooEarly(C)
    BY <1>1 DEF LeavePage
  <1>3. UNCHANGED <<open, calls, sent, stored, loads, booting, edits>>
    BY DEF LeavePage
  <1> QED
    BY <1>2, <1>3, InterruptMoves

LEMMA ErrorEventMoves ==
  ASSUME StreamsAssumption, TypeOK, QuietInv, NEW r \in Requests, ErrorEvent(r)
  PROVE  Moves
  <1>1. UNCHANGED <<open, calls, sent, stored, loads, booting, edits, disturbed>>
    BY DEF ErrorEvent, counts
  <1>2. PICK reason \in {"abort", "error"} : reason = "error"
    OBVIOUS
  <1>3. \E C \in SUBSET Convs : store' = Stop(store, C, reason)
    <2>1. CASE Streaming(r) = {}
      BY <1>2, <2>1 DEF ErrorEvent, AfterError
    <2>2. CASE Streaming(r) # {}
      <3>1. ConvOf(r) \in Convs /\ store.active[ConvOf(r)] = r
        BY <2>2, ConvOfStreams
      <3>2. store' = Stop(store, {ConvOf(r)}, reason)
        BY <1>2, <2>2, <3>1 DEF ErrorEvent, AfterError, StopStream
      <3> QED
        BY <3>1, <3>2
    <2> QED
      BY <2>1, <2>2
  <1> QED
    BY <1>1, <1>2, <1>3, InterruptMoves

\* Conversations that are deleted, with their streams.
LEMMA RemoveMoves ==
  ASSUME StreamsAssumption, TypeOK, QuietInv, CallsInv, NEW C \in SUBSET Convs,
         NEW reason \in {"complete", "abort", "error"}, reason = "abort",
         NEW stopped, stopped = Stop(store, C, reason), Remove(C, stopped)
  PROVE  Moves
  <1> DEFINE S == Streamers(store, C)
  <1>1. /\ store' = [stopped EXCEPT !.msgs = [c \in Convs |-> IF c \in C THEN <<>> ELSE @[c]]]
        /\ open' = open \ C
        /\ stored' = [c \in Convs |-> IF c \in C THEN <<>> ELSE stored[c]]
        /\ loads' = IF current \in C THEN [c \in Convs |-> {}] ELSE loads
        /\ disturbed' = disturbed \cup {r \in Requests : calls[r].conv \in C /\ calls[r].pc = "rag"}
        /\ UNCHANGED <<calls, sent, booting, edits>>
    BY DEF Remove
  <1>2. LoadsOld
    BY <1>1 DEF LoadsOld
  <1>3. store \in Stores
    BY StoreTyped
  <1>4. S \in SUBSET Convs /\ \A c \in Convs : c \in S <=> c \in C /\ store.active[c] # None
    BY DEF Streamers
  <1>5. \/ S = {} /\ stopped = store
        \/ Stopped(store, stopped, S, reason) /\ Marked(store, stopped, S, reason)
    BY <1>3, StopNothing, StopEffect
  <1> HIDE DEF S
  <1>6. stopped \in Stores
    BY <1>3, <1>5 DEF Stopped
  <1>7. /\ store'.live = stopped.live /\ store'.active = stopped.active
        /\ store'.batch = stopped.batch /\ store'.outcome = stopped.outcome
        /\ \A c \in Convs : store'.msgs[c] = IF c \in C THEN <<>> ELSE stopped.msgs[c]
    BY <1>1, <1>6, ClearedEffect
  <1>8. \A c \in Convs :
          /\ c \in S => Ends(c)
          /\ c \notin S => Rests(c) \/ Flushes(c)
          /\ c \notin C => store'.msgs[c] = store.msgs[c]
    <2>1. CASE S = {} /\ stopped = store
      BY <1>7, <2>1 DEF Rests
    <2>2. CASE Stopped(store, stopped, S, reason) /\ Marked(store, stopped, S, reason)
      BY <1>4, <1>7, <2>2 DEF Stopped, Marked, Ends, Flushes
    <2> QED
      BY <1>5, <2>1, <2>2
  <1>9. ASSUME NEW r \in Requests
        PROVE  CallOnly(r)
    <2>1. store'.outcome[r] # store.outcome[r] =>
            store'.outcome[r] = reason /\ \E c \in S : store.active[c] = r
      <3>1. CASE S = {} /\ stopped = store
        BY <1>7, <3>1
      <3>2. CASE Stopped(store, stopped, S, reason)
        BY <1>7, <3>2 DEF Stopped
      <3> QED
        BY <1>5, <3>1, <3>2
    <2>2. \A c \in S : store.active[c] = r /\ calls[r].pc = "rag" => r \in disturbed'
      BY <1>1, <1>4, StreamsAssumption DEF CallsInv
    <2>3. OutcomeMoves(r)
      BY <1>4, <1>8, <2>1, <2>2 DEF OutcomeMoves
    <2> QED
      BY <1>1, <2>3 DEF CallOnly, CallMoves, CountMoves
  <1>10. ASSUME NEW c \in Convs
         PROVE  ConvMoves(c)
    <2>1. CASE c \in C
      <3>1. store'.msgs[c] = <<>> /\ stored'[c] = <<>> /\ c \notin open'
        BY <1>1, <1>7, <2>1
      <3>2. ListsMove(c) /\ CopiesMove(c)
        BY <1>2, <3>1, ListsFrom
      <3>3. store'.active[c] = None
        BY <1>4, <1>8, <2>1 DEF Ends, Rests, Flushes
      <3> QED
        BY <1>8, <3>1, <3>2, <3>3 DEF ConvMoves, BuffersMove, ViewMoves, StoredMoves
    <2>2. CASE c \notin C
      <3>1. stored'[c] = stored[c] /\ open' \subseteq open /\ c \notin S
        BY <1>1, <1>4, <2>2
      <3> QED
        BY <1>2, <1>8, <2>2, <3>1, Untouched
    <2> QED
      BY <2>1, <2>2
  <1> QED
    BY <1>1, <1>9, <1>10, MovesFrom

LEMMA DeletionsMove ==
  ASSUME StreamsAssumption, TypeOK, QuietInv, CallsInv,
         ClearAllConversations \/ \E c \in Convs : DeleteConversation(c)
  PROVE  Moves
  <1>1. PICK reason \in {"complete", "abort", "error"} : reason = "abort"
    OBVIOUS
  <1>2. \E C \in SUBSET Convs : Remove(C, Stop(store, C, reason))
    <2>1. CASE ClearAllConversations
      BY <1>1, <2>1 DEF ClearAllConversations
    <2>2. ASSUME NEW c \in Convs, DeleteConversation(c)
          PROVE  Remove({c}, Stop(store, {c}, reason))
      BY <1>1, <2>2 DEF DeleteConversation, StopStream
    <2> QED
      BY <2>1, <2>2
  <1>3. PICK C \in SUBSET Convs : Remove(C, Stop(store, C, reason))
    BY <1>2
  <1>4. PICK stopped : stopped = Stop(store, C, reason)
    OBVIOUS
  <1> QED
    BY <1>1, <1>3, <1>4, RemoveMoves

LEMMA ChatRejectsMoves ==
  ASSUME StreamsAssumption, TypeOK, QuietInv, CallsInv, NEW r \in Requests, ChatRejects(r)
  PROVE  Moves
  <1>1. PICK c : c = calls[r].conv
    OBVIOUS
  <1>2. /\ calls[r].pc = "chat" /\ calls' = [calls EXCEPT ![r].pc = "done"]
        /\ disturbed' = IF store.active[c] \in {None, r} THEN disturbed
                        ELSE disturbed \cup {store.active[c]} \cup Owner(store.msgs[c])
        /\ UNCHANGED <<open, sent, stored, loads, booting, edits>>
    BY <1>1 DEF ChatRejects, counts
  <1>3. c \in Convs /\ calls \in [Requests -> Sends]
    BY <1>1, <1>2 DEF CallsInv, TypeOK
  <1>4. /\ calls'[r].pc = "done" /\ calls'[r].conv = calls[r].conv
        /\ \A q \in Requests : q # r => calls'[q] = calls[q]
    <2>1. calls[r] \in Sends
      BY <1>3
    <2> QED
      BY <1>2, <1>3, <2>1 DEF Sends
  <1>5. \A q \in Requests : CallMoves(q)
    BY <1>2, <1>4 DEF CallMoves
  <1>6. LoadsOld /\ disturbed \subseteq disturbed'
    BY <1>2 DEF LoadsOld
  <1>7. CASE store.active[c] = None
    <2>1. store' = store
      BY <1>1, <1>7 DEF ChatRejects, Resolved
    <2>2. \A d \in Convs : ConvMoves(d)
      BY <1>2, <1>6, <2>1, Untouched DEF Rests
    <2>3. \A q \in Requests : CallOnly(q)
      BY <1>2, <1>5, <2>1 DEF CallOnly, CountMoves, OutcomeMoves
    <2> QED
      BY <1>2, <1>6, <2>2, <2>3, MovesFrom
  <1>8. CASE store.active[c] # None
    <2>1. PICK told : told = [FlushAndStop(store, c) EXCEPT
                                !.msgs[c] = UpdatedLast(@, <<<<r, 0>>>>, "keep", None)]
      OBVIOUS
    <2>2. store' = Stop(told, {c}, "error")
      BY <1>1, <1>8, <2>1 DEF ChatRejects, Resolved
    <2>3. store \in Stores /\ store.metrics[c] = None /\ store.active[c] \in Requests
      BY <1>3, <1>8, StoreTyped DEF QuietInv
    <2>4. Stopped(store, store', {c}, "error")
      BY <1>3, <1>8, <2>1, <2>2, <2>3, RejectEffect
    <2>5. Rejected(store, store', c, r)
      BY <1>3, <1>8, <2>1, <2>2, <2>3, RejectEffect
    <2>6. Elsewhere(store, store', c)
      BY <1>3, <1>8, <2>1, <2>2, <2>3, RejectEffect
    <2>7. PICK ms, f, out : ms = store.msgs[c] /\ f = Flushed(store, c) /\ out = store'.msgs[c]
      OBVIOUS
    <2>8. ms \in Seq(Messages) /\ f \in Seq(Chunks)
      BY <1>3, <2>3, <2>7, StoreTyped, FlushedTyped
    <2>9. PICK keep \in {"keep", "set", "clear"}, none \in Reqs \cup {None}, error \in Seq(Chunks) :
            keep = "keep" /\ none = None /\ error = <<<<r, 0>>>>
      <3>1. <<r, 0>> \in Chunks
        BY StreamsAssumption DEF Chunks, Reqs
      <3>2. <<<<r, 0>>>> \in Seq(Chunks)
        BY <3>1
      <3> QED
        BY <3>2
    <2>10. PICK first : first = UpdatedLast(ms, f, keep, none)
      OBVIOUS
    <2>11. Updated(ms, first, f, keep, none)
      BY <2>8, <2>9, <2>10, UpdatedLastEffect
    <2>12. first \in Seq(Messages) /\ out = UpdatedLast(first, error, keep, none)
      BY <2>5, <2>7, <2>9, <2>10, <2>11 DEF Updated, Rejected
    <2>13. Updated(first, out, error, keep, none)
      BY <2>9, <2>12, UpdatedLastEffect
    <2>14. Ends(c) /\ store'.outcome[store.active[c]] = "error"
      BY <1>3, <2>3, <2>4 DEF Stopped, Ends
    <2>15. calls[store.active[c]].pc = "rag" => Owner(ms) \subseteq disturbed'
      BY <1>2, <1>8, <2>7
    <2>16. ASSUME ms # <<>>
           PROVE  Fresh(c, Last(out))
      <3>1. first # <<>> /\ Last(first).id = Last(ms).id /\ Last(first).text = Last(ms).text \o f
        <4>1. first # <<>>
          BY <2>8, <2>11, <2>12, <2>16 DEF Updated
        <4> QED
          BY <2>11, <2>16, <4>1 DEF Updated
      <3>2. Last(out).id = Last(ms).id /\ Last(out).text = (Last(ms).text \o f) \o error
        BY <2>13, <3>1 DEF Updated
      <3>3. error \in Tails
        BY <2>9 DEF Tails
      <3>4. Amended(c, Last(out))
        BY <1>8, <2>7, <2>14, <2>15, <2>16, <3>2, <3>3 DEF Amended
      <3> QED
        BY <3>4 DEF Fresh
    <2>17. /\ out \in Seq(Messages) /\ DOMAIN out = DOMAIN ms /\ Len(out) = Len(ms)
           /\ \A i \in DOMAIN ms : i # Len(ms) => out[i] = ms[i]
      BY <2>11, <2>13 DEF Updated
    <2>18. \A i \in DOMAIN out : Fresh(c, out[i])
      BY <1>3, <2>7, <2>16, <2>17, LastFresh
    <2>19. ListsMove(c) /\ CopiesMove(c) /\ StoredMoves(c)
      BY <1>2, <1>3, <1>6, <2>7, <2>18, ListedKnown, ListsFrom DEF StoredMoves
    <2>20. PICK S \in SUBSET Convs, reason \in {"complete", "abort", "error"} :
             S = {c} /\ reason = "error"
      BY <1>3
    <2>21. \A d \in Convs \ S : store'.msgs[d] = store.msgs[d] /\ stored'[d] = stored[d]
      BY <1>2, <2>6, <2>20 DEF Elsewhere
    <2>22. \A d \in S : ListsMove(d) /\ CopiesMove(d) /\ StoredMoves(d)
      BY <2>19, <2>20
    <2>23. Stopped(store, store', S, reason) /\ reason # "complete" /\ reason # "abort"
      BY <2>4, <2>20
    <2> QED
      BY <1>2, <1>5, <1>6, <2>21, <2>22, <2>23, StopMoves
  <1> QED
    BY <1>7, <1>8

\* A stream that completes: its message is amended, and saved.
LEMMA DoneTokenMoves ==
  ASSUME StreamsAssumption, TypeOK, QuietInv, CallsInv, NEW r \in Requests, DoneToken(r)
  PROVE  Moves
  <1>1. /\ backend[r] = "running"
        /\ UNCHANGED <<open, calls, sent, loads, booting, disturbed, edits>>
    BY DEF DoneToken, counts
  <1>2. LoadsOld
    BY <1>1 DEF LoadsOld
  <1>3. \A q \in Requests : CallMoves(q)
    BY <1>1 DEF CallMoves
  <1>4. CASE Streaming(r) = {}
    <2>1. UNCHANGED <<store, stored>>
      BY <1>4 DEF DoneToken
    <2>2. \A c \in Convs : ConvMoves(c)
      BY <1>1, <1>2, <2>1, Untouched DEF Rests
    <2>3. \A q \in Requests : CallOnly(q)
      BY <1>1, <2>1, CallStays
    <2> QED
      BY <1>1, <2>2, <2>3, MovesFrom
  <1>5. CASE Streaming(r) # {}
    <2>1. PICK c \in Convs : c = ConvOf(r) /\ store.active[c] = r
      BY <1>5, ConvOfStreams
    <2>2. PICK ms, f, out : ms = store.msgs[c] /\ f = Flushed(store, c) /\ out = store'.msgs[c]
      OBVIOUS
    <2>3. store' = Stop(SetPendingMetrics(BufferToken(store, c, r, <<>>), c, r), {c}, "complete")
      BY <1>5, <2>1 DEF DoneToken
    <2>4. stored' = IF c \in open /\ out # <<>> /\ Last(out).id[2] = "assistant"
                    THEN [stored EXCEPT ![c] = Saved(stored[c], Last(out))] ELSE stored
      BY <1>5, <2>1, <2>2, <2>3 DEF DoneToken
    <2>5. store \in Stores /\ stored \in [Convs -> Seq(Messages)] /\ r # None
      BY StoreTyped, StreamsAssumption DEF TypeOK
    <2>6. Stopped(store, store', {c}, "complete")
      BY <2>1, <2>3, <2>5, DoneEffect
    <2>7. Completed(store, store', c, r)
      BY <2>1, <2>3, <2>5, DoneEffect
    <2>8. Elsewhere(store, store', c)
      BY <2>1, <2>3, <2>5, DoneEffect
    <2>9. /\ ms \in Seq(Messages) /\ f \in Seq(Chunks) /\ Distinct(ms)
          /\ stored[c] \in Seq(Messages) /\ Distinct(stored[c])
      BY <2>2, <2>5, StoreTyped, FlushedTyped DEF TypeOK
    <2>10. PICK clear \in {"keep", "set", "clear"} : clear = "clear"
      OBVIOUS
    <2>11. r \in Reqs \cup {None} /\ out = UpdatedLast(ms, f, clear, r)
      BY <2>2, <2>7, <2>10 DEF Completed, Reqs
    <2>12. Updated(ms, out, f, clear, r)
      BY <2>9, <2>11, UpdatedLastEffect
    <2>13. calls[r].pc # "rag"
      BY <1>1 DEF CallsInv
    <2>14. Ends(c) /\ store'.outcome[r] = "complete"
      BY <2>1, <2>6 DEF Stopped, Ends
    <2>15. ASSUME ms # <<>>
           PROVE  /\ Amended(c, Last(out)) /\ Last(out).id = Last(ms).id
                  /\ out # <<>> /\ Last(out) \in Messages
      <3>1. /\ Last(out).id = Last(ms).id /\ Last(out).text = Last(ms).text \o f
            /\ Last(out).stopped = FALSE /\ Last(out).metrics = r
        BY <2>5, <2>10, <2>12, <2>15 DEF Updated
      <3>2. Last(ms).text \in Seq(Chunks)
        BY <2>9, <2>15, MessageFields DEF Last
      <3>3. Last(out).text = (Last(ms).text \o f) \o <<>> /\ <<>> \in Tails
        BY <2>9, <3>1, <3>2, ConcatEmptySeq, ConcatProperties DEF Tails
      <3>4. Amended(c, Last(out))
        BY <2>1, <2>2, <2>5, <2>13, <2>14, <2>15, <3>1, <3>3 DEF Amended
      <3>5. out \in Seq(Messages) /\ Len(out) = Len(ms) /\ DOMAIN out = DOMAIN ms
        BY <2>12 DEF Updated
      <3>6. out # <<>> /\ Last(out) \in Messages
        BY <2>9, <2>15, <3>5 DEF Last
      <3> QED
        BY <3>1, <3>4, <3>6
    <2>16. /\ out \in Seq(Messages) /\ DOMAIN out = DOMAIN ms /\ Len(out) = Len(ms)
           /\ \A i \in DOMAIN ms : i # Len(ms) => out[i] = ms[i]
      BY <2>12 DEF Updated
    <2>17. \A i \in DOMAIN out : Fresh(c, out[i])
      <3>1. ms # <<>> => Fresh(c, Last(out))
        BY <2>15 DEF Fresh
      <3> QED
        BY <2>2, <2>16, <3>1, LastFresh
    <2>18. PICK kept : kept = stored'[c]
      OBVIOUS
    <2>19. \A i \in DOMAIN kept :
             (\E j \in DOMAIN stored[c] : kept[i] = stored[c][j])
               \/ (ms # <<>> /\ kept[i] = Last(out))
      <3>1. CASE kept = stored[c]
        BY <3>1
      <3>2. CASE ms # <<>> /\ kept = Saved(stored[c], Last(out))
        <4>1. PICK m \in Messages : m = Last(out)
          BY <2>15, <3>2
        <4>2. \A i \in DOMAIN Saved(stored[c], m) :
                Saved(stored[c], m)[i] = m
                  \/ \E j \in DOMAIN stored[c] : Saved(stored[c], m)[i] = stored[c][j]
          BY <2>9, SavedKeeps
        <4>3. kept = Saved(stored[c], m)
          BY <3>2, <4>1
        <4>4. \A i \in DOMAIN kept :
                kept[i] = m \/ \E j \in DOMAIN stored[c] : kept[i] = stored[c][j]
          BY <4>2, <4>3
        <4> QED
          BY <3>2, <4>1, <4>4
      <3>3. kept = stored[c] \/ (out # <<>> /\ kept = Saved(stored[c], Last(out)))
        BY <2>4, <2>5, <2>18
      <3>4. out # <<>> => ms # <<>>
        BY <2>9, <2>16
      <3> QED
        BY <3>1, <3>2, <3>3, <3>4
    <2>20. \A i \in DOMAIN kept : Fresh(c, kept[i]) /\ Copied(c, kept[i])
      <3>1. ms # <<>> => Fresh(c, Last(out)) /\ Copied(c, Last(out))
        BY <2>1, <2>2, <2>5, <2>13, <2>14, <2>15 DEF Fresh, Copied
      <3> QED
        BY <2>19, <3>1, ListedKnown
    <2>21. ListsMove(c) /\ CopiesMove(c)
      BY <1>2, <2>2, <2>17, <2>18, <2>20, ListsFrom
    <2>22. c \in open /\ out # <<>> /\ Last(out).id[2] = "assistant" =>
             Last(out).id \in IdsOf(kept)
      <3> SUFFICES ASSUME c \in open, out # <<>>, Last(out).id[2] = "assistant"
                   PROVE  Last(out).id \in IdsOf(kept)
        OBVIOUS
      <3>1. kept = Saved(stored[c], Last(out)) /\ ms # <<>>
        BY <2>4, <2>5, <2>9, <2>16, <2>18
      <3> QED
        BY <2>9, <2>15, <3>1, SavedKeeps
    <2>23. IdsOf(stored[c]) \subseteq IdsOf(kept)
      <3>1. kept = stored[c] \/ (out # <<>> /\ kept = Saved(stored[c], Last(out)))
        BY <2>4, <2>5, <2>18
      <3>2. out # <<>> => ms # <<>>
        BY <2>9, <2>16
      <3> QED
        BY <2>9, <2>15, <3>1, <3>2, SavedKeeps
    <2>24. Completes(c, r)
      <3> SUFFICES ASSUME EndsWith(ms, r)
                   PROVE  /\ \A list \in Sources(c)' : \A i \in DOMAIN list :
                               list[i].id = Assistant(r) =>
                                 Amended(c, list[i])
                                   \/ \E old \in Copies(c) : Assistant(r) \in IdsOf(old)
                          /\ c \in open => Assistant(r) \in IdsOf(stored'[c])
        BY <2>2, <2>13 DEF Completes
      <3>1. ms # <<>> /\ Last(ms).id = Assistant(r) /\ Len(ms) \in DOMAIN ms
        BY <2>9 DEF EndsWith
      <3>2. Last(out).id = Assistant(r) /\ Amended(c, Last(out)) /\ out # <<>>
        BY <2>15, <3>1
      <3>3. c \in open => Assistant(r) \in IdsOf(stored'[c])
        BY <2>18, <2>22, <3>2 DEF Assistant
      <3>4. \A i \in DOMAIN out : out[i].id = Assistant(r) => Amended(c, out[i])
        <4> SUFFICES ASSUME NEW i \in DOMAIN out, out[i].id = Assistant(r)
                     PROVE  Amended(c, out[i])
          OBVIOUS
        <4>1. i # Len(ms) => ms[i].id = ms[Len(ms)].id
          BY <2>16, <3>1 DEF Last
        <4>2. i = Len(ms)
          BY <2>9, <2>16, <3>1, <4>1 DEF Distinct
        <4> QED
          BY <2>16, <3>2, <4>2 DEF Last
      <3>5. \A i \in DOMAIN kept : kept[i].id = Assistant(r) =>
              Amended(c, kept[i]) \/ Assistant(r) \in IdsOf(stored[c])
        BY <2>19, <3>2 DEF IdsOf
      <3>6. \A list \in Sources(c)' : list = out \/ list = kept \/ list \in Copies(c)
        BY <1>1, <2>2, <2>18 DEF Sources, Copies
      <3>7. stored[c] \in Copies(c)
        BY DEF Copies
      <3>8. \A list \in Copies(c) : \A i \in DOMAIN list : list[i].id \in IdsOf(list)
        BY DEF IdsOf
      <3> QED
        BY <3>3, <3>4, <3>5, <3>6, <3>7, <3>8
    <2>25. PICK S \in SUBSET Convs, reason \in {"complete", "abort", "error"} :
             S = {c} /\ reason = "complete"
      OBVIOUS
    <2>26. \A d \in Convs \ S : store'.msgs[d] = store.msgs[d] /\ stored'[d] = stored[d]
      BY <2>4, <2>5, <2>8, <2>25 DEF Elsewhere
    <2>27. \A d \in S : ListsMove(d) /\ CopiesMove(d) /\ StoredMoves(d)
      BY <1>1, <2>18, <2>21, <2>23, <2>25 DEF StoredMoves
    <2>28. Stopped(store, store', S, reason) /\ reason # "abort"
      BY <2>6, <2>25
    <2>29. \A d \in S : \A q \in Requests : store.active[d] = q => Completes(d, q)
      BY <2>1, <2>24, <2>25
    <2> QED
      BY <1>1, <1>2, <1>3, <2>26, <2>27, <2>28, <2>29, StopMoves
  <1> QED
    BY <1>4, <1>5

\* So every step is a move.
LEMMA NextMoves ==
  ASSUME StreamsAssumption, Inv, AnswersInv, [Next]_vars
  PROVE  Moves
  <1>1. TypeOK /\ QuietInv /\ CallsInv /\ CleanInv
    BY DEF Inv, AnswersInv
  <1>2. ASSUME NEW r \in Requests, SendMessage(r) \/ EditAndResend(r)
        PROVE  Moves
    <2>1. PICK edit, drop : StartSend(r, edit, drop) /\ (edits > 0 => edits' > 0)
      <3>1. CASE SendMessage(r)
        BY <3>1 DEF SendMessage
      <3>2. CASE EditAndResend(r)
        <4>1. edits' = edits + 1 /\ edits \in Nat
          BY <1>1, <3>2, StreamsAssumption DEF EditAndResend, TypeOK
        <4> QED
          BY <3>2, <4>1 DEF EditAndResend
      <3> QED
        BY <1>2, <3>1, <3>2
    <2> QED
      BY <1>1, <2>1, StartSendMoves
  <1>3. ASSUME NEW r \in Requests, ChatReturns(r) \/ SilentEnd(r)
        PROVE  Moves
    <2>1. UNCHANGED <<store, stored, open, loads, booting, disturbed, edits, sent>>
      BY <1>3 DEF ChatReturns, SilentEnd, counts
    <2>2. LoadsOld
      BY <2>1 DEF LoadsOld
    <2>3. \A q \in Requests : \/ calls'[q] = calls[q]
                              \/ /\ calls[q].pc = "chat" /\ calls'[q].pc = "done"
                                 /\ calls'[q].conv = calls[q].conv
      <3>1. CASE SilentEnd(r)
        BY <3>1 DEF SilentEnd
      <3>2. CASE ChatReturns(r)
        <4>1. /\ calls[r].pc = "chat" /\ calls' = [calls EXCEPT ![r].pc = "done"]
              /\ calls \in [Requests -> Sends]
          BY <1>1, <3>2 DEF ChatReturns, TypeOK
        <4>2. calls[r] \in Sends
          BY <4>1
        <4> QED
          BY <4>1, <4>2 DEF Sends
      <3> QED
        BY <1>3, <3>1, <3>2
    <2> QED
      BY <1>1, <2>1, <2>2, <2>3, IdleMoves
  <1>4. ASSUME NEW r \in Requests, RagReplies(r) \/ ChatRejects(r)
        PROVE  Moves
    BY <1>1, <1>4, RagRepliesMoves, ChatRejectsMoves
  <1>5. ASSUME NEW r \in Requests, Token(r) \/ DoneToken(r) \/ ErrorEvent(r)
        PROVE  Moves
    BY <1>1, <1>5, TokenMoves, DoneTokenMoves, ErrorEventMoves
  <1>6. ASSUME NEW c \in Convs, SwitchTo(c) \/ LoadFails(c)
        PROVE  Moves
    <2>1. /\ UNCHANGED <<store, stored, open, calls, booting, disturbed, edits, sent>>
          /\ \A d \in Convs : loads'[d] \subseteq loads[d] \cup {stored[d]}
      <3>1. CASE SwitchTo(c)
        BY <3>1 DEF SwitchTo, counts
      <3>2. CASE LoadFails(c)
        BY <1>1, <3>2 DEF LoadFails, counts, TypeOK
      <3> QED
        BY <1>6, <3>1, <3>2
    <2>2. LoadsOld
      BY <2>1 DEF LoadsOld
    <2> QED
      BY <1>1, <2>1, <2>2, IdleMoves
  <1>7. ASSUME NEW c \in Convs, LoadReplies(c)
        PROVE  Moves
    BY <1>1, <1>7, LoadRepliesMoves
  <1>8. ASSUME NEW id, DeleteMessage(id)
        PROVE  Moves
    BY <1>1, <1>8, DeleteMessageMoves
  <1>9. CASE ClearAllConversations \/ \E c \in Convs : DeleteConversation(c)
    BY <1>1, <1>9, DeletionsMove
  <1>10. CASE AnimationFrame \/ Abort \/ LeavePage \/ BootReplies
    BY <1>1, <1>10, FrameMoves, AbortMoves, LeavePageMoves, BootRepliesMoves
  <1>11. CASE UNCHANGED vars
    <2>1. UNCHANGED <<store, stored, open, calls, loads, booting, disturbed, edits, sent>>
      BY <1>11 DEF vars
    <2>2. LoadsOld
      BY <2>1 DEF LoadsOld
    <2> QED
      BY <1>1, <2>1, <2>2, IdleMoves
  <1> QED
    BY <1>2, <1>3, <1>4, <1>5, <1>6, <1>7, <1>8, <1>9, <1>10, <1>11 DEF Next

\* At the start nothing streams, and every list is that of the stored turn.
LEMMA InitLists ==
  ASSUME StreamsAssumption, Init, NEW c \in Convs
  PROVE  /\ store.active[c] = None /\ store.live[c] = <<>> /\ store.batch[c] = NoBatch
         /\ \A ms \in Sources(c) : ms \in {OldTurn, <<>>}
         /\ \A r \in Requests : calls[r].pc = "new" /\ store.outcome[r] = "none"
  <1>1. PICK starting \in BOOLEAN :
          /\ loads = [d \in Convs |-> IF d = current /\ starting THEN {OldTurn} ELSE {}]
          /\ booting = IF starting THEN {<<current, OldTurn>>} ELSE {}
          /\ store = [msgs |-> [d \in Convs |-> IF d \in loaded THEN OldTurn ELSE <<>>],
                      live |-> [d \in Convs |-> <<>>], metrics |-> [d \in Convs |-> None],
                      active |-> [d \in Convs |-> None], batch |-> [d \in Convs |-> NoBatch],
                      streaming |-> FALSE, outcome |-> [r \in Requests |-> "none"]]
    BY DEF Init
  <1>2. /\ store.msgs = [d \in Convs |-> IF d \in loaded THEN OldTurn ELSE <<>>]
        /\ store.live = [d \in Convs |-> <<>>] /\ store.active = [d \in Convs |-> None]
        /\ store.batch = [d \in Convs |-> NoBatch]
        /\ store.outcome = [r \in Requests |-> "none"]
    BY <1>1
  <1>3. /\ stored = [d \in Convs |-> IF d \in open THEN OldTurn ELSE <<>>]
        /\ calls = [r \in Requests |-> [pc |-> "new", conv |-> None, edit |-> None, drop |-> None]]
    BY DEF Init
  <1>4. store.msgs[c] \in {OldTurn, <<>>} /\ stored[c] \in {OldTurn, <<>>}
    BY <1>2, <1>3
  <1>5. \A ms \in loads[c] : ms = OldTurn
    BY <1>1
  <1>6. \A b \in booting : b[2] = OldTurn
    BY <1>1
  <1>7. \A ms \in Sources(c) : ms \in {OldTurn, <<>>}
    BY <1>4, <1>5, <1>6 DEF Sources
  <1> QED
    BY <1>2, <1>3, <1>7

LEMMA InitKnown ==
  ASSUME StreamsAssumption, Init, NEW c \in Convs, NEW m, Known(c, m)
  PROVE  m.text = <<>>
  <1>1. PICK ms \in Sources(c) : \E i \in DOMAIN ms : ms[i] = m
    BY DEF Known, Holds
  <1>2. ms = OldTurn \/ ms = <<>>
    BY <1>1, InitLists
  <1>3. \A i \in DOMAIN OldTurn : OldTurn[i].text = <<>>
    BY DEF OldTurn, Message
  <1> QED
    BY <1>1, <1>2, <1>3

LEMMA InitOrder ==
  ASSUME StreamsAssumption, Init
  PROVE  OrderInv
  <1> SUFFICES ASSUME NEW c \in Convs
               PROVE  OrderAt(c)
    BY DEF OrderInv
  <1>1. Buffered(c) = <<>>
    BY InitLists DEF Buffered, NoBatch
  <1>2. \A m : Known(c, m) => m.text = <<>>
    BY InitKnown
  <1> QED
    BY <1>1, <1>2 DEF OrderAt, Ordered, Counted, Has

LEMMA InitAnswers ==
  ASSUME StreamsAssumption, Init
  PROVE  AnswersInv
  <1>1. \A c \in Convs : store.active[c] = None
    BY InitLists
  <1>2. Inv
    BY InitInv
  <1>3. \A r \in Requests : store.outcome[r] = "none" /\ calls[r].pc = "new"
    <2>1. current \in Convs
      BY DEF Init
    <2> QED
      BY <2>1, InitLists
  <1>4. RivalsInv /\ EarlyInv /\ KeptInv
    BY <1>3 DEF RivalsInv, EarlyInv, KeptInv
  <1>5. HoldingInv /\ CleanInv
    BY <1>1 DEF HoldingInv, CleanInv
  <1>6. CopiesInv
    <2> SUFFICES ASSUME NEW r \in Requests, NEW c \in Convs, NEW ms \in Copies(c),
                        Assistant(r) \in IdsOf(ms)
                 PROVE  FALSE
      BY <1>3 DEF CopiesInv
    <2>1. ms = OldTurn \/ ms = <<>>
      <3>1. ms \in Sources(c)
        BY DEF Copies, Sources
      <3>2. \A list \in Sources(c) : list \in {OldTurn, <<>>}
        BY InitLists
      <3> QED
        BY <3>1, <3>2
    <2>2. IdsOf(OldTurn) = {User(Old), Assistant(Old)} /\ IdsOf(<<>>) = {}
      BY DEF IdsOf, OldTurn, Message, User, Assistant
    <2>3. r # Old
      BY StreamsAssumption
    <2> QED
      BY <2>1, <2>2, <2>3 DEF User, Assistant
  <1> QED
    BY <1>4, <1>5, <1>6 DEF AnswersInv

LEMMA NextOrder ==
  ASSUME StreamsAssumption, Inv, AnswersInv, OrderInv, [Next]_vars
  PROVE  OrderInv'
  <1>1. Inv' /\ Moves
    BY NextInv, NextMoves
  <1> QED
    BY <1>1, OrderKept DEF Inv

LEMMA NextAnswers ==
  ASSUME StreamsAssumption, Inv, AnswersInv, [Next]_vars
  PROVE  AnswersInv'
  <1>1. Inv' /\ Moves
    BY NextInv, NextMoves
  <1> QED
    BY <1>1, AnswersKept

\* What a conversation holds of an answer, over its messages and its buffers,
\* is in the order the backend sent it, no token twice, for any number of
\* sends, loads, deletions and events, in any order.
THEOREM TokensStayInOrder ==
  ASSUME StreamsAssumption
  PROVE  Spec => []TokensInOrder
  <1>1. Inv /\ OrderInv => TokensInOrder
    BY OrderTold DEF Inv
  <1> QED
    BY <1>1, InitInv, InitAnswers, InitOrder, NextInv, NextAnswers, NextOrder, PTL DEF Spec

\* An answer that completed holds exactly the tokens of its request, with its
\* metrics and no stopped mark, in the view and in the database, and is in the
\* database while its conversation is, unless a hazard disturbed its request.
THEOREM DoneAnswersAreWhole ==
  ASSUME StreamsAssumption
  PROVE  Spec => []DoneIsWhole
  <1>1. AnswersInv => DoneIsWhole
    <2> SUFFICES ASSUME AnswersInv, NEW r \in Requests \ disturbed, store.outcome[r] = "complete"
                 PROVE  /\ \A c \in Convs : \A ms \in {store.msgs[c], stored[c]} :
                             \A i \in DOMAIN ms : ms[i].id = Assistant(r) => Whole(ms[i], r)
                        /\ \/ edits > 0 \/ calls[r].conv \notin open
                           \/ Assistant(r) \in IdsOf(stored[calls[r].conv])
      BY DEF DoneIsWhole
    <2>1. \A c \in Convs : \A m : Known(c, m) /\ m.id = Assistant(r) => Whole(m, r)
      BY DEF AnswersInv, CopiesInv
    <2>2. \A c \in Convs : \A ms \in {store.msgs[c], stored[c]} :
            \A i \in DOMAIN ms : Known(c, ms[i])
      BY DEF Known, Holds, Sources
    <2> QED
      BY <2>1, <2>2 DEF AnswersInv, KeptInv
  <1> QED
    BY <1>1, InitInv, InitAnswers, NextInv, NextAnswers, PTL DEF Spec

\* First writer wins: no event after the one that resolved a stream changes
\* its message, unless a hazard disturbed its request.
THEOREM ResolvedStaysFinal ==
  ASSUME StreamsAssumption
  PROVE  Spec => ResolvedIsFinal
  <1> DEFINE Final == \A r \in Requests \ disturbed' : store.outcome[r] \in {"complete", "abort"} =>
                        \A c \in Convs : \A i \in DOMAIN store'.msgs[c] :
                          LET m == store'.msgs[c][i]
                          IN m.id = Assistant(r) => \E ms \in Sources(c) : Holds(ms, m)
  <1>1. ASSUME Inv, AnswersInv, [Next]_vars
        PROVE  Final
    <2>1. Moves /\ TypeOK /\ CallsInv /\ HoldingInv /\ EarlyInv
      BY <1>1, NextMoves DEF Inv, AnswersInv
    <2> SUFFICES ASSUME NEW r \in Requests \ disturbed',
                        store.outcome[r] \in {"complete", "abort"},
                        NEW c \in Convs, NEW i \in DOMAIN store'.msgs[c],
                        store'.msgs[c][i].id = Assistant(r)
                 PROVE  Known(c, store'.msgs[c][i])
      BY DEF Known
    <2>2. PICK m : m = store'.msgs[c][i]
      OBVIOUS
    <2>3. Known(c, m)'
      BY <2>2 DEF Known, Holds, Sources
    <2>4. Known(c, m)
      BY <2>1, <2>2, <2>3, ResolvedStays
    <2> QED
      BY <2>2, <2>4
  <1>2. Inv /\ AnswersInv /\ [Next]_vars => [Final]_vars
    BY <1>1
  <1> QED
    BY <1>2, InitInv, InitAnswers, NextInv, NextAnswers, PTL DEF Spec, ResolvedIsFinal

=============================================================================
