------------------------- MODULE ChatRequestsProofs -------------------------
(* Theorems about ChatRequests, for any calls, ids, limits and timeouts.   *)
EXTENDS ChatRequests, TLAPS

-----------------------------------------------------------------------------
(* Types.                                                                  *)

LEMMA InitTypeOK == Init => TypeOK
  BY ConstantsAssumption DEF Init, TypeOK, Ages, PCs

LEMMA StepTypeOK == TypeOK /\ [Next]_vars => TypeOK'
  <1> SUFFICES ASSUME TypeOK, [Next]_vars PROVE TypeOK'
    OBVIOUS
  <1>1. ASSUME NEW c \in Calls, NEW i \in Ids, Invoke(c, i)
        PROVE  TypeOK'
    <2>1. Evicted \subseteq Ids
      BY DEF Evicted, Cached
    <2>2. cache' \in [Ids -> Ages \cup {None}]
      BY <1>1, <2>1 DEF Invoke, TypeOK
    <2>3. lapsed' \in SUBSET Ids
      BY <1>1, <2>1 DEF Invoke, TypeOK, Lapse
    <2>4. /\ pc' \in [Calls -> PCs]
          /\ id' \in [Calls -> Ids \cup {None}]
          /\ \A d \in Calls : pc'[d] # "new" => id'[d] \in Ids
      BY <1>1 DEF Invoke, TypeOK, Goto, PCs
    <2> QED
      BY <1>1, <2>2, <2>3, <2>4 DEF Invoke, TypeOK
  <1>2. ASSUME NEW c \in Calls, Claim(c)
        PROVE  TypeOK'
    BY <1>2, ConstantsAssumption DEF Claim, TypeOK, Goto, PCs, InFlight, Ages
  <1>3. ASSUME NEW c \in Calls, AcquireGlobal(c)
        PROVE  TypeOK'
    BY <1>3, ConstantsAssumption
    DEF AcquireGlobal, TypeOK, Goto, PCs, InFlight, WithGlobal
  <1>4. ASSUME NEW c \in Calls, AcquireChat(c)
        PROVE  TypeOK'
    BY <1>4, ConstantsAssumption DEF AcquireChat, TypeOK, Goto, PCs, InFlight, WithGlobal
  <1>5. ASSUME NEW c \in Calls, SendAgain(c)
        PROVE  TypeOK'
    BY <1>5, ConstantsAssumption DEF SendAgain, TypeOK, TriesLeft
  <1>6. ASSUME NEW c \in Calls, SendFails(c)
        PROVE  TypeOK'
    BY <1>6, ConstantsAssumption
    DEF SendFails, TypeOK, Cleanup, Goto, PCs, InFlight, WithGlobal
  <1>7. ASSUME NEW c \in Calls, Respond(c)
        PROVE  TypeOK'
    BY <1>7, ConstantsAssumption DEF Respond, TypeOK, Goto, PCs, InFlight, WithGlobal
  <1>8. ASSUME NEW c \in Calls, StreamEnds(c)
        PROVE  TypeOK'
    BY <1>8, ConstantsAssumption DEF StreamEnds, TypeOK, Goto, PCs, InFlight, WithGlobal
  <1>9. ASSUME NEW c \in Calls, DropHandle(c)
        PROVE  TypeOK'
    BY <1>9, ConstantsAssumption DEF DropHandle, TypeOK, Goto, PCs, InFlight, WithGlobal
  <1>10. ASSUME NEW c \in Calls, DropClaim(c)
         PROVE  TypeOK'
    BY <1>10, ConstantsAssumption DEF DropClaim, TypeOK, Goto, PCs
  <1>11. ASSUME NEW i \in Ids, Abort(i)
         PROVE  TypeOK'
    BY <1>11, ConstantsAssumption DEF Abort, TypeOK, TakeHandle
  <1>12. ASSUME NEW i \in Ids, AbortClears(i)
         PROVE  TypeOK'
    BY <1>12, ConstantsAssumption DEF AbortClears, TypeOK, Lapse
  <1>13. CASE Sweep
    BY <1>13, ConstantsAssumption DEF Sweep, TypeOK, Lapse
  <1>14. CASE OthersAcquire \/ OthersRelease
    BY <1>14, ConstantsAssumption DEF OthersAcquire, OthersRelease, TypeOK
  <1>15. CASE Tick
    BY <1>15, ConstantsAssumption DEF Tick, TypeOK, Due, Ages
  <1>16. CASE UNCHANGED vars
    BY <1>16 DEF vars, TypeOK
  <1> QED
    BY <1>1, <1>2, <1>3, <1>4, <1>5, <1>6, <1>7, <1>8, <1>9, <1>10, <1>11, <1>12, <1>13,
       <1>14, <1>15, <1>16
    DEF Next, Acquire, Proceed

\* Every variable keeps its type: above all, no call sends more often than it may, and
\* neither an attempt nor an entry outlives the clock it is measured by.
THEOREM TypeCorrect == Spec => []TypeOK
  BY InitTypeOK, StepTypeOK, PTL DEF Spec

-----------------------------------------------------------------------------
(* The cache, the registry and the calls.                                  *)

\* An id that has not lapsed is claimed as long as its only call is in flight.
Claimed ==
  \A c \in Calls :
    pc[c] \in InFlight /\ id[c] \notin lapsed =>
      /\ cache[id[c]] # None
      /\ \A d \in Calls : pc[d] \in InFlight /\ id[d] = id[c] => d = c

\* Only a call that has been registered can have been cancelled.
CancelledWasLive ==
  \A c \in cancelled : pc[c] \in {"send", "stream", "unhandle", "uncache", "ended"}

\* EntryIsLive, spelled out.
Entries == \A i \in Ids : cache[i] # None => \E c \in Calls : pc[c] \in InFlight /\ id[c] = i

Registries == Claimed /\ CancelledWasLive /\ Entries /\ HandleIsLive /\ LiveIsAbortable

LEMMA InitRegistries == Init => Registries
  BY ConstantsAssumption
  DEF Init, Registries, Claimed, CancelledWasLive, Entries, HandleIsLive, LiveIsAbortable, At,
      InFlight, WithGlobal

LEMMA StepRegistries == TypeOK /\ Registries /\ [Next]_vars => Registries'
  <1> SUFFICES ASSUME TypeOK, Registries, [Next]_vars PROVE Registries'
    OBVIOUS
  <1>0. Claimed /\ CancelledWasLive /\ Entries /\ HandleIsLive /\ LiveIsAbortable
    BY DEF Registries
  <1>1. ASSUME NEW c \in Calls, NEW i \in Ids, Invoke(c, i)
        PROVE  Registries'
    <2>1. Claimed'
      BY <1>0, <1>1, ConstantsAssumption
      DEF TypeOK, Invoke, Goto, Lapse, FlyingAs, At, Claimed, InFlight, WithGlobal
    <2>2. CancelledWasLive'
      BY <1>0, <1>1, ConstantsAssumption
      DEF TypeOK, Invoke, Goto, Lapse, FlyingAs, At, CancelledWasLive, HandleIsLive
    <2>3. Entries'
      BY <1>0, <1>1, ConstantsAssumption
      DEF TypeOK, Invoke, Goto, Lapse, FlyingAs, At, Entries, InFlight, WithGlobal
    <2>4. HandleIsLive'
      BY <1>0, <1>1, ConstantsAssumption
      DEF TypeOK, Invoke, Goto, Lapse, FlyingAs, At, HandleIsLive, CancelledWasLive
    <2>5. LiveIsAbortable'
      BY <1>0, <1>1, ConstantsAssumption
      DEF TypeOK, Invoke, Goto, Lapse, FlyingAs, At, LiveIsAbortable, HandleIsLive,
          Claimed, InFlight, WithGlobal
    <2> QED
      BY <2>1, <2>2, <2>3, <2>4, <2>5 DEF Registries
  <1>2. ASSUME NEW c \in Calls, Claim(c)
        PROVE  Registries'
    <2>1. Claimed'
      <3>1. CASE cache[id[c]] = None
        <4>1. cache' = [cache EXCEPT ![id[c]] = 0] /\ pc' = [pc EXCEPT ![c] = "global"]
          BY <1>2, <3>1 DEF Claim, IsNew, Goto
        <4>2. \A d \in Calls : pc[d] \in InFlight /\ id[d] = id[c] => id[c] \in lapsed
          BY <1>0, <1>2, <3>1 DEF TypeOK, Claimed, Claim
        <4>3. id' = id /\ lapsed' = lapsed
          BY <1>2 DEF Claim
        <4>4. \A d \in Calls \ {c} : pc'[d] = pc[d]
          BY <4>1 DEF TypeOK
        <4>5. \A i \in Ids : cache'[i] = IF i = id[c] THEN 0 ELSE cache[i]
          BY <4>1 DEF TypeOK
        <4>6. 0 # None
          BY ConstantsAssumption
        <4>7. \A d \in Calls : pc'[d] \in InFlight => id[d] \in Ids
          BY <1>2, <4>4 DEF TypeOK, Claim, InFlight, WithGlobal
        <4> SUFFICES ASSUME NEW d \in Calls, pc'[d] \in InFlight, id[d] \notin lapsed
                     PROVE  /\ cache'[id[d]] # None
                            /\ \A e \in Calls : pc'[e] \in InFlight /\ id[e] = id[d] => e = d
          BY <4>3 DEF Claimed
        <4>8. CASE d = c
          BY <4>2, <4>4, <4>5, <4>6, <4>7, <4>8
        <4>9. CASE d # c
          <5>1. pc[d] \in InFlight /\ id[d] # id[c]
            BY <4>2, <4>4, <4>9
          <5> QED
            BY <1>0, <4>4, <4>5, <4>7, <5>1 DEF Claimed
        <4> QED
          BY <4>8, <4>9
      <3>2. CASE cache[id[c]] # None
        <4>1. UNCHANGED <<cache, id, lapsed>> /\ pc' = [pc EXCEPT ![c] = "refused"]
          BY <1>2, <3>2 DEF Claim, IsNew, Goto
        <4>2. \A d \in Calls : pc'[d] \in InFlight => pc[d] \in InFlight
          BY <4>1 DEF TypeOK, InFlight, WithGlobal
        <4> QED
          BY <1>0, <4>1, <4>2 DEF Claimed
      <3> QED
        BY <3>1, <3>2
    <2>2. CancelledWasLive'
      BY <1>0, <1>2, ConstantsAssumption
      DEF TypeOK, Claim, Goto, IsNew, CancelledWasLive, HandleIsLive
    <2>3. Entries'
      BY <1>0, <1>2, ConstantsAssumption
      DEF TypeOK, Claim, Goto, IsNew, Entries, InFlight, WithGlobal
    <2>4. HandleIsLive'
      BY <1>0, <1>2, ConstantsAssumption
      DEF TypeOK, Claim, Goto, IsNew, HandleIsLive, CancelledWasLive
    <2>5. LiveIsAbortable'
      BY <1>0, <1>2, ConstantsAssumption
      DEF TypeOK, Claim, Goto, IsNew, LiveIsAbortable, HandleIsLive, Claimed, At, InFlight,
          WithGlobal
    <2> QED
      BY <2>1, <2>2, <2>3, <2>4, <2>5 DEF Registries
  <1>3. ASSUME NEW c \in Calls, AcquireGlobal(c)
        PROVE  Registries'
    <2>1. Claimed'
      BY <1>0, <1>3, ConstantsAssumption
      DEF TypeOK, AcquireGlobal, Goto, Claimed, InFlight, WithGlobal
    <2>2. CancelledWasLive'
      BY <1>0, <1>3, ConstantsAssumption
      DEF TypeOK, AcquireGlobal, Goto, CancelledWasLive, HandleIsLive
    <2>3. Entries'
      BY <1>0, <1>3, ConstantsAssumption
      DEF TypeOK, AcquireGlobal, Goto, Entries, InFlight, WithGlobal
    <2>4. HandleIsLive'
      BY <1>0, <1>3, ConstantsAssumption
      DEF TypeOK, AcquireGlobal, Goto, HandleIsLive, CancelledWasLive
    <2>5. LiveIsAbortable'
      BY <1>0, <1>3, ConstantsAssumption
      DEF TypeOK, AcquireGlobal, Goto, LiveIsAbortable, HandleIsLive, Claimed, At,
          InFlight, WithGlobal
    <2> QED
      BY <2>1, <2>2, <2>3, <2>4, <2>5 DEF Registries
  <1>4. ASSUME NEW c \in Calls, AcquireChat(c)
        PROVE  Registries'
    <2>1. Claimed'
      BY <1>0, <1>4, ConstantsAssumption
      DEF TypeOK, AcquireChat, Goto, Claimed, InFlight, WithGlobal
    <2>2. CancelledWasLive'
      BY <1>0, <1>4, ConstantsAssumption
      DEF TypeOK, AcquireChat, Goto, CancelledWasLive, HandleIsLive
    <2>3. Entries'
      BY <1>0, <1>4, ConstantsAssumption
      DEF TypeOK, AcquireChat, Goto, Entries, InFlight, WithGlobal
    <2>4. HandleIsLive'
      BY <1>0, <1>4, ConstantsAssumption
      DEF TypeOK, AcquireChat, Goto, HandleIsLive, CancelledWasLive
    <2>5. LiveIsAbortable'
      <3> SUFFICES ASSUME NEW d \in Calls, pc'[d] \in {"send", "stream"}
                   PROVE  d \in cancelled \/ id[d] \in lapsed \/ handle'[id[d]] = d
        BY <1>4 DEF LiveIsAbortable, At, AcquireChat
      <3>1. handle' = [handle EXCEPT ![id[c]] = c] /\ pc[c] = "chat" /\ id[c] \in Ids
        BY <1>4 DEF AcquireChat, TypeOK
      <3>2. CASE d = c
        BY <3>1, <3>2 DEF TypeOK
      <3>3. CASE d # c
        <4>1. pc[d] \in {"send", "stream"} /\ id[d] \in Ids
          BY <1>4, <3>3 DEF AcquireChat, Goto, TypeOK
        <4>2. id[d] = id[c] => id[d] \in lapsed
          BY <1>0, <3>1, <3>3, <4>1 DEF Claimed, InFlight, WithGlobal
        <4>3. d \in cancelled \/ id[d] \in lapsed \/ handle[id[d]] = d
          BY <1>0, <4>1 DEF LiveIsAbortable, At
        <4> QED
          BY <3>1, <4>1, <4>2, <4>3 DEF TypeOK
      <3> QED
        BY <3>2, <3>3
    <2> QED
      BY <2>1, <2>2, <2>3, <2>4, <2>5 DEF Registries
  <1>5. ASSUME NEW c \in Calls, SendAgain(c)
        PROVE  Registries'
    <2>1. Claimed'
      BY <1>0, <1>5, ConstantsAssumption
      DEF TypeOK, SendAgain, Claimed, InFlight, WithGlobal
    <2>2. CancelledWasLive'
      BY <1>0, <1>5, ConstantsAssumption
      DEF TypeOK, SendAgain, CancelledWasLive, HandleIsLive
    <2>3. Entries'
      BY <1>0, <1>5, ConstantsAssumption
      DEF TypeOK, SendAgain, Entries, InFlight, WithGlobal
    <2>4. HandleIsLive'
      BY <1>0, <1>5, ConstantsAssumption
      DEF TypeOK, SendAgain, HandleIsLive, CancelledWasLive
    <2>5. LiveIsAbortable'
      BY <1>0, <1>5, ConstantsAssumption
      DEF TypeOK, SendAgain, LiveIsAbortable, HandleIsLive, Claimed, At, InFlight,
          WithGlobal
    <2> QED
      BY <2>1, <2>2, <2>3, <2>4, <2>5 DEF Registries
  <1>6. ASSUME NEW c \in Calls, SendFails(c)
        PROVE  Registries'
    <2>1. Claimed'
      BY <1>0, <1>6, ConstantsAssumption
      DEF TypeOK, SendFails, Goto, Cleanup, Claimed, InFlight, WithGlobal
    <2>2. CancelledWasLive'
      BY <1>0, <1>6, ConstantsAssumption
      DEF TypeOK, SendFails, Goto, Cleanup, CancelledWasLive, HandleIsLive
    <2>3. Entries'
      BY <1>0, <1>6, ConstantsAssumption
      DEF TypeOK, SendFails, Goto, Cleanup, Entries, InFlight, WithGlobal
    <2>4. HandleIsLive'
      BY <1>0, <1>6, ConstantsAssumption
      DEF TypeOK, SendFails, Goto, Cleanup, HandleIsLive, CancelledWasLive
    <2>5. LiveIsAbortable'
      BY <1>0, <1>6, ConstantsAssumption
      DEF TypeOK, SendFails, Goto, Cleanup, LiveIsAbortable, HandleIsLive, Claimed, At,
          InFlight, WithGlobal
    <2> QED
      BY <2>1, <2>2, <2>3, <2>4, <2>5 DEF Registries
  <1>7. ASSUME NEW c \in Calls, Respond(c)
        PROVE  Registries'
    <2>1. Claimed'
      BY <1>0, <1>7, ConstantsAssumption
      DEF TypeOK, Respond, Goto, Claimed, InFlight, WithGlobal
    <2>2. CancelledWasLive'
      BY <1>0, <1>7, ConstantsAssumption
      DEF TypeOK, Respond, Goto, CancelledWasLive, HandleIsLive
    <2>3. Entries'
      BY <1>0, <1>7, ConstantsAssumption
      DEF TypeOK, Respond, Goto, Entries, InFlight, WithGlobal
    <2>4. HandleIsLive'
      BY <1>0, <1>7, ConstantsAssumption
      DEF TypeOK, Respond, Goto, HandleIsLive, CancelledWasLive
    <2>5. LiveIsAbortable'
      BY <1>0, <1>7, ConstantsAssumption
      DEF TypeOK, Respond, Goto, LiveIsAbortable, HandleIsLive, Claimed, At, InFlight,
          WithGlobal
    <2> QED
      BY <2>1, <2>2, <2>3, <2>4, <2>5 DEF Registries
  <1>8. ASSUME NEW c \in Calls, StreamEnds(c)
        PROVE  Registries'
    <2>1. Claimed'
      BY <1>0, <1>8, ConstantsAssumption
      DEF TypeOK, StreamEnds, Goto, Claimed, InFlight, WithGlobal
    <2>2. CancelledWasLive'
      BY <1>0, <1>8, ConstantsAssumption
      DEF TypeOK, StreamEnds, Goto, CancelledWasLive, HandleIsLive
    <2>3. Entries'
      BY <1>0, <1>8, ConstantsAssumption
      DEF TypeOK, StreamEnds, Goto, Entries, InFlight, WithGlobal
    <2>4. HandleIsLive'
      BY <1>0, <1>8, ConstantsAssumption
      DEF TypeOK, StreamEnds, Goto, HandleIsLive, CancelledWasLive
    <2>5. LiveIsAbortable'
      BY <1>0, <1>8, ConstantsAssumption
      DEF TypeOK, StreamEnds, Goto, LiveIsAbortable, HandleIsLive, Claimed, At, InFlight,
          WithGlobal
    <2> QED
      BY <2>1, <2>2, <2>3, <2>4, <2>5 DEF Registries
  <1>9. ASSUME NEW c \in Calls, DropHandle(c)
        PROVE  Registries'
    <2>1. Claimed'
      BY <1>0, <1>9, ConstantsAssumption
      DEF TypeOK, DropHandle, Goto, Claimed, InFlight, WithGlobal
    <2>2. CancelledWasLive'
      BY <1>0, <1>9, ConstantsAssumption
      DEF TypeOK, DropHandle, Goto, CancelledWasLive, HandleIsLive
    <2>3. Entries'
      BY <1>0, <1>9, ConstantsAssumption
      DEF TypeOK, DropHandle, Goto, Entries, InFlight, WithGlobal
    <2>4. HandleIsLive'
      BY <1>0, <1>9, ConstantsAssumption
      DEF TypeOK, DropHandle, Goto, HandleIsLive, CancelledWasLive
    <2>5. LiveIsAbortable'
      <3> SUFFICES ASSUME NEW d \in Calls, pc'[d] \in {"send", "stream"}
                   PROVE  d \in cancelled \/ id[d] \in lapsed \/ handle'[id[d]] = d
        BY <1>9 DEF LiveIsAbortable, At, DropHandle
      <3>1. handle' = [handle EXCEPT ![id[c]] = None] /\ pc[c] = "unhandle" /\ id[c] \in Ids
        BY <1>9 DEF DropHandle, TypeOK
      <3>2. d # c /\ pc[d] \in {"send", "stream"} /\ id[d] \in Ids
        BY <1>9 DEF DropHandle, Goto, TypeOK
      <3>3. id[d] = id[c] => id[d] \in lapsed
        BY <1>0, <3>1, <3>2 DEF Claimed, InFlight, WithGlobal
      <3>4. d \in cancelled \/ id[d] \in lapsed \/ handle[id[d]] = d
        BY <1>0, <3>2 DEF LiveIsAbortable, At
      <3> QED
        BY <3>1, <3>2, <3>3, <3>4 DEF TypeOK
    <2> QED
      BY <2>1, <2>2, <2>3, <2>4, <2>5 DEF Registries
  <1>10. ASSUME NEW c \in Calls, DropClaim(c)
         PROVE  Registries'
    <2>1. Claimed'
      BY <1>0, <1>10, ConstantsAssumption
      DEF TypeOK, DropClaim, Goto, Claimed, InFlight, WithGlobal
    <2>2. CancelledWasLive'
      BY <1>0, <1>10, ConstantsAssumption
      DEF TypeOK, DropClaim, Goto, CancelledWasLive, HandleIsLive
    <2>3. Entries'
      BY <1>0, <1>10, ConstantsAssumption
      DEF TypeOK, DropClaim, Goto, Entries, InFlight, WithGlobal
    <2>4. HandleIsLive'
      BY <1>0, <1>10, ConstantsAssumption
      DEF TypeOK, DropClaim, Goto, HandleIsLive, CancelledWasLive
    <2>5. LiveIsAbortable'
      BY <1>0, <1>10, ConstantsAssumption
      DEF TypeOK, DropClaim, Goto, LiveIsAbortable, HandleIsLive, Claimed, At, InFlight,
          WithGlobal
    <2> QED
      BY <2>1, <2>2, <2>3, <2>4, <2>5 DEF Registries
  <1>11. ASSUME NEW i \in Ids, Abort(i)
         PROVE  Registries'
    <2>1. Claimed'
      BY <1>0, <1>11, ConstantsAssumption
      DEF TypeOK, Abort, TakeHandle, Claimed, InFlight, WithGlobal
    <2>2. CancelledWasLive'
      BY <1>0, <1>11, ConstantsAssumption
      DEF TypeOK, Abort, TakeHandle, CancelledWasLive, HandleIsLive
    <2>3. Entries'
      BY <1>0, <1>11, ConstantsAssumption
      DEF TypeOK, Abort, TakeHandle, Entries, InFlight, WithGlobal
    <2>4. HandleIsLive'
      BY <1>0, <1>11, ConstantsAssumption
      DEF TypeOK, Abort, TakeHandle, HandleIsLive, CancelledWasLive
    <2>5. LiveIsAbortable'
      BY <1>0, <1>11, ConstantsAssumption
      DEF TypeOK, Abort, TakeHandle, LiveIsAbortable, HandleIsLive, Claimed, At, InFlight,
          WithGlobal
    <2> QED
      BY <2>1, <2>2, <2>3, <2>4, <2>5 DEF Registries
  <1>12. ASSUME NEW i \in Ids, AbortClears(i)
         PROVE  Registries'
    <2>1. Claimed'
      BY <1>0, <1>12, ConstantsAssumption
      DEF TypeOK, AbortClears, Lapse, FlyingAs, At, Claimed, InFlight, WithGlobal
    <2>2. CancelledWasLive'
      BY <1>0, <1>12, ConstantsAssumption
      DEF TypeOK, AbortClears, Lapse, FlyingAs, At, CancelledWasLive, HandleIsLive
    <2>3. Entries'
      BY <1>0, <1>12, ConstantsAssumption
      DEF TypeOK, AbortClears, Lapse, FlyingAs, At, Entries, InFlight, WithGlobal
    <2>4. HandleIsLive'
      BY <1>0, <1>12, ConstantsAssumption
      DEF TypeOK, AbortClears, Lapse, FlyingAs, At, HandleIsLive, CancelledWasLive
    <2>5. LiveIsAbortable'
      BY <1>0, <1>12, ConstantsAssumption
      DEF TypeOK, AbortClears, Lapse, FlyingAs, At, LiveIsAbortable, HandleIsLive, Claimed,
          InFlight, WithGlobal
    <2> QED
      BY <2>1, <2>2, <2>3, <2>4, <2>5 DEF Registries
  <1>13. CASE Sweep
    <2>1. Claimed'
      BY <1>0, <1>13, ConstantsAssumption
      DEF TypeOK, Sweep, Lapse, FlyingAs, At, Stale, Claimed, InFlight, WithGlobal
    <2>2. CancelledWasLive'
      BY <1>0, <1>13, ConstantsAssumption
      DEF TypeOK, Sweep, Lapse, FlyingAs, At, Stale, CancelledWasLive, HandleIsLive
    <2>3. Entries'
      BY <1>0, <1>13, ConstantsAssumption
      DEF TypeOK, Sweep, Lapse, FlyingAs, At, Stale, Entries, InFlight, WithGlobal
    <2>4. HandleIsLive'
      BY <1>0, <1>13, ConstantsAssumption
      DEF TypeOK, Sweep, Lapse, FlyingAs, At, Stale, HandleIsLive, CancelledWasLive
    <2>5. LiveIsAbortable'
      BY <1>0, <1>13, ConstantsAssumption
      DEF TypeOK, Sweep, Lapse, FlyingAs, At, Stale, LiveIsAbortable, HandleIsLive,
          Claimed, InFlight, WithGlobal
    <2> QED
      BY <2>1, <2>2, <2>3, <2>4, <2>5 DEF Registries
  <1>14. CASE OthersAcquire \/ OthersRelease
    <2>1. Claimed'
      BY <1>0, <1>14, ConstantsAssumption
      DEF TypeOK, OthersAcquire, OthersRelease, Claimed, InFlight, WithGlobal
    <2>2. CancelledWasLive'
      BY <1>0, <1>14, ConstantsAssumption
      DEF TypeOK, OthersAcquire, OthersRelease, CancelledWasLive, HandleIsLive
    <2>3. Entries'
      BY <1>0, <1>14, ConstantsAssumption
      DEF TypeOK, OthersAcquire, OthersRelease, Entries, InFlight, WithGlobal
    <2>4. HandleIsLive'
      BY <1>0, <1>14, ConstantsAssumption
      DEF TypeOK, OthersAcquire, OthersRelease, HandleIsLive, CancelledWasLive
    <2>5. LiveIsAbortable'
      BY <1>0, <1>14, ConstantsAssumption
      DEF TypeOK, OthersAcquire, OthersRelease, LiveIsAbortable, HandleIsLive, Claimed, At,
          InFlight, WithGlobal
    <2> QED
      BY <2>1, <2>2, <2>3, <2>4, <2>5 DEF Registries
  <1>15. CASE Tick
    <2>1. Claimed'
      BY <1>0, <1>15, ConstantsAssumption DEF TypeOK, Tick, Ages, Claimed, InFlight, WithGlobal
    <2>2. CancelledWasLive'
      BY <1>0, <1>15, ConstantsAssumption DEF TypeOK, Tick, CancelledWasLive, HandleIsLive
    <2>3. Entries'
      BY <1>0, <1>15, ConstantsAssumption DEF TypeOK, Tick, Ages, Entries, InFlight, WithGlobal
    <2>4. HandleIsLive'
      BY <1>0, <1>15, ConstantsAssumption DEF TypeOK, Tick, HandleIsLive, CancelledWasLive
    <2>5. LiveIsAbortable'
      BY <1>0, <1>15, ConstantsAssumption
      DEF TypeOK, Tick, LiveIsAbortable, HandleIsLive, Claimed, At, InFlight, WithGlobal
    <2> QED
      BY <2>1, <2>2, <2>3, <2>4, <2>5 DEF Registries
  <1>16. CASE UNCHANGED vars
    BY <1>0, <1>16 DEF vars, Registries, Claimed, CancelledWasLive, Entries, HandleIsLive,
                     LiveIsAbortable, At
  <1> QED
    BY <1>1, <1>2, <1>3, <1>4, <1>5, <1>6, <1>7, <1>8, <1>9, <1>10, <1>11, <1>12, <1>13,
       <1>14, <1>15, <1>16
    DEF Next, Acquire, Proceed

LEMMA RegistriesInvariant == Spec => []Registries
  BY InitRegistries, StepRegistries, TypeCorrect, PTL DEF Spec

\* An id that was not aborted, evicted or expired under its call is in progress once.
THEOREM Deduplicated == Spec => []OneCallPerId
  <1>1. ASSUME Registries PROVE OneCallPerId
    <2> SUFFICES ASSUME NEW i \in Ids \ lapsed, NEW c \in FlyingAs(i), NEW d \in FlyingAs(i)
                 PROVE  c = d
      BY DEF OneCallPerId
    <2>1. /\ c \in Calls /\ pc[c] \in InFlight /\ id[c] = i
          /\ d \in Calls /\ pc[d] \in InFlight /\ id[d] = i
      BY DEF FlyingAs, At
    <2> QED
      BY <1>1, <2>1 DEF Registries, Claimed
  <1> QED
    BY <1>1, RegistriesInvariant, PTL

\* No entry outlives the calls of its id: every way out of chat and of its task removes it.
THEOREM NoEntryLeaks == Spec => []EntryIsLive
  <1>1. Registries => EntryIsLive
    BY DEF Registries, Entries, EntryIsLive, Cached, FlyingAs, At
  <1> QED
    BY <1>1, RegistriesInvariant, PTL

\* No handle outlives its call, and none of a cancelled call stays.
THEOREM NoHandleLeaks == Spec => []HandleIsLive
  <1>1. Registries => HandleIsLive
    BY DEF Registries
  <1> QED
    BY <1>1, RegistriesInvariant, PTL

\* Both together: what a call put into the cache and the registry is gone with it.
THEOREM NothingStays == Spec => []NothingLeaks
  BY NoEntryLeaks, NoHandleLeaks, PTL DEF NothingLeaks

\* An abort reaches every call that sends or streams under an id that has not lapsed.
THEOREM AbortReaches == Spec => []LiveIsAbortable
  <1>1. Registries => LiveIsAbortable
    BY DEF Registries
  <1> QED
    BY <1>1, RegistriesInvariant, PTL
=============================================================================
