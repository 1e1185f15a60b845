------------------------------ MODULE MCEndings ------------------------------
(* What was begun ends: five parts of the program that share nothing, checked *)
(* side by side. A behaviour is one of them alone, chosen at the start; the   *)
(* others keep their first state. (MCSteps has larger instances of them.)     *)
EXTENDS Integers, Sequences, FiniteSets, TLC

CONSTANTS f1, t1, m1, r1, c1, None, NonUtf8

VARIABLES
  part,
  disk, exists, model, status, hash, vec, slot, cancelled, writer, readers,
  pc, attempt, using, force, seen, todo, gone, current, transient, edits,
  faults, crashes,
  stored, shown, open, lastOpen, sent, making, start, listed, naming,
  titlings, errors, starts, acts, byUser, wasOpen, upset,
  pulls, pullHandle, told, pullStatus, listing, fading, aborting, abortCount,
  doubled, amiss,
  now, calls, callCount, violationCount, lastTraceAt, history, asked, hides,
  address, lastValid, verifying, awaited, listsAsked, checks, lost, conn,
  linked, up, touches, checkCount, turns, shownFor

ragPart == <<disk, exists, model, status, hash, vec, slot, cancelled, writer,
             readers, pc, attempt, using, force, seen, todo, gone, current,
             transient, edits, faults, crashes>>
chatsPart == <<stored, shown, open, lastOpen, sent, making, start, listed,
               naming, titlings, errors, starts, acts, byUser, wasOpen, upset>>
pullsPart == <<pulls, pullHandle, told, pullStatus, listing, fading, aborting,
               abortCount, doubled, amiss>>
callsPart == <<now, calls, callCount, violationCount, lastTraceAt, history,
               asked, hides>>
addressPart == <<address, lastValid, verifying, awaited, listsAsked, checks,
                 lost, conn, linked, up, touches, checkCount, turns, shownFor>>
allVars == <<part, ragPart, chatsPart, pullsPart, callsPart, addressPart>>

(* One run over one file, with faults in both attempts and another user of    *)
(* the guard.                                                                 *)
W == INSTANCE RagIndexing WITH
       Files <- {f1}, Texts <- {t1}, Models <- {m1}, Runs <- {r1},
       Clients <- {c1}, MaxAttempts <- 2, MaxEdits <- 0, MaxFaults <- 2,
       MaxCrashes <- 0
C == INSTANCE Conversations WITH
       Chats <- {c1}, NoChat <- None, MaxLooks <- 2, MaxActs <- 1,
       MaxTitlings <- 2, MaxFaults <- 1, MaxStarts <- 2
P == INSTANCE ModelPulls WITH
       Models <- {m1}, NoModel <- None, MaxPulls <- 2, MaxAborts <- 1,
       MaxTold <- 2
T == INSTANCE IpcTransport WITH
       Commands <- {"chat", "trace", "list"}, Trace <- "trace",
       Budget <- "chat" :> 1 @@ "trace" :> 1 @@ "list" :> 0,
       TimeoutMultiplier <- 2, DefaultTimeout <- 2, Throttle <- 3,
       HistoryMax <- 2, MaxCalls <- 1, MaxTime <- 6, MaxHides <- 1
Urls == {"home", "home/api", "lan", "web"}
A == INSTANCE OllamaAddress WITH
       Valid <- Urls \ {"web"},
       Clean <- [u \in Urls |-> IF u = "home/api" THEN "home" ELSE u],
       DefaultUrl <- "home", MaxTouches <- 3, MaxChecks <- 1, MaxTurns <- 1

ASSUME EndingsAssumption ==
  /\ C!ConversationsAssumption /\ P!PullsAssumption
  /\ T!TransportAssumption /\ A!AddressAssumption

Init ==
  /\ part \in {"waits", "chats", "pulls", "calls", "address"}
  /\ W!Init
  /\ part # "waits" => status = "idle" /\ disk = [f \in {f1} |-> t1]
  /\ C!Init /\ P!Init /\ T!Init /\ A!Init

WaitsStep(A1) == part = "waits" /\ A1
  /\ UNCHANGED <<part, chatsPart, pullsPart, callsPart, addressPart>>
ChatsStep(A1) == part = "chats" /\ A1
  /\ UNCHANGED <<part, ragPart, pullsPart, callsPart, addressPart>>
PullsStep(A1) == part = "pulls" /\ A1
  /\ UNCHANGED <<part, ragPart, chatsPart, callsPart, addressPart>>
CallsStep(A1) == part = "calls" /\ A1
  /\ UNCHANGED <<part, ragPart, chatsPart, pullsPart, addressPart>>
AddressStep(A1) == part = "address" /\ A1
  /\ UNCHANGED <<part, ragPart, chatsPart, pullsPart, callsPart>>

Next ==
  \/ WaitsStep(W!Next) \/ ChatsStep(C!Next)
  \/ PullsStep(P!Next) \/ CallsStep(T!Next) \/ AddressStep(A!Next)

(* The fairness of each part, as its FairSpec states it: as one part alone    *)
(* moves, fairness to a choice of steps of several parts is fairness to each. *)
Fairness ==
  /\ SF_allVars(WaitsStep(W!Acquire(r1)))
  /\ WF_allVars(\/ WaitsStep(W!Proceed(r1)) \/ ChatsStep(C!Boot)
                \/ PullsStep(P!Hear) \/ CallsStep(T!Tick)
                \/ AddressStep(A!Answers))
  /\ WF_allVars(\/ WaitsStep(W!Release(c1)) \/ ChatsStep(C!TitleStep(1))
                \/ PullsStep(P!Answered(1)) \/ CallsStep(T!GiveUps))
  /\ WF_allVars(\/ ChatsStep(C!TitleStep(2)) \/ PullsStep(P!Answered(2)))
  /\ \A i \in 1..2 : WF_allVars(PullsStep(P!TaskEnds(i)))
  /\ WF_allVars(PullsStep(P!Listed(m1))) /\ WF_allVars(PullsStep(P!Fade(m1)))

FairSpec == Init /\ [][Next]_allVars /\ Fairness

-----------------------------------------------------------------------------
(* The properties of the parts, those of one promise under one name.          *)

(* Every run of the indexing ends, under faults, retries and a busy guard.    *)
EveryRunEnds == part = "waits" => W!EveryRunEnds

(* A run cancelled before its vectors are there never ends ready, through any *)
(* number of attempts.                                                        *)
CancelledRunNeverReady == W!CancelledRunNeverReady

(* A window that starts opens a conversation, whichever call fails.           *)
WindowOpens == part = "chats" => C!WindowOpens

(* The status of a pull goes away, however the pull ends.                     *)
StatusGoes == P!StatusGoes

(* What was asked in the background is over in the end: the calls of the      *)
(* transport, the titlings, the check of the address.                         *)
WorkEnds == T!CallsComeBack /\ C!TitlingsEnd /\ A!ConnectingEnds
=============================================================================
