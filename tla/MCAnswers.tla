------------------------------ MODULE MCAnswers ------------------------------
(* What was asked is answered: six more parts that share nothing, checked     *)
(* side by side as in MCEndings. A behaviour is one of them alone, chosen at  *)
(* the start; the others keep their first state.                              *)
EXTENDS Integers, Sequences, FiniteSets, TLC

CONSTANTS c1, r1, r2, m1, m2, p1, f1, None, Old

VARIABLES
  part,
  store, current, open, calls, sent, backend, stored, loads, loaded, booting,
  edits, removals, disturbed,
  mem, disk, late, boot, migrated, screen, saves, others, pending, hydrated,
  restarts, faults, atStart, flawed, before,
  installed, serving, server, modelCalls, listed, listError, selectedModel,
  tuned, booted, moved, deleting, known, capsCalls, capsFailed, deeds, lapses,
  crossedList,
  chosen, contexts, cited, explorer, listCalls, spinning, tree, viewed,
  chunkCalls, chunks, callsMade, choices, overtaken,
  searchOpen, opens, query, found, foundFor, searching, failed, requestId,
  pausing, asked, activeHit, recent, shownChat, typed,
  fence, look, configured, drawings, onPage, rendering, generation, renders,
  changes, caughtUp

streamsPart == <<store, current, open, calls, sent, backend, stored, loads,
                 loaded, booting, edits, removals, disturbed>>
settingsPart == <<mem, disk, late, boot, migrated, screen, saves, others,
                  pending, hydrated, restarts, faults, atStart, flawed, before>>
modelsPart == <<installed, serving, server, modelCalls, listed, listError,
                selectedModel, tuned, booted, moved, deleting, known,
                capsCalls, capsFailed, deeds, lapses, crossedList>>
filesPart == <<chosen, contexts, cited, explorer, listCalls, spinning, tree,
               viewed, chunkCalls, chunks, callsMade, choices, overtaken>>
searchPart == <<searchOpen, opens, query, found, foundFor, searching, failed,
                requestId, pausing, asked, activeHit, recent, shownChat, typed>>
diagramPart == <<fence, look, configured, drawings, onPage, rendering,
                 generation, renders, changes, caughtUp>>
allVars == <<part, streamsPart, settingsPart, modelsPart, filesPart,
             searchPart, diagramPart>>

(* Two sends of one conversation whose answers have no text: only how they    *)
(* end matters here.                                                          *)
S == INSTANCE ChatStreams WITH
       Convs <- {c1}, Requests <- {r1, r2}, MaxTokens <- 0, Lossy <- FALSE,
       MaxEdits <- 0, MaxRemovals <- 0
H == INSTANCE StorePersistence WITH
       Version <- 5, Stores <- 3, Stored <- {2, 4, 5}, MaxChanges <- 1,
       MaxFaults <- 1, MaxRestarts <- 1
M == INSTANCE ModelLists WITH
       Models <- {m1, m2}, NoModel <- None, Servers <- {"home", "lan"},
       Holds <- "home" :> {m1, m2} @@ "lan" :> {m2}, MaxLists <- 1,
       MaxDeeds <- 1, MaxFaults <- 1, faults <- lapses
F == INSTANCE RagReading WITH
       Projects <- {p1}, NoProject <- None, Paths <- {f1}, NoPath <- None,
       Holds <- p1 :> {f1}, MaxChoices <- 2, MaxCalls <- 3
Q == INSTANCE MessageSearch WITH
       Queries <- {"q1", "q2"}, Blank <- "", Hits <- {<<>>, <<"c1", "c2">>},
       MaxRecent <- 1, MaxTyped <- 3, MaxOpens <- 2
D == INSTANCE DiagramRender WITH
       Diagrams <- {"d1"}, Contents <- {"", "flow", "xychart", "typo"},
       Blank <- "", Unsupported <- {"xychart"}, Broken <- {"typo"},
       Themes <- {"light", "dark"}, FirstTheme <- "light", MaxChanges <- 3

ASSUME AnswersAssumption ==
  /\ H!PersistenceAssumption /\ M!ListsAssumption /\ F!ReadingAssumption
  /\ Q!SearchAssumption /\ D!DiagramAssumption

Init ==
  /\ part \in {"streams", "settings", "models", "files", "search", "diagrams"}
  /\ S!Init /\ H!Init /\ M!Init /\ F!Init /\ Q!Init /\ D!Init
  /\ part # "streams" => current = c1 /\ open = {c1} /\ booting = {}
  /\ part # "settings" => ~mem.data.here
  /\ part # "models" => server = "home" /\ selectedModel = None /\ tuned = {}
  /\ part # "files" => chosen = None

StreamsStep(A1) == part = "streams" /\ A1
  /\ UNCHANGED <<part, settingsPart, modelsPart, filesPart, searchPart, diagramPart>>
SettingsStep(A1) == part = "settings" /\ A1
  /\ UNCHANGED <<part, streamsPart, modelsPart, filesPart, searchPart, diagramPart>>
ModelsStep(A1) == part = "models" /\ A1
  /\ UNCHANGED <<part, streamsPart, settingsPart, filesPart, searchPart, diagramPart>>
FilesStep(A1) == part = "files" /\ A1
  /\ UNCHANGED <<part, streamsPart, settingsPart, modelsPart, searchPart, diagramPart>>
SearchStep(A1) == part = "search" /\ A1
  /\ UNCHANGED <<part, streamsPart, settingsPart, modelsPart, filesPart, diagramPart>>
DiagramStep(A1) == part = "diagrams" /\ A1
  /\ UNCHANGED <<part, streamsPart, settingsPart, modelsPart, filesPart, searchPart>>

Next ==
  \/ StreamsStep(S!Next) \/ SettingsStep(H!Next) \/ ModelsStep(M!Next)
  \/ FilesStep(F!Next) \/ SearchStep(Q!Next) \/ DiagramStep(D!Next)

(* The fairness of each part, as its FairSpec states it: as one part alone    *)
(* moves, fairness to a choice of steps of several parts is fairness to each. *)
ChatEvents(r) == S!Token(r) \/ S!DoneToken(r) \/ S!ErrorEvent(r)
Fairness ==
  /\ WF_allVars(\/ StreamsStep(S!RagReplies(r1)) \/ SettingsStep(H!BootStep)
                \/ ModelsStep(M!CapsAnswered(<<"home", m1>>))
                \/ FilesStep(F!ListAnswers) \/ SearchStep(Q!Pauses)
                \/ DiagramStep(D!SomeStarts))
  /\ WF_allVars(\/ StreamsStep(S!RagReplies(r2))
                \/ SettingsStep(H!OtherStoreRehydrated)
                \/ ModelsStep(M!CapsAnswered(<<"home", m2>>))
                \/ SearchStep(Q!Answers) \/ DiagramStep(D!SomeResolves))
  /\ WF_allVars(\/ StreamsStep(ChatEvents(r1)) \/ SettingsStep(H!SaveStep(0))
                \/ ModelsStep(M!CapsAnswered(<<"lan", m1>>)))
  /\ WF_allVars(\/ StreamsStep(ChatEvents(r2)) \/ SettingsStep(H!SaveStep(1))
                \/ ModelsStep(M!CapsAnswered(<<"lan", m2>>)))

FairSpec == Init /\ [][Next]_allVars /\ Fairness

-----------------------------------------------------------------------------
(* The properties of the parts, those of one promise under one name.          *)

(* A registered stream is resolved or replaced in the end.                    *)
StreamResolves == S!StreamResolves

(* The window is hydrated in the end, whichever command of the boot fails.    *)
HydrationEnds == part = "settings" => H!HydrationEnds

(* After a boot that found models one of them is selected, and the context    *)
(* window of the model that is shown becomes known or known to be missing.    *)
ModelIsReady == M!BootSelects /\ (part = "models" => M!WindowIsKnown)

(* No spinner turns for ever: the explorer, the search and the diagrams stop  *)
(* loading, however answers are lost, fail or cross.                          *)
SpinnersStop == F!LoadingEnds /\ Q!SearchingEnds /\ D!RenderingEnds
=============================================================================
