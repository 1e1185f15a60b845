--------------------------------- MODULE Steps ---------------------------------
(* The parts of the program whose promises are both checked, by MCSteps on    *)
(* small instances, and proved, in ViewsProofs and StepsProofs. They share    *)
(* nothing: each is an instance of its module over variables of its own.      *)
(* Where two modules call a variable or a constant by the same name, the      *)
(* instance of one gives it another.                                          *)
EXTENDS Integers, Sequences, FiniteSets

CONSTANTS
  RagFiles, Texts, NonUtf8, Embedders, RagRuns, Clients, None, MaxAttempts,
  MaxEdits, MaxFaults, MaxCrashes,                  (* R: the indexing       *)
  Chats, NoChat, MaxLooks, MaxActs, MaxTitlings, MaxErrors,
  MaxStarts,                                        (* C: the conversations  *)
  Models, NoModel, MaxPulls, MaxAborts, MaxTold,    (* P: the pulls          *)
  IpcCommands, Trace, LatencyBudget, TimeoutMultiplier, DefaultTimeout,
  Throttle, HistoryMax, MaxAsked, MaxTime, MaxHides, (* T: the transport      *)
  Urls, Valid, Clean, DefaultUrl, MaxTouches, MaxChecks,
  MaxTurns,                                         (* A: the address        *)
  Version, Stores, Stored, MaxSaves, MaxLapses,
  MaxRestarts,                                      (* H: the settings       *)
  Servers, HeldBy, MaxLists, MaxDeeds, MaxFailures, (* M: the model lists    *)
  Projects, NoProject, Paths, NoPath, Holds, MaxChoices,
  MaxCalls,                                         (* F: the project files  *)
  Queries, Blank, Hits, MaxRecent, MaxTyped,
  MaxOpens,                                         (* Q: the search         *)
  Diagrams, Contents, Empty, Unsupported, Broken, Themes, FirstTheme,
  MaxChanges,                                       (* D: the diagrams       *)
  Cards, MaxLoads, MaxCardActs, MaxVisits,          (* W: the project cards  *)
  Words, Chars, Arabic, System, ModelWindow, Tunings, MinReserve, RagMax,
  MaxAsks, MaxTweaks,                               (* B: the prompt         *)
  Cmds, Shared, Features, MaxCommits, MaxPushes,    (* G: the gates          *)
  Offered, PickerLists, MaxKeys,                    (* K: the model selector *)
  OldIds, MaxUpgrades,                              (* U: the migrations     *)
  SideChats, Header, SideLists, Matching, SideShown, SideMore,
  MaxSideDeeds,                                     (* N: the sidebar        *)
  Modals, NoModal, MaxAdds                          (* O: the dialogs        *)

VARIABLES
  disk, exists, model, status, hash, vec, slot, cancelled, writer, readers,
  pc, attempt, using, force, seen, todo, gone, current, transient, edits,
  faults, crashes,
  stored, shown, open, lastOpen, sent, making, start, listed, naming,
  titlings, errors, starts, acts, byUser, wasOpen, upset,
  pulls, pullHandle, told, pullStatus, listing, fading, aborting, abortCount,
  doubled, amiss,
  now, calls, callCount, violationCount, lastTraceAt, history, asked, hides,
  address, lastValid, verifying, awaited, listsAsked, checks, lost, conn,
  linked, up, touches, checkCount, turns, shownFor,
  mem, file, late, boot, migrated, screen, saves, others, pending, hydrated,
  restarts, lapses, atStart, flawed, before,
  installed, serving, server, modelCalls, modelsListed, listError,
  selectedModel, tuned, booted, moved, deleting, known, capsCalls, capsFailed,
  deeds, failures, crossedList,
  chosen, contexts, cited, explorer, listCalls, spinning, tree, viewed,
  chunkCalls, chunks, callsMade, choices, overtaken,
  searchOpen, opens, query, found, foundFor, searching, failed, requestId,
  pausing, searched, activeHit, recent, shownChat, typed,
  fence, look, configured, drawings, onPage, rendering, generation, renders,
  changes, caughtUp,
  ragRows, indexings, events, shownOn, cardIds, loads, answers, listOpen,
  ears, leaked, active, cardDialog, cardActs, visits, crossed,
  talk, tuning, stage, job, walkAt, slice, spent, asks, tweaks,
  repo, commits, pushes, clean,
  pickerList, picked, pickerOpen, row, matching, focus, keysMade,
  storeKind, storeData, schema, upgrades, via, legacy,
  sideIds, age, titled, sought, soughtNext, soughtSoon, loaded, onTop, rows,
  focused, blurring, asking, menus, sideDeeds,
  modal, leaving, own, sidebarTab, collapsed, narrow, showAdd, form, forms,
  adding, onScreen, streaming, creating, keys

R == INSTANCE RagIndexing WITH
       Files <- RagFiles, Models <- Embedders, Runs <- RagRuns
C == INSTANCE Conversations WITH MaxFaults <- MaxErrors
P == INSTANCE ModelPulls
T == INSTANCE IpcTransport WITH
       Commands <- IpcCommands, Budget <- LatencyBudget, MaxCalls <- MaxAsked
A == INSTANCE OllamaAddress
H == INSTANCE StorePersistence WITH
       MaxChanges <- MaxSaves, MaxFaults <- MaxLapses, disk <- file,
       faults <- lapses
M == INSTANCE ModelLists WITH
       Holds <- HeldBy, MaxFaults <- MaxFailures, listed <- modelsListed,
       faults <- failures
F == INSTANCE RagReading
Q == INSTANCE MessageSearch WITH asked <- searched
D == INSTANCE DiagramRender WITH Blank <- Empty
W == INSTANCE RagWindow WITH
       Projects <- Cards, MaxActs <- MaxCardActs, shown <- shownOn,
       open <- listOpen, dialog <- cardDialog, acts <- cardActs
B == INSTANCE PromptAssembly WITH
       Texts <- Words, MaxTurns <- MaxAsks, MaxTouches <- MaxTweaks,
       turns <- asks, touches <- tweaks
G == INSTANCE RepositoryGates WITH edits <- commits, MaxEdits <- MaxCommits
K == INSTANCE ModelPicker WITH Models <- Offered, Lists <- PickerLists
U == INSTANCE StoreMigrations WITH
       Ids <- OldIds, MaxRuns <- MaxUpgrades, kind <- storeKind,
       data <- storeData, runs <- upgrades
N == INSTANCE SidebarList WITH
       Chats <- SideChats, Lists <- SideLists, Shown <- SideShown,
       More <- SideMore, MaxDeeds <- MaxSideDeeds, current <- onTop
O == INSTANCE WindowShell WITH Kinds <- Modals, NoKind <- NoModal

-----------------------------------------------------------------------------
(* The promises of the parts, those of one kind under one name.               *)

(* No late answer is shown as the answer to a later question: the state of    *)
(* the connection is of the address in the settings, files and chunks are of  *)
(* the chosen project, the hits of the query, the drawing of the fence, and   *)
(* the list of models is that of the server, but for the overtakings that     *)
(* the modules name.                                                          *)
NoStaleAnswer ==
  /\ A!ShownIsOfAddress /\ F!ShownIsOfTheProject /\ Q!FoundIsOfTheQuery
  /\ D!ShowsItsFenceUnlessCaughtUp /\ M!ListIsInstalled

(* What the window lists is what the database holds: the conversations, and   *)
(* the cards of the projects with their status; and no row says "indexing"    *)
(* while no run is there to end it.                                           *)
ViewsTellTheStore ==
  C!ShownIsStored /\ W!CardsTellTheRows /\ R!NotStuckIndexing

(* What is to be asked or told once is: the title of a conversation and the   *)
(* capabilities of a model are asked once at a time, a failed call reaches    *)
(* the user once, a command is traced once in a window of the throttle, and   *)
(* no call that ended is missing from the counts.                             *)
AskedAndToldOnce ==
  /\ C!PendingIsExact /\ M!AskedOnce
  /\ T!ReportedOnce /\ T!TracesArePaced /\ T!StatsCoverCalls

(* A handle is of a task that pulls, and a pull that runs alone has one, so   *)
(* that an abort reaches it.                                                  *)
AbortsReachThePull == P!AbortsReachThePull

(* The window counts as hydrated once every store is read back, then shows    *)
(* the settings that were saved, and no older save undoes a newer one.        *)
SettingsSurvive == H!SettingsSurvive

(* The prompt leaves the answer its room, and its history is the newest part  *)
(* of the conversation without a gap.                                         *)
PromptFits == B!PromptFits

(* What passed the gates of a push is consistent: commands, permissions,      *)
(* manifests, contracts, translations and the imports of the features.        *)
GatesLetNothingThrough ==
  /\ G!RegisteredIsReachable /\ G!ManifestsTellTheTruth
  /\ G!CopiesAgree /\ G!OneDoor

(* Upgrades and rollbacks lose no project and leave every setting with a      *)
(* value, the one that was chosen if its field was kept.                      *)
UpgradesKeepData == U!ProjectsSurvive /\ U!SettingsComplete

(* The row that is marked, and the row that has an editor, is one of the list *)
(* on the screen, whatever the list becomes meanwhile.                        *)
RowsAreOfTheirLists ==
  Q!RowIsAResult /\ K!RowIsOfTheList /\ N!EditorIsOfItsRow

(* What the user did is not undone: a typed title by that of the model, the   *)
(* tuning of a model by the lists of the server, an abort by its pull, and a  *)
(* migrated store by a migration that runs again on its own result.           *)
UserDeedsStay ==
  /\ C!TypedTitleStays /\ M!TuningStays
  /\ P!AbortStops /\ U!AgainChangesNothing

(* A project becomes ready only when its index has what the files held when   *)
(* the run read them.                                                         *)
ReadyIsFresh == R!ReadyIsFresh
================================================================================
