-------------------------------- MODULE MCSteps --------------------------------
(* What no step may break: the parts of MCEndings and MCAnswers in larger     *)
(* instances, and the parts that have nothing to wait for, side by side. A    *)
(* behaviour is one of them alone, chosen at the start; the others keep       *)
(* their first state. Where two parts call a variable by the same name, the   *)
(* instance of one gives it another.                                          *)
EXTENDS Steps, TLC

CONSTANTS f1, f2, t1, t2, m1, m2, m3, r1, c1, c2, c3, p1, p2

(* The values of the constants of Steps that are not given in the cfg.        *)
TheBudgets == "chat" :> 1 @@ "trace" :> 1 @@ "list" :> 0
TheUrls == {"home", "home/api", "lan", "web"}
Trimmed == [u \in TheUrls |-> IF u = "home/api" THEN "home" ELSE u]
TheModels == "home" :> {m1, m2} @@ "lan" :> {m2}
TheFiles == p1 :> {f1, f2} @@ p2 :> {f1}
TheHits == {<<>>, <<"c1", "c2">>}
TheLengths == "" :> 0 @@ "hi" :> 4 @@ "salam" :> 5
TheTunings == {[ctx |-> 12, predict |-> 3], [ctx |-> 5, predict |-> -1]}
TheConversations == {<<c1, c2>>}
TheLists == {<<>>, <<m1, m2, m3>>, <<m3, m1>>}

VARIABLES
  part,
  dialog, palette, paletteQuery, rowAt, shop, inUse, clearing, ran, lists

ragPart == <<disk, exists, model, status, hash, vec, slot, cancelled, writer,
             readers, pc, attempt, using, force, seen, todo, gone, current,
             transient, edits, faults, crashes>>
chatsPart == <<stored, shown, open, lastOpen, sent, making, start, listed,
               naming, titlings, errors, starts, acts, byUser, wasOpen,
               upset>>
pullsPart == <<pulls, pullHandle, told, pullStatus, listing, fading, aborting,
               abortCount, doubled, amiss>>
callsPart == <<now, calls, callCount, violationCount, lastTraceAt, history,
               asked, hides>>
addressPart == <<address, lastValid, verifying, awaited, listsAsked, checks,
                 lost, conn, linked, up, touches, checkCount, turns,
                 shownFor>>
settingsPart == <<mem, file, late, boot, migrated, screen, saves, others,
                  pending, hydrated, restarts, lapses, atStart, flawed,
                  before>>
modelsPart == <<installed, serving, server, modelCalls, modelsListed,
                listError, selectedModel, tuned, booted, moved, deleting,
                known, capsCalls, capsFailed, deeds, failures, crossedList>>
filesPart == <<chosen, contexts, cited, explorer, listCalls, spinning, tree,
               viewed, chunkCalls, chunks, callsMade, choices, overtaken>>
searchPart == <<searchOpen, opens, query, found, foundFor, searching, failed,
                requestId, pausing, searched, activeHit, recent, shownChat,
                typed>>
diagramPart == <<fence, look, configured, drawings, onPage, rendering,
                 generation, renders, changes, caughtUp>>
cardsPart == <<ragRows, indexings, events, shownOn, cardIds, loads, answers,
               listOpen, ears, leaked, active, cardDialog, cardActs, visits,
               crossed>>
promptPart == <<talk, tuning, stage, job, walkAt, slice, spent, asks, tweaks>>
gatesPart == <<repo, commits, pushes, clean>>
schemaPart == <<storeKind, storeData, schema, upgrades, via, legacy>>
pickerPart == <<pickerList, picked, pickerOpen, row, matching, focus,
                keysMade>>
palettePart == <<dialog, palette, paletteQuery, rowAt, shop, inUse, clearing,
                 ran, lists>>
sidebarPart == <<sideIds, age, titled, sought, soughtNext, soughtSoon, loaded,
                 onTop, rows, focused, blurring, asking, menus, sideDeeds>>
shellPart == <<modal, leaving, own, sidebarTab, collapsed, narrow, showAdd,
               form, forms, adding, onScreen, streaming, creating, keys>>
allVars == <<part, ragPart, chatsPart, pullsPart, callsPart, addressPart,
             settingsPart, modelsPart, filesPart, searchPart, diagramPart,
             cardsPart, promptPart, gatesPart, schemaPart, pickerPart,
             palettePart, sidebarPart, shellPart>>

L == INSTANCE CommandPalette WITH
       Chats <- {"c1", "c2"}, Models <- {"m1"}, NoChat <- "none",
       Listings <- {[chats |-> <<"c1", "c2">>, models |-> <<"m1">>], [chats |-> <<"c2">>, models |-> <<>>]},
       Queries <- {"", "s", "zz"}, Blank <- "",
       Matches <- "" :> {} @@ "zz" :> {} @@ "s" :> {"settings", "search", "c1", "m1", "cheatsheet"},
       MaxRecent <- 1, MaxRuns <- 2, MaxLists <- 1

ASSUME StepsAssumption ==
  /\ C!ConversationsAssumption /\ P!PullsAssumption /\ T!TransportAssumption
  /\ A!AddressAssumption /\ H!PersistenceAssumption /\ M!ListsAssumption
  /\ F!ReadingAssumption /\ Q!SearchAssumption /\ D!DiagramAssumption
  /\ W!WindowAssumption /\ B!PromptAssumption /\ G!GatesAssumption
  /\ U!MigrationsAssumption /\ K!PickerAssumption /\ L!PaletteAssumption
  /\ N!SidebarAssumption /\ O!ShellAssumption

Init ==
  /\ part \in {"waits", "chats", "pulls", "calls", "address", "settings",
              "models", "files", "search", "diagrams", "cards", "prompt",
              "gates", "schemas", "picker", "palette", "sidebar", "shell"}
  /\ R!Init /\ (part # "waits" =>
       status = "idle" /\ disk = [f \in {f1, f2} |-> t1])
  /\ C!Init /\ P!Init /\ T!Init /\ A!Init
  /\ H!Init /\ (part # "settings" => ~mem.data.here)
  /\ tuned = {m1, m2}
  /\ M!Init /\ (part # "models" => server = "home" /\ selectedModel = None)
  /\ F!Init /\ (part # "files" => chosen = None)
  /\ Q!Init /\ D!Init
  /\ W!Init /\ (part # "cards" => 
       /\ ragRows = [p \in {p1} |-> "new"]
       /\ shownOn = [p \in {p1} |-> "none"]
       /\ active = None)
  /\ B!Init /\ (part # "prompt" => tuning.ctx = 12)
  /\ G!Init /\ (part # "gates" => repo = G!Wired({}))
  /\ U!Init /\ (part # "schemas" => 
       /\ storeKind = "settings"
       /\ schema = U!Latest
       /\ storeData = [f \in U!Fields |-> "chosen"])
  /\ K!Init /\ (part # "picker" => pickerList = <<>> /\ picked = None)
  /\ L!Init /\ (part # "palette" => shop.models = <<>>)
  /\ N!Init /\ (part # "sidebar" => age = [c \in {c1, c2, c3} |-> "older"])
  /\ O!Init

WaitsStep(A1) == part = "waits" /\ A1
  /\ UNCHANGED <<part, chatsPart, pullsPart, callsPart, addressPart,
                settingsPart, modelsPart, filesPart, searchPart, diagramPart,
                cardsPart, promptPart, gatesPart, schemaPart, pickerPart,
                palettePart, sidebarPart, shellPart>>
ChatsStep(A1) == part = "chats" /\ A1
  /\ UNCHANGED <<part, ragPart, pullsPart, callsPart, addressPart,
                settingsPart, modelsPart, filesPart, searchPart, diagramPart,
                cardsPart, promptPart, gatesPart, schemaPart, pickerPart,
                palettePart, sidebarPart, shellPart>>
PullsStep(A1) == part = "pulls" /\ A1
  /\ UNCHANGED <<part, ragPart, chatsPart, callsPart, addressPart,
                settingsPart, modelsPart, filesPart, searchPart, diagramPart,
                cardsPart, promptPart, gatesPart, schemaPart, pickerPart,
                palettePart, sidebarPart, shellPart>>
CallsStep(A1) == part = "calls" /\ A1
  /\ UNCHANGED <<part, ragPart, chatsPart, pullsPart, addressPart,
                settingsPart, modelsPart, filesPart, searchPart, diagramPart,
                cardsPart, promptPart, gatesPart, schemaPart, pickerPart,
                palettePart, sidebarPart, shellPart>>
AddressStep(A1) == part = "address" /\ A1
  /\ UNCHANGED <<part, ragPart, chatsPart, pullsPart, callsPart, settingsPart,
                modelsPart, filesPart, searchPart, diagramPart, cardsPart,
                promptPart, gatesPart, schemaPart, pickerPart, palettePart,
                sidebarPart, shellPart>>
SettingsStep(A1) == part = "settings" /\ A1
  /\ UNCHANGED <<part, ragPart, chatsPart, pullsPart, callsPart, addressPart,
                modelsPart, filesPart, searchPart, diagramPart, cardsPart,
                promptPart, gatesPart, schemaPart, pickerPart, palettePart,
                sidebarPart, shellPart>>
ModelsStep(A1) == part = "models" /\ A1
  /\ UNCHANGED <<part, ragPart, chatsPart, pullsPart, callsPart, addressPart,
                settingsPart, filesPart, searchPart, diagramPart, cardsPart,
                promptPart, gatesPart, schemaPart, pickerPart, palettePart,
                sidebarPart, shellPart>>
FilesStep(A1) == part = "files" /\ A1
  /\ UNCHANGED <<part, ragPart, chatsPart, pullsPart, callsPart, addressPart,
                settingsPart, modelsPart, searchPart, diagramPart, cardsPart,
                promptPart, gatesPart, schemaPart, pickerPart, palettePart,
                sidebarPart, shellPart>>
SearchStep(A1) == part = "search" /\ A1
  /\ UNCHANGED <<part, ragPart, chatsPart, pullsPart, callsPart, addressPart,
                settingsPart, modelsPart, filesPart, diagramPart, cardsPart,
                promptPart, gatesPart, schemaPart, pickerPart, palettePart,
                sidebarPart, shellPart>>
DiagramsStep(A1) == part = "diagrams" /\ A1
  /\ UNCHANGED <<part, ragPart, chatsPart, pullsPart, callsPart, addressPart,
                settingsPart, modelsPart, filesPart, searchPart, cardsPart,
                promptPart, gatesPart, schemaPart, pickerPart, palettePart,
                sidebarPart, shellPart>>
CardsStep(A1) == part = "cards" /\ A1
  /\ UNCHANGED <<part, ragPart, chatsPart, pullsPart, callsPart, addressPart,
                settingsPart, modelsPart, filesPart, searchPart, diagramPart,
                promptPart, gatesPart, schemaPart, pickerPart, palettePart,
                sidebarPart, shellPart>>
PromptStep(A1) == part = "prompt" /\ A1
  /\ UNCHANGED <<part, ragPart, chatsPart, pullsPart, callsPart, addressPart,
                settingsPart, modelsPart, filesPart, searchPart, diagramPart,
                cardsPart, gatesPart, schemaPart, pickerPart, palettePart,
                sidebarPart, shellPart>>
GatesStep(A1) == part = "gates" /\ A1
  /\ UNCHANGED <<part, ragPart, chatsPart, pullsPart, callsPart, addressPart,
                settingsPart, modelsPart, filesPart, searchPart, diagramPart,
                cardsPart, promptPart, schemaPart, pickerPart, palettePart,
                sidebarPart, shellPart>>
SchemasStep(A1) == part = "schemas" /\ A1
  /\ UNCHANGED <<part, ragPart, chatsPart, pullsPart, callsPart, addressPart,
                settingsPart, modelsPart, filesPart, searchPart, diagramPart,
                cardsPart, promptPart, gatesPart, pickerPart, palettePart,
                sidebarPart, shellPart>>
PickerStep(A1) == part = "picker" /\ A1
  /\ UNCHANGED <<part, ragPart, chatsPart, pullsPart, callsPart, addressPart,
                settingsPart, modelsPart, filesPart, searchPart, diagramPart,
                cardsPart, promptPart, gatesPart, schemaPart, palettePart,
                sidebarPart, shellPart>>
PaletteStep(A1) == part = "palette" /\ A1
  /\ UNCHANGED <<part, ragPart, chatsPart, pullsPart, callsPart, addressPart,
                settingsPart, modelsPart, filesPart, searchPart, diagramPart,
                cardsPart, promptPart, gatesPart, schemaPart, pickerPart,
                sidebarPart, shellPart>>
SidebarStep(A1) == part = "sidebar" /\ A1
  /\ UNCHANGED <<part, ragPart, chatsPart, pullsPart, callsPart, addressPart,
                settingsPart, modelsPart, filesPart, searchPart, diagramPart,
                cardsPart, promptPart, gatesPart, schemaPart, pickerPart,
                palettePart, shellPart>>
ShellStep(A1) == part = "shell" /\ A1
  /\ UNCHANGED <<part, ragPart, chatsPart, pullsPart, callsPart, addressPart,
                settingsPart, modelsPart, filesPart, searchPart, diagramPart,
                cardsPart, promptPart, gatesPart, schemaPart, pickerPart,
                palettePart, sidebarPart>>

Next ==
  \/ WaitsStep(R!Next) \/ ChatsStep(C!Next) \/ PullsStep(P!Next)
  \/ CallsStep(T!Next) \/ AddressStep(A!Next) \/ SettingsStep(H!Next)
  \/ ModelsStep(M!Next) \/ FilesStep(F!Next) \/ SearchStep(Q!Next)
  \/ DiagramsStep(D!Next) \/ CardsStep(W!Next) \/ PromptStep(B!Next)
  \/ GatesStep(G!Next) \/ SchemasStep(U!Next) \/ PickerStep(K!Next)
  \/ PaletteStep(L!Next) \/ SidebarStep(N!Next) \/ ShellStep(O!Next)

Spec == Init /\ [][Next]_allVars

-----------------------------------------------------------------------------
(* The properties of the parts, those of one promise under one name.          *)

(* Every variable of every part keeps its type.                               *)
TypeOK ==
  /\ R!TypeOK /\ C!TypeOK /\ P!TypeOK /\ T!TypeOK /\ A!TypeOK /\ H!TypeOK
  /\ M!TypeOK /\ F!TypeOK /\ Q!TypeOK /\ D!TypeOK /\ W!TypeOK /\ B!TypeOK
  /\ G!TypeOK /\ U!TypeOK /\ K!TypeOK /\ L!TypeOK /\ N!TypeOK /\ O!TypeOK

(* Keys act on what is shown: Enter takes the marked row, the arrow down goes *)
(* down the screen, Escape closes something of what is open, and loading more *)
(* of the sidebar shows more.                                                 *)
KeysActOnWhatIsShown ==
  /\ K!EnterPicksTheRow /\ L!ArrowsFollowTheScreen
  /\ N!LoadingShowsMore /\ O!EscapeClosesSomething
=============================================================================
