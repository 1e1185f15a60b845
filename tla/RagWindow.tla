------------------------------- MODULE RagWindow -------------------------------
(***************************************************************************)
(* The projects as the window shows them: a store of cards filled by lists *)
(* and by the answers to commands, and kept up to date by the events of    *)
(* the indexing runs as long as the Projects tab listens.  The runs        *)
(* themselves are the subject of RagIndexing; here they only write the row *)
(* of their project and tell of it, one after the other.                   *)
(***************************************************************************)
EXTENDS Naturals, Sequences, FiniteSets

CONSTANTS Projects, NoProject,
          MaxLoads,      \* lists on their way at a time
          MaxActs,       \* commands of the user
          MaxVisits      \* visits of the Projects tab

\* Assumed of the constants wherever this module is instantiated.
WindowAssumption ==
    /\ NoProject \notin Projects
    /\ {MaxLoads, MaxActs, MaxVisits} \subseteq Nat

VARIABLES ragRows,    \* the status of each project in the database, "new" before, "gone" after
          indexings,  \* runs, each with its project and how far it is
          events,     \* what the runs have told and the window has not read
          shown,      \* the status on the card of a project, "none" without a card
          cardIds,    \* projectIds
          loads,      \* lists on their way: not read yet, or what was read
          answers,    \* answers on their way to additions, removals and updates
          open, ears, \* whether ProjectList is mounted, and how many listeners it has
          leaked,     \* listeners whose list was left before they were registered
          active,     \* activeProjectId
          dialog,     \* the card, and which of its two modals is open
          acts, visits,
          crossed     \* history: the projects whose card may be wrong until the next list

ragVars == <<ragRows, indexings, events, shown, cardIds, loads, answers, open,
             ears, leaked, active, dialog, acts, visits, crossed>>

Statuses == {"idle", "indexing", "ready", "error"}
Known == {p \in Projects : ragRows[p] \in Statuses}
Unread == [p \in Projects |-> "unread"]
Closed == [of |-> NoProject, what |-> "nothing"]

Orders(set) == {o \in [1 .. Cardinality(set) -> set] : {o[i] : i \in DOMAIN o} = set}

(* The cards of the last session are there again before any list is.       *)
Init == /\ ragRows \in [Projects -> {"new", "ready", "indexing"}]
        /\ indexings = {} /\ events = <<>>
        /\ shown \in [Projects -> {"none", "ready"}]
        /\ cardIds \in Orders({p \in Projects : shown[p] # "none"})
        /\ loads = {} /\ answers = {}
        /\ open = FALSE /\ ears = 0 /\ leaked = {}
        /\ active \in Projects \union {NoProject} /\ dialog = Closed
        /\ acts = 0 /\ visits = 0 /\ crossed = Projects

(* A row is written; an answer that has read it before is out of date.     *)
InFlight(p) == \/ \E l \in loads : l.read # Unread
               \/ \E a \in answers : a.of = p /\ a.kind # "removed"
Writes(p, s) == /\ ragRows' = [ragRows EXCEPT ![p] = s]
                /\ crossed' = IF InFlight(p) THEN crossed \union {p} ELSE crossed

Acts == acts < MaxActs /\ acts' = acts + 1
Asks == \E n \in 1 .. MaxLoads : /\ \A l \in loads : l.n # n
                                 /\ loads' = loads \union {[n |-> n, read |-> Unread]}

-----------------------------------------------------------------------------
(***************************************************************************)
(* The runs.  A start is refused or marks the row and tells of the first   *)
(* phase; every phase, and every retry, is told.  A run that is done tells *)
(* "completed", marks the row, and tells "complete"; one that failed or    *)
(* was aborted marks the row unless the store is locked just then, and     *)
(* tells "error".                                                          *)
(***************************************************************************)
Tell(p, kind) == events' = Append(events, [of |-> p, kind |-> kind])
RunKeeps == UNCHANGED <<shown, cardIds, loads, answers, open, ears, leaked, active,
                        dialog, visits>>
Start(p) ==
    /\ Acts /\ shown[p] \in {"idle", "ready", "error"} /\ p \in Known
    /\ indexings' = indexings \union {[n |-> acts, of |-> p, at |-> "live"]}
    /\ ragRows' = [ragRows EXCEPT ![p] = "indexing"]
    /\ crossed' = IF InFlight(p) \/ \E r \in indexings : r.of = p
                    THEN crossed \union {p} ELSE crossed
    /\ Tell(p, "progress")
    /\ RunKeeps

Moves(r, to) == indexings' = (indexings \ {r}) \union {[r EXCEPT !.at = to]}
Completed(r) == /\ r.at = "live" /\ Moves(r, "completed") /\ Tell(r.of, "completed")
                /\ UNCHANGED <<ragRows, acts, crossed>> /\ RunKeeps
MarksReady(r) == /\ r.at = "completed" /\ Moves(r, "ready")
                 /\ IF r.of \in Known THEN Writes(r.of, "ready") ELSE UNCHANGED <<ragRows, crossed>>
                 /\ UNCHANGED <<events, acts>> /\ RunKeeps
MarksError(r) == /\ r.at = "live" /\ Moves(r, "failed")
                 /\ \/ r.of \in Known /\ Writes(r.of, "error")
                    \/ UNCHANGED <<ragRows, crossed>>
                 /\ UNCHANGED <<events, acts>> /\ RunKeeps
TellsEnd(r) == /\ r.at \in {"ready", "failed"} /\ indexings' = indexings \ {r}
               /\ Tell(r.of, IF r.at = "ready" THEN "complete" ELSE "error")
               /\ UNCHANGED <<ragRows, acts, crossed>> /\ RunKeeps

-----------------------------------------------------------------------------
(***************************************************************************)
(* The listeners are registered one after the other once the list is       *)
(* mounted; those that are not yet when it is left are never taken away.   *)
(***************************************************************************)
Ear(kind) == CASE kind = "complete" -> 2 [] kind = "error" -> 3 [] OTHER -> 1
Heard(e) == (open /\ ears >= Ear(e.kind)) \/ Ear(e.kind) \in leaked

StatusOf(kind) == CASE kind \in {"completed", "complete"} -> "ready"
                    [] kind = "error" -> "error" [] OTHER -> "indexing"
IgnoresErrors(e) == IF shown[e.of] = "none" \/ e.kind = "error" THEN shown
                    ELSE [shown EXCEPT ![e.of] = StatusOf(e.kind)]       \* a slip
Patched(e) == IF shown[e.of] = "none" THEN shown ELSE [shown EXCEPT ![e.of] = StatusOf(e.kind)]

Hear == /\ events # <<>> /\ events' = Tail(events)
        /\ LET e == Head(events)
           IN IF Heard(e)
                THEN shown' = Patched(e) /\ UNCHANGED crossed
                ELSE crossed' = crossed \union {e.of} /\ UNCHANGED shown
        /\ UNCHANGED <<ragRows, indexings, cardIds, loads, answers, open, ears, leaked, active,
                       dialog, acts, visits>>

Mount == /\ ~open /\ visits < MaxVisits /\ visits' = visits + 1
         /\ open' = TRUE /\ ears' = 0 /\ Asks
         /\ UNCHANGED <<ragRows, indexings, events, shown, cardIds, answers, leaked,
                        active, dialog, acts, crossed>>
Listen == /\ open /\ ears < 3 /\ ears' = ears + 1
          /\ UNCHANGED <<ragRows, indexings, events, shown, cardIds, loads, answers,
                         open, leaked, active, dialog, acts, visits, crossed>>
Leave == /\ open /\ open' = FALSE /\ ears' = 0
         /\ leaked' = leaked \union (ears + 1 .. 3)
         /\ dialog' = Closed
         /\ UNCHANGED <<ragRows, indexings, events, shown, cardIds, loads, answers,
                        active, acts, visits, crossed>>

(***************************************************************************)
(* A list is read at one time and taken at a later one; setProjects        *)
(* replaces every card.  What was crossed is put right by a list that is   *)
(* read when nothing older is on its way and no run is left to tell of the *)
(* project.  A list that fails leaves the cards as they are.               *)
(***************************************************************************)
Untold(p) == \/ \E r \in indexings : r.of = p
             \/ \E i \in DOMAIN events : events[i].of = p
LoadRead(l) ==
    /\ l \in loads /\ l.read = Unread
    /\ loads' = (loads \ {l}) \union {[l EXCEPT !.read = ragRows]}
    /\ crossed' = IF answers = {} /\ \A k \in loads : k.read = Unread
                    THEN {p \in crossed : Untold(p)} ELSE crossed
    /\ UNCHANGED <<ragRows, indexings, events, shown, cardIds, answers, open, ears,
                   leaked, active, dialog, acts, visits>>

OnlyNew(read) == shown' = [p \in Projects |-> IF shown[p] # "none" THEN shown[p]
                                              ELSE IF read[p] \in Statuses THEN read[p] ELSE "none"]   \* a slip
Replaced(read) == shown' = [p \in Projects |-> IF read[p] \in Statuses THEN read[p] ELSE "none"]
LoadTaken(l) ==
    /\ l \in loads /\ l.read # Unread /\ loads' = loads \ {l}
    /\ Replaced(l.read)
    /\ cardIds' \in Orders({p \in Projects : l.read[p] \in Statuses})
    /\ dialog' = IF dialog.of # NoProject /\ l.read[dialog.of] \notin Statuses THEN Closed ELSE dialog
    /\ UNCHANGED <<ragRows, indexings, events, answers, open, ears, leaked, active,
                   acts, visits, crossed>>
LoadFails(l) == /\ l \in loads /\ l.read = Unread /\ loads' = loads \ {l}
                /\ UNCHANGED <<ragRows, indexings, events, shown, cardIds, answers,
                               open, ears, leaked, active, dialog, acts, visits, crossed>>

-----------------------------------------------------------------------------
(***************************************************************************)
(* Commands that write a row and answer: an addition and an update with    *)
(* the project as it is then, a removal with true.  A command that fails   *)
(* changes nothing.  A change of the model wipes the row and answers with  *)
(* true, which tells no card.                                              *)
(***************************************************************************)
Answer(p, kind, s) == answers' = answers \union {[of |-> p, kind |-> kind, status |-> s]}
CommandKeeps == UNCHANGED <<indexings, events, shown, cardIds, loads, open, ears,
                            leaked, active, dialog, visits>>
Add(p) == /\ Acts /\ open /\ ragRows[p] = "new"
          /\ Writes(p, "idle") /\ Answer(p, "added", "idle") /\ CommandKeeps
Remove(p) == /\ Acts /\ open /\ shown[p] # "none" /\ p \in Known
             /\ Writes(p, "gone") /\ Answer(p, "removed", "gone") /\ CommandKeeps

Form == IF dialog.what = "settings" /\ active # NoProject /\ shown[active] # "none"
          THEN active ELSE NoProject
Update(p) == /\ Acts /\ p = Form /\ p \in Known
             /\ Answer(p, "updated", ragRows[p])
             /\ UNCHANGED <<ragRows, crossed>> /\ CommandKeeps
SetModel(p) == /\ Acts /\ p = Form /\ p \in Known
               /\ ragRows' = [ragRows EXCEPT ![p] = "idle"] /\ crossed' = crossed \union {p}
               /\ UNCHANGED answers /\ CommandKeeps

KeepsTheCard(p) == UNCHANGED <<shown, cardIds>>       \* a slip
TakesTheCard(p) == /\ shown' = [shown EXCEPT ![p] = "none"]
                   /\ cardIds' = SelectSeq(cardIds, LAMBDA q : q # p)
Answered(a) ==
    /\ a \in answers /\ answers' = answers \ {a}
    /\ CASE a.kind = "added" ->
              /\ shown' = [shown EXCEPT ![a.of] = a.status]
              /\ cardIds' = Append(cardIds, a.of)
              /\ UNCHANGED <<active, dialog>>
         [] a.kind = "updated" ->
              /\ shown' = IF shown[a.of] = "none" THEN shown ELSE [shown EXCEPT ![a.of] = a.status]
              /\ UNCHANGED <<cardIds, active, dialog>>
         [] OTHER ->
              /\ TakesTheCard(a.of)
              /\ active' = IF active = a.of THEN NoProject ELSE active
              /\ dialog' = IF dialog.of = a.of THEN Closed ELSE dialog
    /\ UNCHANGED <<ragRows, indexings, events, loads, open, ears, leaked, acts, visits, crossed>>

-----------------------------------------------------------------------------
(***************************************************************************)
(* Selection, and the two modals of a card.  A modal is a child of its     *)
(* card, so that a click inside it selects or deselects the card as well;  *)
(* what it shows is the active project.                                    *)
(***************************************************************************)
ViewKeeps == Acts /\ UNCHANGED <<ragRows, indexings, events, shown, cardIds, answers, open,
                         ears, leaked, visits, crossed>>
Toggled(p) == IF active = p THEN NoProject ELSE p
Select(p) == /\ open /\ shown[p] # "none" /\ dialog = Closed
             /\ active' = Toggled(p) /\ UNCHANGED <<dialog, loads>> /\ ViewKeeps
Deactivate == /\ active # NoProject /\ active' = NoProject
              /\ UNCHANGED <<dialog, loads>> /\ ViewKeeps
FormAsks == IF Form' # NoProject /\ Form = NoProject THEN Asks ELSE UNCHANGED loads
OpenModal(p, what) == /\ open /\ shown[p] = "ready" /\ dialog = Closed
                      /\ dialog' = [of |-> p, what |-> what]
                      /\ UNCHANGED <<active, shown>> /\ FormAsks /\ ViewKeeps
ClickInside == /\ dialog # Closed /\ active' = Toggled(dialog.of)
               /\ UNCHANGED <<dialog, shown>> /\ FormAsks /\ ViewKeeps
CloseByClick == /\ dialog # Closed /\ active' = Toggled(dialog.of) /\ dialog' = Closed
                /\ UNCHANGED loads /\ ViewKeeps
CloseByKey == dialog # Closed /\ dialog' = Closed /\ UNCHANGED <<active, loads>> /\ ViewKeeps

Next == \/ \E p \in Projects : \/ Start(p) \/ Add(p) \/ Remove(p) \/ Update(p) \/ SetModel(p)
                               \/ Select(p) \/ OpenModal(p, "settings") \/ OpenModal(p, "explorer")
        \/ \E r \in indexings : Completed(r) \/ MarksReady(r) \/ MarksError(r) \/ TellsEnd(r)
        \/ Hear \/ Mount \/ Listen \/ Leave
        \/ \E l \in loads : LoadRead(l) \/ LoadTaken(l) \/ LoadFails(l)
        \/ \E a \in answers : Answered(a)
        \/ Deactivate \/ ClickInside \/ CloseByClick \/ CloseByKey

Spec == Init /\ [][Next]_ragVars

-----------------------------------------------------------------------------
(* Every variable has the shape its comment gives it; every card has an id *)
(* in the list, and every id a card.                                       *)
TypeOK ==
    /\ ragRows \in [Projects -> Statuses \union {"new", "gone"}]
    /\ indexings \subseteq [n : 0 .. MaxActs, of : Projects,
                            at : {"live", "completed", "ready", "failed"}]
    /\ events \in Seq([of : Projects, kind : {"progress", "completed", "complete", "error"}])
    /\ shown \in [Projects -> Statuses \union {"none"}]
    /\ {cardIds[i] : i \in DOMAIN cardIds} = {p \in Projects : shown[p] # "none"}
    /\ crossed \subseteq Projects
    /\ \A l \in loads : l.n \in 1 .. MaxLoads /\ (l.read = Unread
                           \/ l.read \in [Projects -> Statuses \union {"new", "gone"}])
    /\ answers \subseteq [of : Projects, kind : {"added", "updated", "removed"},
                          status : Statuses \union {"gone"}]
    /\ open \in BOOLEAN /\ ears \in 0 .. 3 /\ leaked \subseteq 1 .. 3
    /\ active \in Projects \union {NoProject}
    /\ dialog = Closed \/ dialog \in [of : Projects, what : {"settings", "explorer"}]
    /\ acts \in 0 .. MaxActs /\ visits \in 0 .. MaxVisits

(***************************************************************************)
(* Once the tab listens and everything on its way has come, the cards are  *)
(* the projects of the database with their statuses, except where no list  *)
(* has come, an answer was read before and taken after a change, an event  *)
(* was not heard by anybody, or a model was changed; and except that a     *)
(* failed run is shown as failed even where its row could not be marked.   *)
(***************************************************************************)
AtRest == open /\ ears = 3 /\ indexings = {} /\ events = <<>> /\ loads = {} /\ answers = {}
Tells(p) == \/ shown[p] = ragRows[p]
            \/ shown[p] = "none" /\ ragRows[p] \in {"new", "gone"}
            \/ shown[p] = "error" /\ ragRows[p] = "indexing"
CardsTellTheRows == AtRest => \A p \in Projects \ crossed : Tells(p)

=============================================================================
