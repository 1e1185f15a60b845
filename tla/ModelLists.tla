------------------------------ MODULE ModelLists ------------------------------
(***************************************************************************)
(* The models of the window: the list of the server the address names, the *)
(* model that is selected, the tuning kept for each model, and what is     *)
(* known of a model's context window.  The list, the selection and the     *)
(* tuning are changed by whichever answer comes, for the server the list   *)
(* was asked of; capabilities are kept by server and model for the whole   *)
(* session.                                                                *)
(***************************************************************************)
EXTENDS Naturals, FiniteSets

CONSTANTS Models, NoModel, Servers,
          Holds,         \* the models of each server at the boot
          MaxLists, MaxDeeds, MaxFaults     \* bounds of the model

\* Assumed of the constants wherever this module is instantiated.
ListsAssumption ==
    /\ NoModel \notin Models /\ Holds \in [Servers -> SUBSET Models]
    /\ {MaxLists, MaxDeeds, MaxFaults} \subseteq Nat

VARIABLES installed,     \* the models of each server
          serving,       \* the servers that answer
          server,        \* the address of the settings
          modelCalls,    \* lists on their way: not read yet, or what was read
          listed, listError,       \* models and fetchError of the store
          selectedModel,
          tuned,         \* the models with a profile
          booted,        \* whether the first list was answered
          moved,         \* whether an address was taken and its list not asked for
          deleting,      \* deletions on their way or done and not answered
          known,         \* what the cache holds for a server and a model
          capsCalls,     \* cmd_ollama_validate_model on their way
          capsFailed,    \* fetchFailed of the hook of the chat
          deeds, faults,
          crossedList    \* history: an older answer may overwrite, or nobody asked again

listVars == <<installed, serving, server, modelCalls, listed, listError, selectedModel,
              tuned, booted, moved, deleting, known, capsCalls, capsFailed, deeds, faults,
              crossedList>>

Keys == Servers \X Models
Key == <<server, selectedModel>>
Unread == {NoModel}
ListCall(n, s, kind) == [n |-> n, of |-> s, kind |-> kind, read |-> Unread]

(* A boot: selection and tuning are those of the session before.           *)
Init == /\ installed = Holds
        /\ serving = Servers /\ server \in Servers
        /\ modelCalls = {ListCall(1, server, "boot")}
        /\ listed = {} /\ listError = FALSE
        /\ selectedModel \in Models \union {NoModel}
        /\ tuned \in SUBSET Models
        /\ booted = FALSE /\ moved = FALSE /\ deleting = {}
        /\ known = [k \in Keys |-> "nothing"]
        /\ capsCalls = [k \in Keys |-> IF k = Key THEN 1 ELSE 0] /\ capsFailed = FALSE
        /\ deeds = 0 /\ faults = 0 /\ crossedList = FALSE

Does == deeds < MaxDeeds /\ deeds' = deeds + 1
Asks(kind) == \E n \in 1 .. MaxLists : /\ \A c \in modelCalls : c.n # n
                                       /\ modelCalls' = modelCalls \union {ListCall(n, server, kind)}

-----------------------------------------------------------------------------
(***************************************************************************)
(* fetchModelCapabilities: from the cache, or from the call on its way, or *)
(* from a new call.  The hook asks when the server or the model changes.   *)
(***************************************************************************)
AsksAnyway(k) ==
    capsCalls' = IF k \in Keys /\ known[k] = "nothing"
                   THEN [capsCalls EXCEPT ![k] = @ + 1] ELSE capsCalls     \* a slip
AsksOfModel(k) ==
    capsCalls' = IF k \in Keys /\ known[k] = "nothing" /\ capsCalls[k] = 0
                   THEN [capsCalls EXCEPT ![k] = @ + 1] ELSE capsCalls
Watches == IF Key' = Key THEN UNCHANGED <<capsCalls, capsFailed>>
           ELSE capsFailed' = FALSE /\ AsksOfModel(Key')

(* A server that cannot be reached is answered with null, as an unknown    *)
(* model is, and null is kept; a call that throws is forgotten.            *)
Outcomes(k) == IF k[1] \notin serving THEN {"unreached", "nothing"}
               ELSE {IF k[2] \in installed[k[1]] THEN "window" ELSE "invalid", "nothing"}
ForgetsToTell(k) == UNCHANGED capsFailed     \* a slip
TellsFailure(k) == capsFailed' = (capsFailed \/ k = Key)
CapsAnswered(k) ==
    /\ capsCalls[k] > 0 /\ capsCalls' = [capsCalls EXCEPT ![k] = @ - 1]
    /\ \E o \in Outcomes(k) :
          /\ known' = [known EXCEPT ![k] = o]
          /\ IF o = "nothing" THEN TellsFailure(k) ELSE UNCHANGED capsFailed
    /\ UNCHANGED <<installed, serving, server, modelCalls, listed, listError, selectedModel,
                   tuned, booted, moved, deleting, deeds, faults, crossedList>>

-----------------------------------------------------------------------------
(* fetchModels: asked of the address as it is, taken when it comes.        *)
FetchModels == /\ Does /\ Asks("list")
               /\ crossedList' = (crossedList /\ (modelCalls # {} \/ moved \/ deleting # {}))
               /\ UNCHANGED <<installed, serving, server, listed, listError, selectedModel, tuned,
                              booted, moved, deleting, known, capsCalls, capsFailed, faults>>
ListRead(c) == /\ c \in modelCalls /\ c.read = Unread /\ c.of \in serving
               /\ modelCalls' = (modelCalls \ {c}) \union {[c EXCEPT !.read = installed[c.of]]}
               /\ UNCHANGED <<installed, serving, server, listed, listError, selectedModel, tuned,
                              booted, moved, deleting, known, capsCalls, capsFailed, deeds, faults, crossedList>>

PrunedByShown(read) == tuned \intersect listed     \* a slip
Pruned(read) == tuned \intersect read

(* The first of the list is selected when nothing is; and after the first  *)
(* answer of a session, whatever it was, when the selection is not listed. *)
SelectsIfNone(kind, read) ==
    IF selectedModel = NoModel /\ read # {} THEN read ELSE {selectedModel}     \* a slip
Selected(kind, read) ==
    IF read # {} /\ (selectedModel = NoModel \/ (kind = "boot" /\ selectedModel \notin read))
      THEN read ELSE {selectedModel}

ListTaken(c) ==
    /\ c \in modelCalls /\ c.read # Unread /\ modelCalls' = modelCalls \ {c}
    /\ listed' = c.read
    /\ booted' = (booted \/ c.kind = "boot")
    /\ IF c.kind = "pull"
         THEN UNCHANGED <<listError, tuned, selectedModel>>
         ELSE /\ listError' = FALSE /\ tuned' = Pruned(c.read)
              /\ selectedModel' \in Selected(c.kind, c.read)
    /\ UNCHANGED server /\ Watches
    /\ UNCHANGED <<installed, serving, moved, deleting, known, deeds, faults, crossedList>>
ListFails(c) ==
    /\ c \in modelCalls /\ c.read = Unread /\ modelCalls' = modelCalls \ {c}
    /\ booted' = (booted \/ c.kind = "boot")
    /\ listError' = TRUE
    /\ selectedModel' \in IF c.kind = "boot" THEN Selected("boot", listed) ELSE {selectedModel}
    /\ UNCHANGED server /\ Watches
    /\ UNCHANGED <<installed, serving, listed, tuned, moved, deleting, known, deeds, faults, crossedList>>

-----------------------------------------------------------------------------
(* A list that was read before a change and is taken after it is stale.    *)
Changes(s, set) == /\ installed' = [installed EXCEPT ![s] = set]
                   /\ crossedList' = (crossedList \/ \E c \in modelCalls : c.read # Unread)

Delete(m) == /\ Does /\ m \in listed
             /\ deleting' = deleting \union {[of |-> server, model |-> m, done |-> FALSE]}
             /\ UNCHANGED <<installed, serving, server, modelCalls, listed, listError, selectedModel,
                            tuned, booted, moved, known, capsCalls, capsFailed, faults, crossedList>>
Deletes(d) ==
    /\ d \in deleting /\ ~d.done
    /\ \/ /\ d.of \in serving /\ deleting' = (deleting \ {d}) \union {[d EXCEPT !.done = TRUE]}
          /\ Changes(d.of, installed[d.of] \ {d.model})
       \/ deleting' = deleting \ {d} /\ UNCHANGED <<installed, crossedList>>
    /\ UNCHANGED <<serving, server, modelCalls, listed, listError, selectedModel, tuned, booted,
                   moved, known, capsCalls, capsFailed, deeds, faults>>
TrustsTheList(d) == UNCHANGED modelCalls      \* a slip
ListsAgain(d) == Asks("list")
Deleted(d) ==
    /\ d \in deleting /\ d.done /\ deleting' = deleting \ {d}
    /\ ListsAgain(d)
    /\ UNCHANGED <<installed, serving, server, listed, listError, selectedModel, tuned, booted,
                   moved, known, capsCalls, capsFailed, deeds, faults, crossedList>>

(* A pull has ended; its list changes the models shown and nothing else.   *)
Pulled(m) == /\ Does /\ server \in serving /\ m \notin installed[server]
             /\ Changes(server, installed[server] \union {m}) /\ Asks("pull")
             /\ UNCHANGED <<serving, server, listed, listError, selectedModel, tuned, booted,
                            moved, deleting, known, capsCalls, capsFailed, faults>>

(* Another address, whose list is asked for once it is verified.           *)
Move(s) == /\ Does /\ s # server /\ server' = s
           /\ moved' = TRUE /\ crossedList' = (crossedList \/ modelCalls # {})
           /\ UNCHANGED selectedModel /\ Watches
           /\ UNCHANGED <<installed, serving, modelCalls, listed, listError, tuned, booted,
                          deleting, known, faults>>
Verified == /\ moved /\ moved' = FALSE
            /\ \/ server \in serving /\ Asks("list") /\ UNCHANGED crossedList
               \/ crossedList' = TRUE /\ UNCHANGED modelCalls
            /\ UNCHANGED <<installed, serving, server, listed, listError, selectedModel, tuned,
                           booted, deleting, known, capsCalls, capsFailed, deeds, faults>>
Flips(s) == /\ faults < MaxFaults /\ faults' = faults + 1
            /\ serving' = IF s \in serving THEN serving \ {s} ELSE serving \union {s}
            /\ UNCHANGED <<installed, server, modelCalls, listed, listError, selectedModel, tuned,
                           booted, moved, deleting, known, capsCalls, capsFailed, deeds, crossedList>>

(* The user selects, and tunes the model that is selected; the panel asks  *)
(* for the capabilities when it is opened.                                 *)
Select(m) == /\ Does /\ m \in listed /\ m # selectedModel /\ selectedModel' = m
             /\ UNCHANGED server /\ Watches
             /\ UNCHANGED <<installed, serving, modelCalls, listed, listError, tuned, booted,
                            moved, deleting, known, faults, crossedList>>
OpenPanel == /\ Does /\ selectedModel # NoModel /\ AsksOfModel(Key)
             /\ UNCHANGED <<installed, serving, server, modelCalls, listed, listError, selectedModel,
                            tuned, booted, moved, deleting, known, capsFailed, faults, crossedList>>
SetParam == /\ Does /\ selectedModel # NoModel /\ tuned' = tuned \union {selectedModel}
            /\ UNCHANGED <<installed, serving, server, modelCalls, listed, listError, selectedModel,
                           booted, moved, deleting, known, capsCalls, capsFailed, faults, crossedList>>
ResetParam == /\ Does /\ selectedModel \in tuned /\ tuned' = tuned \ {selectedModel}
              /\ UNCHANGED <<installed, serving, server, modelCalls, listed, listError, selectedModel,
                             booted, moved, deleting, known, capsCalls, capsFailed, faults, crossedList>>

Next == \/ FetchModels \/ Verified \/ OpenPanel \/ SetParam \/ ResetParam
        \/ \E c \in modelCalls : ListRead(c) \/ ListTaken(c) \/ ListFails(c)
        \/ \E k \in Keys : CapsAnswered(k)
        \/ \E d \in deleting : Deletes(d) \/ Deleted(d)
        \/ \E m \in Models : Delete(m) \/ Pulled(m) \/ Select(m)
        \/ \E s \in Servers : Move(s) \/ Flips(s)

Spec == Init /\ [][Next]_listVars

(* A call of the window is answered, or gives up.                          *)
FairSpec == Spec /\ \A k \in Keys : WF_listVars(CapsAnswered(k))

-----------------------------------------------------------------------------
(* Every variable has the shape its comment gives it.                      *)
TypeOK ==
    /\ installed \in [Servers -> SUBSET Models] /\ serving \subseteq Servers /\ server \in Servers
    /\ \A c \in modelCalls : /\ c.n \in 1 .. MaxLists /\ c.of \in Servers
                             /\ c.kind \in {"boot", "list", "pull"}
                             /\ c.read = Unread \/ c.read \subseteq Models
    /\ listed \subseteq Models /\ selectedModel \in Models \union {NoModel}
    /\ tuned \subseteq Models
    /\ deleting \subseteq [of : Servers, model : Models, done : BOOLEAN]
    /\ known \in [Keys -> {"nothing", "window", "invalid", "unreached"}]
    /\ capsCalls \in [Keys -> 0 .. MaxDeeds + 1]
    /\ {listError, booted, moved, capsFailed, crossedList} \subseteq BOOLEAN
    /\ deeds \in 0 .. MaxDeeds /\ faults \in 0 .. MaxFaults

(***************************************************************************)
(* When nothing is on its way and no list has failed, the window shows the *)
(* models of its server, unless an older list may have come last.          *)
(***************************************************************************)
AtRest == booted /\ modelCalls = {} /\ deleting = {} /\ ~moved
ListIsInstalled == AtRest /\ ~listError /\ ~crossedList => listed = installed[server]

(* After the first answer of a session a listed model is selected, if      *)
(* there is one, whatever was selected in the session before.              *)
BootSelects == [][~booted /\ booted' /\ listed' # {} => selectedModel' \in listed']_listVars

(***************************************************************************)
(* A model's tuning is lost when the user resets it, or together with the  *)
(* model itself: when it is no longer in the list that is shown.           *)
(***************************************************************************)
TuningStays == [][\A m \in tuned \ tuned' : m = selectedModel \/ m \notin listed']_listVars

(* Nothing is asked twice at a time, and nothing that is kept already.     *)
AskedOnce == \A k \in Keys : capsCalls[k] + (IF known[k] = "nothing" THEN 0 ELSE 1) <= 1

(* The context window of the chat does not load forever.                   *)
Loading == selectedModel # NoModel /\ known[Key] = "nothing" /\ ~capsFailed
WindowIsKnown == Loading ~> ~Loading

=============================================================================
