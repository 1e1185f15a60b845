------------------------------ MODULE ModelPulls ------------------------------
(***************************************************************************)
(* Pulls of models: asked for in the window, run by tasks of the backend   *)
(* under a token that is registered by the name of the model, reported by  *)
(* events, and shown as a status that a timer or an abort clears.          *)
(***************************************************************************)
EXTENDS Naturals, Sequences

CONSTANTS Models, NoModel,
          MaxPulls, MaxAborts, MaxTold      \* bounds of the model

\* Assumed of the constants wherever this module is instantiated.
PullsAssumption ==
    /\ NoModel \notin Models
    /\ {MaxPulls, MaxAborts} \subseteq Nat /\ MaxTold \in Nat \ {0}

VARIABLES pulls,        \* the pulls asked for, each a task of the backend once accepted
          pullHandle,   \* PULL_ABORT_HANDLES: the pull whose token it holds, or 0
          told,         \* events on their way to the window, in order
          pullStatus,   \* pullStatus of the window's store
          listing,      \* lists of models asked for after a success
          fading,       \* timers that will clear a status
          aborting, abortCount,      \* the models whose pull is being aborted, and how often
          doubled,      \* history: models with two pulls at one time
          amiss         \* history: a pull was refused, or a stream or a list failed

pullVars == <<pulls, pullHandle, told, pullStatus, listing, fading, aborting, abortCount,
              doubled, amiss>>

NoPull == [model |-> NoModel, state |-> "unused", cancelled |-> FALSE]
Tasks(m, states) == {i \in DOMAIN pulls : pulls[i].model = m /\ pulls[i].state \in states}
Moves(i, state) == pulls' = [pulls EXCEPT ![i].state = state]
Shows(m, status) == pullStatus' = [pullStatus EXCEPT ![m] = status]

Init == /\ pulls = [i \in 1 .. MaxPulls |-> NoPull]
        /\ pullHandle = [m \in Models |-> 0]
        /\ told = <<>>
        /\ pullStatus = [m \in Models |-> "none"]
        /\ listing = [m \in Models |-> 0] /\ fading = [m \in Models |-> 0]
        /\ aborting = {} /\ abortCount = 0
        /\ doubled = {} /\ amiss = FALSE

-----------------------------------------------------------------------------
(***************************************************************************)
(* handlePull.  The cards offer it for a model that is not installed and   *)
(* shows no status, the field above them for any name.  The status is set  *)
(* first.  A refusal is answered with null, and the status stays; when the *)
(* command throws it is taken back, and the pull may start all the same.   *)
(***************************************************************************)
Pull(i, m) ==
    /\ pulls[i] = NoPull /\ \A j \in 1 .. i - 1 : pulls[j] # NoPull
    /\ pulls' = [pulls EXCEPT ![i] = [@ EXCEPT !.model = m, !.state = "asked"]]
    /\ Shows(m, "starting")
    /\ UNCHANGED <<pullHandle, told, listing, fading, aborting, abortCount, doubled, amiss>>

Refuse(i) ==
    /\ pulls[i].state = "asked"
    /\ Moves(i, "over") /\ amiss' = TRUE
    /\ UNCHANGED <<pullHandle, told, pullStatus, listing, fading, aborting, abortCount, doubled>>

Throw(i) ==
    /\ pulls[i].state = "asked"
    /\ Moves(i, "late") /\ Shows(pulls[i].model, "none")
    /\ UNCHANGED <<pullHandle, told, listing, fading, aborting, abortCount, doubled, amiss>>

(***************************************************************************)
(* pull_model: with the permit it puts its token under the name of the     *)
(* model, whatever is there, and starts the task.                          *)
(***************************************************************************)
Running == {"running", "done"}
Unfinished == Running \union {"ended"}
Accept(i) ==
    LET m == pulls[i].model
    IN  /\ pulls[i].state \in {"asked", "late"}
        /\ Moves(i, "running")
        /\ pullHandle' = [pullHandle EXCEPT ![m] = i]
        /\ doubled' = IF Tasks(m, Unfinished) # {} THEN doubled \union {m} ELSE doubled
        /\ UNCHANGED <<told, pullStatus, listing, fading, aborting, abortCount, amiss>>

(***************************************************************************)
(* process_pull_stream and the requests around it.  The stream may bring   *)
(* progress, success, an error, or end without a word.  A token that is    *)
(* cancelled is seen at the next line or after a second without one, also  *)
(* between success and the end of the stream.                              *)
(***************************************************************************)
TaskKeeps == UNCHANGED <<pullStatus, listing, fading, aborting, abortCount, doubled>>
Tells(i, what) == /\ Len(told) < MaxTold
                  /\ told' = Append(told, [model |-> pulls[i].model, what |-> what])

Progress(i) == /\ pulls[i].state = "running"
               /\ Tells(i, "progress")
               /\ UNCHANGED <<pulls, pullHandle, amiss>> /\ TaskKeeps
Succeed(i) == /\ pulls[i].state = "running"
              /\ Tells(i, "success") /\ Moves(i, "done")
              /\ UNCHANGED <<pullHandle, amiss>> /\ TaskKeeps
Fail(i) == /\ \/ pulls[i].state = "running"
              \/ pulls[i].state = "done" /\ pulls[i].cancelled
           /\ Tells(i, "error") /\ Moves(i, "ended")
           /\ UNCHANGED <<pullHandle, amiss>> /\ TaskKeeps
RunsDry(i) == /\ pulls[i].state \in Running
              /\ Moves(i, "ended")
              /\ amiss' = (amiss \/ pulls[i].state = "running")
              /\ UNCHANGED <<pullHandle, told>> /\ TaskKeeps

(* The handle goes by the name of the model and not by the task. *)
HandleStays(i) == pullHandle                    \* a slip
HandlesGone(i) == [m \in Models |-> 0]          \* a slip
HandleGone(i) == [pullHandle EXCEPT ![pulls[i].model] = 0]
Finish(i) == /\ pulls[i].state = "ended"
             /\ Moves(i, "over")
             /\ pullHandle' = HandleGone(i)
             /\ UNCHANGED <<told, amiss>> /\ TaskKeeps

(***************************************************************************)
(* handleAbortPull: offered while a status other than success is shown.    *)
(* abort_pull takes the handle and cancels its token; the status is        *)
(* cleared when the command is back.                                       *)
(***************************************************************************)
Abort(m) ==
    /\ abortCount < MaxAborts /\ pullStatus[m] \notin {"none", "success"}
    /\ aborting' = aborting \union {m} /\ abortCount' = abortCount + 1
    /\ UNCHANGED <<pulls, pullHandle, told, pullStatus, listing, fading, doubled, amiss>>

CancelledNot(m) == pulls       \* a slip
Cancelled(m) == [i \in DOMAIN pulls |-> [pulls[i] EXCEPT !.cancelled = @ \/ i = pullHandle[m]]]
AbortLands(m) ==
    /\ m \in aborting /\ aborting' = aborting \ {m}
    /\ pulls' = Cancelled(m)
    /\ pullHandle' = [pullHandle EXCEPT ![m] = 0]
    /\ Shows(m, "none")
    /\ UNCHANGED <<told, listing, fading, abortCount, doubled, amiss>>

-----------------------------------------------------------------------------
(***************************************************************************)
(* The events.  Success asks for the list of models, and the timer that    *)
(* clears the status is set when the list, or null, is there; an error     *)
(* sets one at once.  A timer clears whatever status the model has then.   *)
(***************************************************************************)
TimerNone(m) == fading       \* a slip
TimerTwice(m) == [fading EXCEPT ![m] = @ + 2]       \* a slip
Timer(m) == [fading EXCEPT ![m] = @ + 1]

Hear ==
    LET m == Head(told).model
        what == Head(told).what
    IN  /\ told # <<>> /\ told' = Tail(told)
        /\ Shows(m, what)
        /\ listing' = IF what = "success" THEN [listing EXCEPT ![m] = @ + 1] ELSE listing
        /\ fading' = IF what = "error" THEN Timer(m) ELSE fading
        /\ UNCHANGED <<pulls, pullHandle, aborting, abortCount, doubled, amiss>>

Listed(m) ==
    /\ listing[m] > 0 /\ listing' = [listing EXCEPT ![m] = @ - 1]
    /\ \/ fading' = Timer(m) /\ UNCHANGED amiss
       \/ amiss' = TRUE /\ UNCHANGED fading      \* getModels throws
    /\ UNCHANGED <<pulls, pullHandle, told, pullStatus, aborting, abortCount, doubled>>

Fade(m) ==
    /\ fading[m] > 0 /\ fading' = [fading EXCEPT ![m] = @ - 1]
    /\ Shows(m, "none")
    /\ UNCHANGED <<pulls, pullHandle, told, listing, aborting, abortCount, doubled, amiss>>

Answered(i) == Accept(i) \/ Refuse(i) \/ Throw(i)
TaskEnds(i) == Succeed(i) \/ Fail(i) \/ RunsDry(i)

Next == \/ \E i \in DOMAIN pulls : \/ \E m \in Models : Pull(i, m)
                                   \/ Answered(i) \/ Progress(i) \/ TaskEnds(i) \/ Finish(i)
        \/ \E m \in Models : Abort(m) \/ AbortLands(m) \/ Listed(m) \/ Fade(m)
        \/ Hear

Spec == Init /\ [][Next]_pullVars

(***************************************************************************)
(* A pull is accepted or answered otherwise, ends at the latest after      *)
(* PULL_ABSOLUTE_TIMEOUT_SECS, and the events, lists and timers come.      *)
(***************************************************************************)
FairSpec == /\ Spec
            /\ \A i \in 1 .. MaxPulls : WF_pullVars(Answered(i)) /\ WF_pullVars(TaskEnds(i))
            /\ WF_pullVars(Hear)
            /\ \A m \in Models : WF_pullVars(Listed(m)) /\ WF_pullVars(Fade(m))

-----------------------------------------------------------------------------
(* Every variable has the shape its comment gives it. *)
TypeOK ==
    /\ pulls \in [1 .. MaxPulls ->
                    [model : Models \union {NoModel}, cancelled : BOOLEAN,
                     state : Unfinished \union {"unused", "asked", "late", "over"}]]
    /\ pullHandle \in [Models -> 0 .. MaxPulls]
    /\ \A n \in DOMAIN told : told[n] \in [model : Models, what : {"progress", "success", "error"}]
    /\ pullStatus \in [Models -> {"none", "starting", "progress", "success", "error"}]
    /\ listing \in [Models -> 0 .. MaxPulls] /\ fading \in [Models -> 0 .. 2 * MaxPulls]
    /\ aborting \subseteq Models /\ doubled \subseteq Models
    /\ abortCount \in 0 .. MaxAborts /\ amiss \in BOOLEAN

(***************************************************************************)
(* A handle is that of a task which has not ended: the tray counts them,   *)
(* and closing the window asks whether there are any.                      *)
(***************************************************************************)
HandlesAreOfTasks ==
    \A m \in Models : pullHandle[m] # 0 => pullHandle[m] \in Tasks(m, Unfinished)

(***************************************************************************)
(* A pull that runs can be aborted, if no other pull of the model was      *)
(* running with it.  (The one that ends first takes the handle of the      *)
(* other, which nothing can stop then.)                                    *)
(***************************************************************************)
LoneIsAbortable ==
    \A m \in Models \ doubled : \A i \in Tasks(m, Running) :
        pulls[i].cancelled \/ pullHandle[m] = i

(* An abort reaches the pull it is meant for: both of the above. *)
AbortsReachThePull == HandlesAreOfTasks /\ LoneIsAbortable

(* When an abort is back, no pull of the model goes on. *)
AbortStops ==
    [][\A m \in aborting \ (aborting' \union doubled) :
          \A i \in Tasks(m, Running) : pulls'[i].cancelled]_pullVars

(***************************************************************************)
(* Every status of a pull goes away.  It takes that the pull was not       *)
(* refused, that its stream did not end without a word, and that the list  *)
(* after it did not throw: each of these leaves the bar where it is.       *)
(***************************************************************************)
StatusGoes == \A m \in Models : pullStatus[m] # "none" ~> (pullStatus[m] = "none" \/ amiss)

=============================================================================
