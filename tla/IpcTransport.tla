----------------------------- MODULE IpcTransport -----------------------------
(***************************************************************************)
(* callInternal, the one door from the window to the commands of the       *)
(* backend (lib/ipc/transport.ts): the checks before a command is sent,    *)
(* the race of its answer with a timer, what the caller gets, and the      *)
(* record of its latency.  A call over its budget sends a trace, which is  *)
(* a command through the same door and can itself be over its budget.      *)
(***************************************************************************)
EXTENDS Naturals, FiniteSets, Sequences

CONSTANTS Commands, Trace,        \* cmd_trace_append is one of the commands
          Budget,                 \* IPC_LATENCY_BUDGETS, in ticks of the clock
          TimeoutMultiplier,      \* IPC_TIMEOUT_MULTIPLIER
          DefaultTimeout,         \* IPC_DEFAULT_TIMEOUT_MS, of a command without budget
          Throttle,               \* IPC_VIOLATION_TRACE_THROTTLE_MS
          HistoryMax,             \* IPC_VIOLATION_HISTORY_MAX
          MaxCalls, MaxTime, MaxHides     \* bounds of the model

\* Assumed of the constants wherever this module is instantiated.
TransportAssumption ==
    /\ Trace \in Commands
    /\ Budget \in [Commands -> Nat]
    /\ {TimeoutMultiplier, DefaultTimeout, Throttle, HistoryMax} \subseteq Nat \ {0}
    /\ {MaxCalls, MaxTime, MaxHides} \subseteq Nat

VARIABLES now,          \* the clock
          calls,        \* every call of callInternal, in the order they were made
          callCount, violationCount,      \* ipcStats
          lastTraceAt,  \* lastViolationTraceAt: when a command was last traced, plus one
          history,      \* ipcViolationHistory
          asked,        \* how many calls the application has made
          hides         \* how often the page has been hidden

vars == <<now, calls, callCount, violationCount, lastTraceAt, history, asked, hides>>

(***************************************************************************)
(* A call: the command and the options, when it began, what the caller     *)
(* has got ("value", "null" or "thrown", "none" while it waits), whether   *)
(* an error was shown to the user, and whether it got as far as the        *)
(* backend.                                                                *)
(***************************************************************************)
Call(cmd, options) ==
    [cmd |-> cmd, quiet |-> options.quiet, throws |-> options.throws, at |-> now,
     got |-> "none", toast |-> FALSE, sent |-> TRUE]
Options == [quiet : BOOLEAN, throws : BOOLEAN]
TraceOptions == [quiet |-> FALSE, throws |-> FALSE]

Waiting(i) == i \in DOMAIN calls /\ calls[i].got = "none"
Latency(i) == now - calls[i].at
OverBudget(i) == Budget[calls[i].cmd] > 0 /\ Latency(i) > Budget[calls[i].cmd]
TimeoutOf(cmd) == IF Budget[cmd] > 0 THEN Budget[cmd] * TimeoutMultiplier ELSE DefaultTimeout

Init == /\ now = 0 /\ calls = <<>>
        /\ callCount = 0 /\ violationCount = 0
        /\ lastTraceAt = [c \in Commands |-> 0] /\ history = <<>>
        /\ asked = 0 /\ hides = 0

-----------------------------------------------------------------------------
(***************************************************************************)
(* The checks before the command is sent: the URL of the Ollama server     *)
(* and the schema of the arguments.  What they refuse is reported and      *)
(* answered with null.  (Outside the desktop shell every call is.)         *)
(***************************************************************************)
Verdicts == {"pass", "refused"}
Answered(call, verdict) ==
    IF verdict = "pass" THEN call
    ELSE [call EXCEPT !.got = "null", !.sent = FALSE, !.toast = ~call.quiet]

Ask(cmd, options, verdict) ==
    /\ asked < MaxCalls
    /\ asked' = asked + 1
    /\ calls' = Append(calls, Answered(Call(cmd, options), verdict))
    /\ UNCHANGED <<now, callCount, violationCount, lastTraceAt, history, hides>>

(***************************************************************************)
(* recordIpcLatency, done n times for the call i, and                      *)
(* dispatchIpcViolationTrace: a violation is counted each time, and traced *)
(* unless the command was traced within the throttle window.  The trace    *)
(* is a call like any other, made before this one returns.                 *)
(***************************************************************************)
ThrottledAfterOne(cmd) == lastTraceAt[cmd] > 0 /\ now - lastTraceAt[cmd] = 0      \* a slip
Throttled(cmd) == lastTraceAt[cmd] > 0 /\ now + 1 - lastTraceAt[cmd] < Throttle
Violation(cmd) == [cmd |-> cmd, at |-> now]
NeverShortened(h) == h      \* a slip
Shortened(h) == IF Len(h) > HistoryMax THEN Tail(h) ELSE h
Record(i, n, settled) ==
    LET cmd == calls[i].cmd
        traced == OverBudget(i) /\ ~Throttled(cmd)
    IN  /\ callCount' = callCount + n
        /\ violationCount' = violationCount + (IF OverBudget(i) THEN n ELSE 0)
        /\ lastTraceAt' = IF traced THEN [lastTraceAt EXCEPT ![cmd] = now + 1] ELSE lastTraceAt
        /\ history' = IF traced THEN Shortened(Append(history, Violation(cmd))) ELSE history
        /\ calls' = [calls EXCEPT ![i] = settled]
                    \o (IF traced THEN <<Call(Trace, TraceOptions)>> ELSE <<>>)

SettledAloud(i, got) == [calls[i] EXCEPT !.got = got, !.toast = got = "thrown"]  \* a slip
Settled(i, got) == [calls[i] EXCEPT !.got = got]

(***************************************************************************)
(* What the backend may answer: data that the schema of the command takes  *)
(* or refuses, an error, a payload with neither, something that is no      *)
(* object, or a rejection of the call itself.  An error that is thrown, a  *)
(* rejection and a non-object are recorded where they are met and again in *)
(* the catch block around them.                                            *)
(***************************************************************************)
Answers == {"data", "badData", "error", "empty", "noObject", "rejected"}
Respond(i, answer) ==
    /\ Waiting(i)
    /\ \/ answer = "data" /\ Record(i, 1, Settled(i, "value"))
       \/ answer \in {"badData", "empty"} /\ Record(i, 1, Settled(i, "thrown"))
       \/ answer \in {"noObject", "rejected"} /\ Record(i, 2, Settled(i, "thrown"))
       \/ answer = "error" /\ calls[i].throws /\ Record(i, 2, Settled(i, "thrown"))
       \/ /\ answer = "error" /\ ~calls[i].throws
          /\ Record(i, 1, [Settled(i, "null") EXCEPT !.toast = ~calls[i].quiet])
    /\ UNCHANGED <<now, asked, hides>>

(* createIpcTimeout wins the race; what the backend still does is ignored. *)
TimedOutIfBudgeted(i) == Waiting(i) /\ Budget[calls[i].cmd] > 0 /\ Latency(i) >= TimeoutOf(calls[i].cmd)
TimedOut(i) == Waiting(i) /\ Latency(i) >= TimeoutOf(calls[i].cmd)
GiveUpUnrecorded(i) == /\ TimedOut(i)
                       /\ calls' = [calls EXCEPT ![i] = Settled(i, "thrown")]
                       /\ UNCHANGED <<now, callCount, violationCount, lastTraceAt, history, asked, hides>>
GiveUp(i) == /\ TimedOut(i)
             /\ Record(i, 1, Settled(i, "thrown"))
             /\ UNCHANGED <<now, asked, hides>>

(* The page is hidden: the throttle windows are forgotten. *)
PageHide == /\ hides < MaxHides
            /\ hides' = hides + 1
            /\ lastTraceAt' = [c \in Commands |-> 0]
            /\ UNCHANGED <<now, calls, callCount, violationCount, history, asked>>

(* A timer fires when it is due, before the clock goes on. *)
Tick == /\ now < MaxTime
        /\ \A i \in DOMAIN calls : ~TimedOut(i)
        /\ now' = now + 1
        /\ UNCHANGED <<calls, callCount, violationCount, lastTraceAt, history, asked, hides>>

Next == \/ \E cmd \in Commands, options \in Options, verdict \in Verdicts :
              Ask(cmd, options, verdict)
        \/ \E i \in DOMAIN calls, answer \in Answers : Respond(i, answer)
        \/ \E i \in DOMAIN calls : GiveUp(i)
        \/ PageHide
        \/ Tick

Spec == Init /\ [][Next]_vars

(* Time passes and due timers fire; the backend owes no answer. *)
GiveUps == \E i \in DOMAIN calls : GiveUp(i)
FairSpec == Spec /\ WF_vars(Tick) /\ WF_vars(GiveUps)

-----------------------------------------------------------------------------
CallRecords == [cmd : Commands, quiet : BOOLEAN, throws : BOOLEAN, at : 0 .. MaxTime,
                got : {"none", "value", "null", "thrown"}, toast : BOOLEAN,
                sent : BOOLEAN]

(* Every variable has the shape its comment gives it. *)
TypeOK == /\ now \in 0 .. MaxTime
          /\ calls \in Seq(CallRecords)
          /\ callCount \in Nat /\ violationCount \in Nat
          /\ lastTraceAt \in [Commands -> 0 .. MaxTime + 1]
          /\ history \in Seq([cmd : Commands, at : 0 .. MaxTime])
          /\ Len(history) <= HistoryMax
          /\ asked \in 0 .. MaxCalls /\ hides \in 0 .. MaxHides

(***************************************************************************)
(* A failure reaches the user once (transport.ts, "to avoid                *)
(* double-reporting"): no call both throws and shows its error, and none   *)
(* that was sent without "quiet" comes back empty without a word.          *)
(***************************************************************************)
ReportedOnce ==
    \A i \in DOMAIN calls :
      /\ calls[i].got = "thrown" => ~calls[i].toast
      /\ (calls[i].got = "null" /\ calls[i].sent /\ ~calls[i].quiet) => calls[i].toast

(***************************************************************************)
(* Traces do not feed on themselves: however slow the backend is, the      *)
(* trace command included, a command is traced at most once in a throttle  *)
(* window, as long as the page stays on the screen.                        *)
(***************************************************************************)
TracesArePaced ==
    hides = 0 => \A j, k \in DOMAIN history :
                   (j < k /\ history[j].cmd = history[k].cmd)
                     => history[k].at - history[j].at >= Throttle

(***************************************************************************)
(* The statistics leave nothing out: every call that reached the backend   *)
(* and has been settled is in the count, and every one of them that took   *)
(* longer than its budget has left a violation.                            *)
(***************************************************************************)
Finished == {i \in DOMAIN calls : calls[i].sent /\ calls[i].got # "none"}
StatsCoverCalls == /\ callCount >= Cardinality(Finished)
                   /\ violationCount <= callCount
                   /\ (violationCount > 0) <=> (history # <<>>)

(* However slow or silent the backend is, every call comes back. *)
CallsComeBack == \A i \in 1 .. MaxCalls :
                   (Waiting(i) /\ calls[i].at + TimeoutOf(calls[i].cmd) <= MaxTime) ~> ~Waiting(i)

=============================================================================
