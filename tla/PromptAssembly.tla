--------------------------- MODULE PromptAssembly ---------------------------
(* How the window turns a conversation into a prompt: the send and the edit   *)
(* of ChatSendService, the lookup of project context they wait for, and the   *)
(* budget of token-budget.ts that decides how much of the history is sent     *)
(* along. The walk over the history is one step per message.                  *)
(* A text is a name with a length and a script; one token is four characters  *)
(* of Latin or two of Arabic script, as in estimateTextTokens. One            *)
(* conversation, one request in assembly at a time (ChatStreams has several). *)
EXTENDS Integers, Sequences

CONSTANTS
  Texts,        (* what a message may say                                    *)
  Blank,        (* the empty text                                            *)
  Chars,        (* the length of a text                                      *)
  Arabic,       (* the texts of mostly Arabic script                         *)
  System,       (* the system prompt of the settings, Blank when unset       *)
  ModelWindow,  (* the window the model was trained with                     *)
  Tunings,      (* what a model's profile may resolve to: its numCtx and     *)
                (* numPredict, before the clamp; -1 is unlimited             *)
  MinReserve,   (* MIN_RAG_RESERVE_CHARS                                     *)
  RagMax,       (* MAX_RAG_CONTEXT_CHARS                                     *)
  MaxTurns,     (* bound: requests                                           *)
  MaxTouches    (* bound: deletions of messages, changes of the profile      *)

\* Assumed of the constants wherever this module is instantiated.
PromptAssumption ==
  /\ Blank \in Texts /\ System \in Texts /\ Arabic \subseteq Texts
  /\ Chars \in [Texts -> Nat] /\ \A t \in Texts : Chars[t] = 0 <=> t = Blank
  /\ ModelWindow \in Nat /\ MinReserve \in Nat /\ RagMax \in Nat
  /\ MaxTurns \in Nat /\ MaxTouches \in Nat
  /\ Tunings \subseteq [ctx : Nat, predict : Nat \cup {-1}]

VARIABLES
  talk,         (* the conversation's messages, as the store holds them      *)
  tuning,       (* the profile of the selected model                         *)
  stage,        (* how far the request has come                              *)
  job,          (* what it has read so far                                   *)
  walkAt,       (* the message the walk looks at next                        *)
  slice,        (* the places of the messages it took, oldest first          *)
  spent,        (* their tokens                                              *)
  turns, touches (* counters, for the bounds                                 *)

promptVars ==
  <<talk, tuning, stage, job, walkAt, slice, spent, turns, touches>>

Lesser(a, b) == IF a < b THEN a ELSE b
Positive(n) == IF n > 0 THEN n ELSE 0

Tokens(t) ==
  IF t \in Arabic THEN (Chars[t] + 1) \div 2 ELSE (Chars[t] + 3) \div 4

(* The window the request asks for never exceeds the model's.                 *)
Resolved(tune) == [tune EXCEPT !.ctx = Lesser(tune.ctx, ModelWindow)]

Message(role, request, text, ok) ==
  [role |-> role, request |-> request, text |-> text, ok |-> ok]

Eligible(m, request) == m.request # request /\ m.text # Blank /\ m.ok

HistoryTokens(msgs, request) ==
  LET sum[i \in 0..Len(msgs)] ==
        IF i = 0 THEN 0
        ELSE sum[i - 1]
             + (IF Eligible(msgs[i], request) THEN Tokens(msgs[i].text) ELSE 0)
  IN  sum[Len(msgs)]

(* What the project's context may take: undefined, when nothing remains, is   *)
(* the backend's default.                                                     *)
RagChars(ctx, prompt, history) ==
  LET remaining == ctx * 3 - Chars[System] - Chars[prompt] - history * 3
                   - MinReserve
  IN  IF remaining <= 0 THEN RagMax ELSE Lesser(RagMax, remaining)

(* calculateTokenBudget: the answer's share first, the history's is the rest. *)
AnswerAfterwards(ctx, prompt, predict) ==
  [answer |-> Lesser(predict, Positive(ctx - prompt)),
   input  |-> Positive(ctx - prompt)]
Budget(ctx, prompt, predict) ==
  LET remaining == Positive(ctx - prompt)
      answer == IF predict < 0 THEN remaining ELSE Lesser(predict, remaining)
  IN  [answer |-> answer, input |-> remaining - answer]

NoJob == [request |-> 0]

Messages ==
  [role : {"user", "assistant"}, request : Nat, text : Texts, ok : BOOLEAN]

TypeOK ==
  /\ talk \in Seq(Messages)
  /\ tuning \in Tunings
  /\ stage \in {"idle", "searching", "walking", "sent"}
  /\ stage = "idle" <=> job = NoJob
  /\ walkAt \in Nat /\ slice \in Seq(Nat) /\ spent \in Nat
  /\ turns \in 0..MaxTurns /\ touches \in 0..MaxTouches

Init ==
  /\ talk = <<>> /\ stage = "idle" /\ job = NoJob
  /\ tuning \in Tunings
  /\ walkAt = 0 /\ slice = <<>> /\ spent = 0
  /\ turns = 0 /\ touches = 0

(* The click: the messages and the settings are read now, the project is      *)
(* asked, and everything else happens after its answer.                       *)
Starts(kind, target, text) ==
  /\ turns < MaxTurns /\ turns' = turns + 1
  /\ stage' = "searching"
  /\ job' = [request |-> turns + 1, kind |-> kind, target |-> target,
             text |-> text, read |-> talk,
             chars |-> RagChars(Resolved(tuning).ctx, text,
                                HistoryTokens(talk, turns + 1))]
  /\ walkAt' = 0 /\ slice' = <<>> /\ spent' = 0
  /\ UNCHANGED <<talk, tuning, touches>>

Send(text) == stage = "idle" /\ text # Blank /\ Starts("send", 0, text)

(* Only the user's messages have the editor; it stays usable while an answer  *)
(* is streaming.                                                              *)
Edit(i, text) ==
  /\ stage \in {"idle", "sent"} /\ text # Blank
  /\ i \in 1..Len(talk) /\ talk[i].role = "user"
  /\ Starts("edit", talk[i].request, text)

(* The store after the project's answer. A message is known by its request    *)
(* and role: the edited one keeps its own request, its answer goes, and the   *)
(* new placeholder carries the new request.                                   *)
Without(msgs, gone) ==
  LET left[i \in 0..Len(msgs)] ==
        IF i = 0 THEN <<>>
        ELSE IF msgs[i] \in gone THEN left[i - 1] ELSE Append(left[i - 1], msgs[i])
  IN  left[Len(msgs)]
Written ==
  LET asked(m)  == m.role = "user" /\ m.request = job.target
      revised   == [i \in 1..Len(talk) |->
                     IF asked(talk[i]) THEN [talk[i] EXCEPT !.text = job.text]
                     ELSE talk[i]]
      (* the place of the answer to delete, among the messages read earlier   *)
      place     == CHOOSE i \in 1..Len(job.read) : asked(job.read[i])
      later     == {i \in place + 1..Len(job.read) :
                      job.read[i].role = "assistant"}
      answer    == job.read[CHOOSE i \in later : \A j \in later : i <= j]
      stale     == {m \in {revised[i] : i \in 1..Len(talk)} :
                      /\ later # {} /\ m.role = "assistant"
                      /\ m.request = answer.request}
      waiting   == Message("assistant", job.request, Blank, TRUE)
  IN  IF job.kind = "edit" THEN Append(Without(revised, stale), waiting)
      ELSE talk \o <<Message("user", job.request, job.text, TRUE), waiting>>

(* The project answers with at most the characters it was asked for, or not   *)
(* at all; the messages are written, the settings of the model read again,    *)
(* and the walk starts at the newest message of those read at the click.      *)
Assembles(chars) ==
  /\ stage = "searching" /\ stage' = "walking"
  /\ chars \in 0..job.chars
  /\ talk' = Written
  /\ LET tune == Resolved(tuning)
         prompt == Tokens(System) + chars \div 3 + Tokens(job.text)
     IN  job' = [request |-> job.request, kind |-> job.kind,
                 target |-> job.target, read |-> job.read,
                 ctx |-> tune.ctx, predict |-> tune.predict, prompt |-> prompt,
                 budget |-> Budget(tune.ctx, prompt, tune.predict)]
  /\ walkAt' = Len(job.read)
  /\ UNCHANGED <<tuning, slice, spent, turns, touches>>

OverflowsAlone(tokens) == tokens > job.budget.input
Overflows(tokens) == spent + tokens > job.budget.input

(* One message of the walk: passed over, taken, or the one to stop at.        *)
SkipsTheLongOnes ==
  /\ stage = "walking" /\ walkAt > 0
  /\ \/ ~Eligible(job.read[walkAt], job.request)
     \/ Overflows(Tokens(job.read[walkAt].text))
  /\ walkAt' = walkAt - 1
  /\ UNCHANGED <<talk, tuning, stage, job, slice, spent, turns, touches>>
Skips ==
  /\ stage = "walking" /\ walkAt > 0
  /\ ~Eligible(job.read[walkAt], job.request)
  /\ walkAt' = walkAt - 1
  /\ UNCHANGED <<talk, tuning, stage, job, slice, spent, turns, touches>>

Takes ==
  /\ stage = "walking" /\ walkAt > 0 /\ job.budget.input > 0
  /\ LET m == job.read[walkAt]
     IN  /\ Eligible(m, job.request)
         /\ ~Overflows(Tokens(m.text))
         /\ spent' = spent + Tokens(m.text)
  /\ slice' = <<walkAt>> \o slice
  /\ walkAt' = walkAt - 1
  /\ UNCHANGED <<talk, tuning, stage, job, turns, touches>>

Stops ==
  \/ job.budget.input = 0
  \/ walkAt = 0
  \/ /\ walkAt > 0
     /\ LET m == job.read[walkAt]
        IN  Eligible(m, job.request) /\ Overflows(Tokens(m.text))

Sends ==
  /\ stage = "walking" /\ Stops
  /\ stage' = "sent"
  /\ UNCHANGED <<talk, tuning, job, walkAt, slice, spent, turns, touches>>

(* The answer, or the error or the stop that leaves it unfit for a history:   *)
(* the last message of the conversation is the one written.                   *)
Answers(text, ok) ==
  /\ stage = "sent" /\ stage' = "idle" /\ job' = NoJob
  /\ talk' = IF talk = <<>> THEN talk
             ELSE [talk EXCEPT ![Len(talk)].text = text, ![Len(talk)].ok = ok]
  /\ walkAt' = 0 /\ slice' = <<>> /\ spent' = 0
  /\ UNCHANGED <<tuning, turns, touches>>

(* A message is deleted, a profile changed, while the request is on its way.  *)
Touched ==
  /\ touches < MaxTouches /\ touches' = touches + 1
  /\ UNCHANGED <<stage, job, walkAt, slice, spent, turns>>
Deletes(i) ==
  /\ Touched /\ i \in 1..Len(talk)
  /\ talk' = SubSeq(talk, 1, i - 1) \o SubSeq(talk, i + 1, Len(talk))
  /\ UNCHANGED tuning
Tunes(tune) ==
  /\ Touched /\ tune \in Tunings \ {tuning} /\ tuning' = tune
  /\ UNCHANGED talk

Next ==
  \/ \E t \in Texts : Send(t)
  \/ \E i \in 1..Len(talk), t \in Texts : Edit(i, t)
  \/ \E chars \in 0..RagMax : Assembles(chars)
  \/ Skips \/ Takes \/ Sends
  \/ \E t \in Texts, ok \in BOOLEAN : Answers(t, ok)
  \/ \E i \in 1..Len(talk) : Deletes(i)
  \/ \E tune \in Tunings : Tunes(tune)

Spec == Init /\ [][Next]_promptVars

-----------------------------------------------------------------------------
(* History is only sent when the answer keeps all the room it was promised:   *)
(* the prompt, the history and the requested answer fit the window together,  *)
(* whatever was changed while the project was asked ("so input assembly       *)
(* cannot crowd out the response", token-budget.ts:212).                      *)
AnswerKeepsItsRoom ==
  slice # <<>> =>
    job.predict >= 0 /\ job.prompt + spent + job.predict <= job.ctx

(* The history sent is the newest part of what was read: in order, nothing    *)
(* left out between, and the message before it would not have fitted.         *)
SliceIsTheNewest ==
  stage = "sent" =>
    LET fit  == {i \in 1..Len(job.read) : Eligible(job.read[i], job.request)}
        kept == {slice[k] : k \in 1..Len(slice)}
        rest == fit \ kept
    IN  /\ kept \subseteq fit
        /\ \A i, j \in 1..Len(slice) : i < j => slice[i] < slice[j]
        /\ \A i \in kept, j \in rest : j < i
        /\ \A i \in rest :
             (\A j \in rest : j <= i)
               => Overflows(Tokens(job.read[i].text)) \/ job.budget.input = 0

(* The prompt leaves the answer its room, and its history is the newest part  *)
(* of the conversation without a gap.                                         *)
PromptFits == AnswerKeepsItsRoom /\ SliceIsTheNewest

(* What is sent as history is history: every message of it is still in the    *)
(* conversation, as it is, before the prompt being sent.                      *)
HistoryIsPrior ==
  stage \in {"walking", "sent"} =>
    \A k \in 1..Len(slice) : \E i, j \in 1..Len(talk) :
      /\ talk[i] = job.read[slice[k]] /\ i < j /\ talk[j].role = "user"
      /\ talk[j].request
           = (IF job.kind = "edit" THEN job.target ELSE job.request)
=============================================================================
