---------------------------- MODULE Conversations ----------------------------
(***************************************************************************)
(* The list of conversations in the window and in the database.  The       *)
(* window shows a change at once and sends a command for it; commands run  *)
(* on a pool of threads and may land in another order than they were sent, *)
(* fail, or be answered with null.  Beside the user, the end of a chat     *)
(* renames a conversation, with a title that the model is asked for.       *)
(*                                                                         *)
(* Of a conversation only its title is kept: the localised default, one    *)
(* that was generated, or one of the titles that the user has typed, which *)
(* are numbered.                                                           *)
(***************************************************************************)
EXTENDS Naturals, FiniteSets, Functions

CONSTANTS Chats,          \* ids of conversations, fresh ones from crypto.randomUUID
          NoChat,         \* null
          MaxLooks,       \* MAX_RETRY_ATTEMPTS of lookupConversation
          MaxActs, MaxTitlings, MaxFaults, MaxStarts   \* bounds of the model

\* Assumed of the constants wherever this module is instantiated.
ConversationsAssumption ==
    /\ NoChat \notin Chats /\ IsFiniteSet(Chats)
    /\ MaxLooks \in Nat \ {0}
    /\ {MaxActs, MaxTitlings, MaxFaults, MaxStarts} \subseteq Nat

VARIABLES stored,     \* the conversations in the database
          shown,      \* conversations of the window's store
          open,       \* currentConversationId
          lastOpen,   \* the key lastActiveConversationId of localStorage
          sent,       \* commands on their way, the creation apart
          making,     \* createConversation, by id
          start,      \* where the start of the window is
          listed,     \* what cmd_conversations_list has found
          naming,     \* pendingAutoTitles
          titlings,   \* the calls of runAutoGenerate
          errors, starts, acts,    \* how many commands failed, windows, acts of the user
          byUser,     \* history: the titles typed since the window started
          wasOpen,    \* history: what was open when the window went
          upset       \* history: a command failed, or two on one conversation crossed

vars == <<stored, shown, open, lastOpen, sent, making, start, listed, naming,
          titlings, errors, starts, acts, byUser, wasOpen, upset>>

(* Titles, and the number that stands for no conversation at all. *)
Absent == 0
Default == 1
Generated == 2
Typed(n) == n + 2
Titles == 0 .. Typed(MaxActs)
Nothing == [c \in Chats |-> Absent]
Those(list) == {c \in Chats : list[c] # Absent}

Update(c, title) == [do |-> "update", chat |-> c, title |-> title]
Remove(c)        == [do |-> "delete", chat |-> c, title |-> Absent]
ClearAll         == [do |-> "clear", chat |-> NoChat, title |-> Absent]

(* Something on its way may yet change c or hide a change of c. *)
Busy(c) == \/ \E cmd \in sent : cmd.chat \in {c, NoChat}
           \/ making[c] = "asked"
           \/ start # "ready"
Sends(cmd, touched) == /\ sent' = sent \union {cmd}
                       /\ upset' = (upset \/ \E c \in touched : Busy(c))

(* What the user does, a bounded number of times. *)
Acts == acts < MaxActs /\ acts' = acts + 1

(* usePersistActiveConversation remembers what is open whenever it changes. *)
Opens(c) == open' = c /\ lastOpen' = c

-----------------------------------------------------------------------------
(***************************************************************************)
(* The window starts with an empty store, and the hook that remembers the  *)
(* open conversation runs for the first time.  What was on its way lands   *)
(* after a reload and dies with the process.                               *)
(***************************************************************************)
NoTitling == [chat |-> NoChat, phase |-> "idle", looks |-> 0]

Init == /\ stored = Nothing /\ shown = Nothing
        /\ open = NoChat /\ lastOpen = NoChat
        /\ sent = {} /\ making = [c \in Chats |-> "unused"]
        /\ start = "listing" /\ listed = Nothing
        /\ naming = {} /\ titlings = [i \in 1 .. MaxTitlings |-> NoTitling]
        /\ errors = 0 /\ starts = 1 /\ acts = 0
        /\ byUser = Nothing /\ wasOpen = NoChat /\ upset = FALSE

Restart ==
    /\ starts < MaxStarts
    /\ starts' = starts + 1
    /\ \/ UNCHANGED sent
       \/ sent' = {}
    /\ making' = [c \in Chats |-> IF making[c] = "asked" THEN "lost" ELSE making[c]]
    /\ shown' = Nothing /\ Opens(NoChat)
    /\ start' = "listing" /\ listed' = Nothing
    /\ naming' = {} /\ titlings' = [i \in DOMAIN titlings |->
                                      IF titlings[i].phase = "idle" THEN NoTitling
                                      ELSE [titlings[i] EXCEPT !.phase = "ended"]]
    /\ byUser' = Nothing /\ wasOpen' = open
    /\ upset' = (sent' # {} \/ \E c \in Chats : making[c] = "asked")
    /\ UNCHANGED <<stored, errors, acts>>

(***************************************************************************)
(* createConversation: the command is sent, and only when it is answered,  *)
(* with the id or with null, does the window show the conversation.  One   *)
(* that throws shows nothing.                                              *)
(***************************************************************************)
Fails == errors < MaxFaults /\ errors' = errors + 1 /\ upset' = TRUE

Asks(c) == making[c] = "unused" /\ making' = [making EXCEPT ![c] = "asked"]

CreateNew(c) ==
    /\ Acts /\ Asks(c)
    /\ upset' = (upset \/ start # "ready" \/ ClearAll \in sent)
    /\ UNCHANGED <<stored, shown, open, lastOpen, sent, start, listed, naming, titlings,
                   errors, starts, byUser, wasOpen>>

Shows(c) == shown' = [shown EXCEPT ![c] = Default] /\ Opens(c)
Created(c) ==
    /\ making[c] = "asked"
    /\ \/ /\ stored' = [stored EXCEPT ![c] = Default]
          /\ Shows(c) /\ making' = [making EXCEPT ![c] = "made"]
          /\ UNCHANGED <<errors, upset>>
       \/ /\ Fails /\ UNCHANGED stored
          /\ Shows(c) /\ making' = [making EXCEPT ![c] = "made"]
       \/ /\ Fails /\ making' = [making EXCEPT ![c] = "lost"]
          /\ UNCHANGED <<stored, shown, open, lastOpen>>
    /\ UNCHANGED <<sent, start, listed, naming, titlings, starts, acts, byUser, wasOpen>>

(* A creation that timed out, or whose window is gone, is done after all.  *)
CreatedLate(c) ==
    /\ making[c] = "lost"
    /\ making' = [making EXCEPT ![c] = "made"]
    /\ stored' = [stored EXCEPT ![c] = Default]
    /\ upset' = TRUE
    /\ UNCHANGED <<shown, open, lastOpen, sent, start, listed, naming, titlings, errors,
                   starts, acts, byUser, wasOpen>>

(***************************************************************************)
(* initialize of the conversations: the list is asked for, and replaces    *)
(* what the window has.  The conversation that was open last is opened,    *)
(* else the one used last, which may be any.  Without a list, or with an   *)
(* empty one, a new conversation is created.                               *)
(***************************************************************************)
List ==
    /\ start = "listing"
    /\ start' = "listed"
    /\ \/ listed' = stored /\ UNCHANGED <<errors, upset>>
       \/ listed' = Nothing /\ Fails
    /\ UNCHANGED <<stored, shown, open, lastOpen, sent, making, naming, titlings, starts,
                   acts, byUser, wasOpen>>

RestoredIfThere == {lastOpen} \intersect Those(listed)      \* a slip
Restored == IF lastOpen \in Those(listed) THEN {lastOpen} ELSE Those(listed)
Listed ==
    /\ start = "listed"
    /\ start' = "ready"
    /\ IF Those(listed) # {}
         THEN /\ shown' = listed
              /\ \E c \in Restored : Opens(c)
              /\ UNCHANGED making
         ELSE /\ IF \E c \in Chats : making[c] = "unused"
                   THEN \E c \in Chats : Asks(c)
                   ELSE UNCHANGED making
              /\ UNCHANGED <<shown, open, lastOpen>>
    /\ UNCHANGED <<stored, sent, listed, naming, titlings, errors, starts, acts, byUser,
                   wasOpen, upset>>

-----------------------------------------------------------------------------
(* What the user does with the conversations that are shown. *)
Select(c) ==
    /\ Acts /\ c \in Those(shown) /\ c # open
    /\ Opens(c)
    /\ UNCHANGED <<stored, shown, sent, making, start, listed, naming, titlings, errors,
                   starts, byUser, wasOpen, upset>>

Rename(c) ==
    /\ Acts /\ c \in Those(shown)
    /\ shown' = [shown EXCEPT ![c] = Typed(acts')]
    /\ byUser' = [byUser EXCEPT ![c] = Typed(acts')]
    /\ Sends(Update(c, Typed(acts')), {c})
    /\ UNCHANGED <<stored, open, lastOpen, making, start, listed, naming, titlings, errors,
                   starts, wasOpen>>

Forgets(gone) == /\ shown' = [c \in Chats |-> IF c \in gone THEN Absent ELSE shown[c]]
                 /\ byUser' = [c \in Chats |-> IF c \in gone THEN Absent ELSE byUser[c]]
                 /\ IF open \in gone THEN Opens(NoChat) ELSE UNCHANGED <<open, lastOpen>>
                 /\ UNCHANGED <<stored, making, start, listed, naming, titlings, errors,
                                starts, wasOpen>>
DeleteHere(c) == Acts /\ c \in Those(shown) /\ Forgets({c}) /\ UNCHANGED <<sent, upset>>  \* a slip
Delete(c) == /\ Acts /\ c \in Those(shown)
             /\ Forgets({c})
             /\ Sends(Remove(c), {c})
Clear == /\ Acts /\ Those(shown) # {}
         /\ Forgets(Those(shown))
         /\ Sends(ClearAll, Chats)

(* An import replaces the store of the window and nothing else. *)
Import(c) ==
    /\ Acts /\ start = "ready"
    /\ shown' = [Nothing EXCEPT ![c] = Default]
    /\ byUser' = Nothing
    /\ upset' = TRUE
    /\ UNCHANGED <<stored, open, lastOpen, sent, making, start, listed, naming, titlings,
                   errors, starts, wasOpen>>

(* A command lands, or fails without a word to the window. *)
Applied(cmd) ==
    [c \in Chats |-> CASE cmd.do = "update" /\ cmd.chat = c /\ stored[c] # Absent -> cmd.title
                       [] cmd.do = "clear" \/ (cmd.do = "delete" /\ cmd.chat = c) -> Absent
                       [] OTHER -> stored[c]]
Land(cmd) ==
    /\ cmd \in sent
    /\ sent' = sent \ {cmd}
    /\ \/ stored' = Applied(cmd) /\ UNCHANGED <<errors, upset>>
       \/ Fails /\ UNCHANGED stored
    /\ UNCHANGED <<shown, open, lastOpen, making, start, listed, naming, titlings, starts,
                   acts, byUser, wasOpen>>

-----------------------------------------------------------------------------
(***************************************************************************)
(* runAutoGenerate, started when a chat has ended.  It looks the           *)
(* conversation up several times, asks for a title unless one is being     *)
(* asked for, and looks again before it writes.                            *)
(***************************************************************************)
TitlingKeeps == UNCHANGED <<stored, open, lastOpen, making, start, listed, errors, starts,
                            acts, byUser, wasOpen>>
Phase(i, phase) == titlings' = [titlings EXCEPT ![i].phase = phase]

ChatEnds(i, c) ==
    /\ titlings[i].phase = "idle" /\ c \in Those(shown)
    /\ titlings' = [titlings EXCEPT ![i] = [chat |-> c, phase |-> "looking", looks |-> 0]]
    /\ TitlingKeeps /\ UNCHANGED <<shown, sent, naming, upset>>

MayAskTwice(c) == shown[c] = Default       \* a slip
MayAsk(c) == shown[c] = Default /\ c \notin naming
LastLookTooLate(i) == titlings[i].looks = MaxLooks       \* a slip
LastLook(i) == titlings[i].looks + 1 = MaxLooks
LooksUncounted(i) == UNCHANGED titlings       \* a slip
LooksAgain(i) == titlings' = [titlings EXCEPT ![i].looks = @ + 1]
LookUp(i) ==
    LET c == titlings[i].chat
    IN  /\ titlings[i].phase = "looking"
        /\ \/ /\ shown[c] = Absent
              /\ IF LastLook(i) THEN Phase(i, "ended") ELSE LooksAgain(i)
              /\ UNCHANGED naming
           \/ /\ shown[c] # Absent /\ MayAsk(c)
              /\ Phase(i, "asking") /\ naming' = naming \union {c}
           \/ /\ shown[c] # Absent /\ ~MayAsk(c)
              /\ Phase(i, "ended") /\ UNCHANGED naming
        /\ TitlingKeeps /\ UNCHANGED <<shown, sent, upset>>

MayNameAnyway(c) == shown[c] # Absent       \* a slip
MayName(c) == shown[c] = Default
Titled(i) ==
    LET c == titlings[i].chat
    IN  /\ titlings[i].phase = "asking"
        /\ Phase(i, "ended") /\ naming' = naming \ {c}
        /\ \/ /\ MayName(c)
              /\ shown' = [shown EXCEPT ![c] = Generated]
              /\ Sends(Update(c, Generated), {c})
           \/ UNCHANGED <<shown, sent, upset>>      \* no title, or no use for it
        /\ TitlingKeeps

Boot == List \/ Listed
TitleStep(i) == LookUp(i) \/ Titled(i)

Next == \/ Boot
        \/ Restart
        \/ Clear
        \/ \E c \in Chats : \/ CreateNew(c) \/ Created(c) \/ CreatedLate(c)
                            \/ Select(c) \/ Rename(c) \/ Delete(c) \/ Import(c)
        \/ \E cmd \in sent : Land(cmd)
        \/ \E i \in DOMAIN titlings : TitleStep(i) \/ \E c \in Chats : ChatEnds(i, c)

Spec == Init /\ [][Next]_vars

(* Commands are answered or time out, and so do the requests for titles.   *)
FairSpec == Spec /\ WF_vars(Boot) /\ \A i \in 1 .. MaxTitlings : WF_vars(TitleStep(i))

-----------------------------------------------------------------------------
(* Every variable has the shape its comment gives it. *)
TypeOK ==
    /\ {stored, shown, listed, byUser} \subseteq [Chats -> Titles]
    /\ {open, lastOpen, wasOpen} \subseteq Chats \union {NoChat}
    /\ sent \subseteq [do : {"update", "delete", "clear"}, chat : Chats \union {NoChat},
                       title : Titles]
    /\ making \in [Chats -> {"unused", "asked", "made", "lost"}]
    /\ start \in {"listing", "listed", "ready"}
    /\ naming \subseteq Chats
    /\ titlings \in [1 .. MaxTitlings -> [chat : Chats \union {NoChat}, looks : 0 .. MaxLooks - 1,
                                          phase : {"idle", "looking", "asking", "ended"}]]
    /\ errors \in 0 .. MaxFaults /\ starts \in 1 .. MaxStarts /\ acts \in 0 .. MaxActs
    /\ upset \in BOOLEAN

(***************************************************************************)
(* What the window shows is what is stored, titles and all, whenever       *)
(* nothing is on its way: what the user sees now is what the next start    *)
(* finds.  It takes that no command has failed, that nothing was imported, *)
(* and that no two commands on one conversation were on their way at once, *)
(* for which the window does nothing.                                      *)
(***************************************************************************)
AtRest == start = "ready" /\ sent = {} /\ \A c \in Chats : making[c] # "asked"
ShownIsStored == AtRest /\ ~upset => shown = stored

(***************************************************************************)
(* A title that the user has typed is never replaced by a generated one,   *)
(* however long the model takes to think of it.                            *)
(***************************************************************************)
TypedTitleStays ==
    [][\A c \in Chats : start = "ready" /\ shown[c] = byUser[c] /\ shown[c] # Absent
                          => shown'[c] # Generated]_vars

(***************************************************************************)
(* At most one title is asked for at a time for a conversation, and the    *)
(* set of pending titles holds those that are being asked for and no       *)
(* other: a conversation left in it could never be named again.            *)
(***************************************************************************)
Asking == {i \in DOMAIN titlings : titlings[i].phase = "asking"}
PendingIsExact ==
    /\ naming = {titlings[i].chat : i \in Asking}
    /\ \A i, j \in Asking : titlings[i].chat = titlings[j].chat => i = j

(* However the list fails, every start of the window ends. *)
WindowOpens == <>[](start = "ready")

(* Every titling ends, so that its conversation can be named later. *)
TitlingsEnd == \A i \in 1 .. MaxTitlings : titlings[i].phase \in {"looking", "asking"}
                                             ~> titlings[i].phase = "ended"

(***************************************************************************)
(* What usePersistActiveConversation is for: the conversation that was     *)
(* open when the window went, "restored on the next launch", is the one    *)
(* that the next start opens, if it is still there and the user has not    *)
(* opened another one meanwhile.                                           *)
(***************************************************************************)
ReopensWhereItWas ==
    [][start = "listed" /\ start' = "ready" /\ open = NoChat
          => (wasOpen \in Those(listed) => open' = wasOpen)]_vars

=============================================================================
