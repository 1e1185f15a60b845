------------------------------ MODULE ViewsProofs ------------------------------
(* Proofs about what the window keeps of the database and of its own stores:  *)
(* the titles that it asks the model for, the conversations in its sidebar,   *)
(* the cards of the projects, the stores that a release has migrated, the     *)
(* rows that are edited and the dialogs. Every theorem is about the Spec of   *)
(* one part of Steps alone, for all values of its constants; the last puts    *)
(* three parts side by side.                                                  *)

(* The window and the database never agree at once: a command is on its way,  *)
(* an event or a list has not come yet. So each invariant says what is due:   *)
(* of a conversation, that it is as it is stored once the one command that    *)
(* covers it has landed (the queue lets no second one out); of a project,     *)
(* that its card is told its row by an event, by the answer of a list or by   *)
(* the run that has it, whichever comes last. A store needs the lowest        *)
(* version that it has been taken back to, and that what a migration made     *)
(* the migration leaves alone; a row with an editor, the conversation that    *)
(* its editor was opened on; and Escape, that the form of the sidebar is      *)
(* mounted exactly when it is asked for.                                      *)
EXTENDS Steps, FiniteSetTheorems, SequenceTheorems, TLAPS

BP == INSTANCE PromptAssemblyProofs WITH
        Texts <- Words, MaxTurns <- MaxAsks, MaxTouches <- MaxTweaks,
        turns <- asks, touches <- tweaks

-----------------------------------------------------------------------------
(* The titles of the conversations.                                        *)

Titlings == [chat : Chats \cup {NoChat}, looks : Nat,
             phase : {"idle", "looking", "asking", "ended"}]
TitlesInv ==
  /\ MaxTitlings \in Nat
  /\ titlings \in [1 .. MaxTitlings -> Titlings]
  /\ C!PendingIsExact

\* One titling goes on to a phase in which it does not ask, and did not before.
LEMMA OtherPhaseKeeps ==
  ASSUME TitlesInv, NEW i \in DOMAIN titlings, titlings[i].phase # "asking",
         titlings' \in [1 .. MaxTitlings -> Titlings],
         \A j \in DOMAIN titlings : j # i => titlings'[j] = titlings[j],
         titlings'[i].phase # "asking", naming' = naming
  PROVE  TitlesInv'
  <1>1. DOMAIN titlings = 1 .. MaxTitlings /\ DOMAIN titlings' = 1 .. MaxTitlings
    BY DEF TitlesInv
  <1>2. C!Asking' = C!Asking /\ \A j \in C!Asking : titlings'[j] = titlings[j]
    BY <1>1 DEF C!Asking
  <1> QED
    BY <1>2 DEF TitlesInv, C!PendingIsExact

\* What a step of a titling does to it.
LEMMA PhaseEffect ==
  ASSUME TitlesInv, NEW i \in DOMAIN titlings, NEW phase \in {"idle", "looking", "asking", "ended"},
         C!Phase(i, phase)
  PROVE  /\ titlings' \in [1 .. MaxTitlings -> Titlings]
         /\ \A j \in DOMAIN titlings : j # i => titlings'[j] = titlings[j]
         /\ titlings'[i].phase = phase /\ titlings'[i].chat = titlings[i].chat
  BY DEF TitlesInv, C!Phase, Titlings

\* Every step keeps the pending titles to those that are asked for.
LEMMA TitlesStep ==
  ASSUME TitlesInv, [C!Next]_C!vars
  PROVE  TitlesInv'
  <1>1. CASE UNCHANGED <<titlings, naming>>
    BY <1>1 DEF TitlesInv, C!PendingIsExact, C!Asking
  <1>2. DOMAIN titlings = 1 .. MaxTitlings /\ titlings \in [1 .. MaxTitlings -> Titlings]
    BY DEF TitlesInv
  <1>3. CASE C!Restart
    <2>1. naming' = {}
      BY <1>3 DEF C!Restart
    <2>2. C!NoTitling \in Titlings /\ C!NoTitling.phase = "idle"
      BY DEF C!NoTitling, Titlings
    <2>3. \A i \in DOMAIN titlings : /\ [titlings[i] EXCEPT !.phase = "ended"] \in Titlings
                                     /\ [titlings[i] EXCEPT !.phase = "ended"].phase = "ended"
      BY <1>2 DEF Titlings
    <2>4. titlings' = [i \in DOMAIN titlings |->
                         IF titlings[i].phase = "idle" THEN C!NoTitling
                         ELSE [titlings[i] EXCEPT !.phase = "ended"]]
      BY <1>3 DEF C!Restart
    <2>5. titlings' \in [1 .. MaxTitlings -> Titlings] /\ C!Asking' = {}
      BY <1>2, <2>2, <2>3, <2>4 DEF C!Asking
    <2> QED
      BY <2>1, <2>5 DEF TitlesInv, C!PendingIsExact
  <1>4. ASSUME NEW i \in DOMAIN titlings, NEW c \in Chats, C!ChatEnds(i, c) PROVE TitlesInv'
    <2> DEFINE new == [chat |-> c, phase |-> "looking", looks |-> 0]
    <2>1. /\ titlings[i].phase = "idle" /\ titlings' = [titlings EXCEPT ![i] = new]
          /\ naming' = naming
      BY <1>4 DEF C!ChatEnds
    <2>2. new \in Titlings /\ new.phase = "looking"
      BY DEF Titlings
    <2> HIDE DEF new
    <2>3. /\ titlings' \in [1 .. MaxTitlings -> Titlings] /\ titlings'[i] = new
          /\ \A j \in DOMAIN titlings : j # i => titlings'[j] = titlings[j]
      BY <1>2, <2>1, <2>2
    <2> QED
      BY <2>1, <2>2, <2>3, OtherPhaseKeeps
  <1>5. ASSUME NEW i \in DOMAIN titlings, C!LookUp(i) PROVE TitlesInv'
    <2> DEFINE c == titlings[i].chat
    <2>1. titlings[i].phase = "looking"
      BY <1>5 DEF C!LookUp
    <2>2. CASE C!Phase(i, "ended") /\ naming' = naming
      BY <2>1, <2>2, PhaseEffect, OtherPhaseKeeps
    <2>3. CASE C!LooksAgain(i) /\ naming' = naming
      <3>1. titlings' = [titlings EXCEPT ![i].looks = titlings[i].looks + 1]
        BY <2>3 DEF C!LooksAgain
      <3>2. /\ titlings' \in [1 .. MaxTitlings -> Titlings] /\ titlings'[i].phase = "looking"
            /\ \A j \in DOMAIN titlings : j # i => titlings'[j] = titlings[j]
        BY <1>2, <2>1, <3>1 DEF Titlings
      <3> QED
        BY <2>1, <2>3, <3>2, OtherPhaseKeeps
    <2>4. CASE C!Phase(i, "asking") /\ naming' = naming \cup {c} /\ c \notin naming
      <3>1. /\ titlings' \in [1 .. MaxTitlings -> Titlings]
            /\ \A j \in DOMAIN titlings : j # i => titlings'[j] = titlings[j]
            /\ titlings'[i].phase = "asking" /\ titlings'[i].chat = c
        BY <2>4, PhaseEffect
      <3>2. C!Asking' = C!Asking \cup {i} /\ i \notin C!Asking
        BY <1>2, <2>1, <3>1 DEF C!Asking
      <3>3. \A j \in C!Asking : titlings'[j] = titlings[j] /\ titlings[j].chat \in naming
        BY <3>1, <3>2 DEF TitlesInv, C!PendingIsExact, C!Asking
      <3>4. naming' = {titlings'[j].chat : j \in C!Asking'}
        BY <2>4, <3>1, <3>2, <3>3 DEF TitlesInv, C!PendingIsExact
      <3>5. \A j, k \in C!Asking' : titlings'[j].chat = titlings'[k].chat => j = k
        BY <2>4, <3>1, <3>2, <3>3 DEF TitlesInv, C!PendingIsExact
      <3> QED
        BY <3>1, <3>4, <3>5 DEF TitlesInv, C!PendingIsExact
    <2> QED
      BY <1>5, <2>2, <2>3, <2>4 DEF C!LookUp, C!MayAsk
  <1>6. ASSUME NEW i \in DOMAIN titlings, C!Titled(i) PROVE TitlesInv'
    <2> DEFINE c == titlings[i].chat
    <2>1. titlings[i].phase = "asking" /\ C!Phase(i, "ended") /\ naming' = naming \ {c}
      BY <1>6 DEF C!Titled
    <2>2. /\ titlings' \in [1 .. MaxTitlings -> Titlings]
          /\ \A j \in DOMAIN titlings : j # i => titlings'[j] = titlings[j]
          /\ titlings'[i].phase = "ended"
      BY <2>1, PhaseEffect
    <2>3. C!Asking' = C!Asking \ {i} /\ i \in C!Asking
      BY <1>2, <2>1, <2>2 DEF C!Asking
    <2>4. \A j \in C!Asking' : titlings'[j] = titlings[j] /\ titlings[j].chat # c
      BY <2>2, <2>3 DEF TitlesInv, C!PendingIsExact, C!Asking
    <2>5. naming' = {titlings'[j].chat : j \in C!Asking'}
      BY <2>1, <2>3, <2>4 DEF TitlesInv, C!PendingIsExact
    <2>6. \A j, k \in C!Asking' : titlings'[j].chat = titlings'[k].chat => j = k
      BY <2>3, <2>4 DEF TitlesInv, C!PendingIsExact
    <2> QED
      BY <2>2, <2>5, <2>6 DEF TitlesInv, C!PendingIsExact
  <1>7. ASSUME NEW c, C!CreateNew(c) \/ C!Created(c) \/ C!CreatedLate(c) \/ C!Select(c)
        PROVE  TitlesInv'
    BY <1>1, <1>7 DEF C!CreateNew, C!Created, C!CreatedLate, C!Select
  <1>8. ASSUME NEW c, C!Rename(c) \/ C!Delete(c) \/ C!Import(c) PROVE TitlesInv'
    BY <1>1, <1>8 DEF C!Rename, C!Delete, C!Import, C!Forgets
  <1>9. CASE C!Boot \/ C!Clear \/ (\E cmd \in sent : C!Land(cmd)) \/ UNCHANGED C!vars
    BY <1>1, <1>9 DEF C!Boot, C!List, C!Listed, C!Clear, C!Forgets, C!Land, C!vars
  <1> QED
    BY <1>3, <1>4, <1>5, <1>6, <1>7, <1>8, <1>9 DEF C!Next, C!TitleStep

\* At first nothing is asked for.
LEMMA TitlesAtFirst ==
  ASSUME C!ConversationsAssumption, C!Init
  PROVE  TitlesInv
  <1>1. C!NoTitling \in Titlings /\ C!NoTitling.phase = "idle"
    BY DEF C!NoTitling, Titlings
  <1>2. naming = {} /\ titlings = [i \in 1 .. MaxTitlings |-> C!NoTitling]
    BY DEF C!Init
  <1>3. titlings \in [1 .. MaxTitlings -> Titlings] /\ C!Asking = {}
    BY <1>1, <1>2 DEF C!Asking
  <1> QED
    BY <1>2, <1>3 DEF TitlesInv, C!PendingIsExact, C!ConversationsAssumption

(* At most one title is asked for at a time for a conversation, and the set   *)
(* of pending titles holds exactly those: no conversation is left in it after *)
(* its titling ended (useAutoTitle.ts).                                       *)
THEOREM TitlesAreAskedOnce ==
  ASSUME C!ConversationsAssumption
  PROVE  C!Spec => []C!PendingIsExact
  <1>1. TitlesInv => C!PendingIsExact
    BY DEF TitlesInv
  <1> QED
    BY <1>1, TitlesAtFirst, TitlesStep, PTL DEF C!Spec

-----------------------------------------------------------------------------
(* The conversations that the window shows. *)

Covers(cmd, c) == cmd.chat \in {c, NoChat}

\* A titling that has begun is of a conversation.
Begun == \A i \in DOMAIN titlings : titlings[i].phase # "idle" => titlings[i].chat \in Chats

IsCommand(cmd) ==
  \/ cmd.do \in {"update", "delete"} /\ cmd.chat \in Chats /\ cmd.title \in Nat
  \/ cmd = C!ClearAll

\* The conversations are functions, and a command is on one of them or on all.
ChatShapes ==
  /\ stored \in [Chats -> Nat] /\ shown \in [Chats -> Nat] /\ listed \in [Chats -> Nat]
  /\ making \in [Chats -> {"unused", "asked", "made", "lost"}]
  /\ acts \in Nat /\ start \in {"listing", "listed", "ready"} /\ upset \in BOOLEAN
  /\ \A cmd \in sent : IsCommand(cmd)

\* What the window shows of a conversation is what the only command on its way
\* to it will make of the row, or the row itself if there is none; and nothing
\* is on its way to one that is not there yet.
Followed(c) ==
  /\ making[c] \in {"unused", "asked"} =>
       shown[c] = C!Absent /\ \A cmd \in sent : cmd.chat # c
  /\ making[c] = "asked" => \A cmd \in sent : ~Covers(cmd, c)
  /\ (\A cmd \in sent : ~Covers(cmd, c)) => shown[c] = stored[c]
  /\ \A cmd \in sent : Covers(cmd, c) =>
       /\ shown[c] = C!Applied(cmd)[c]
       /\ \A another \in sent : Covers(another, c) => another = cmd

\* Before the list is taken the window shows nothing and asks for nothing.
NotYetListed ==
  /\ shown = C!Nothing /\ sent = {} /\ \A c \in Chats : making[c] # "asked"
  /\ start = "listed" => listed = stored

UnmadeIsUnstored ==
  \A c \in Chats : making[c] \in {"unused", "asked"} => stored[c] = C!Absent
InStep == IF start = "ready" THEN \A c \in Chats : Followed(c) ELSE NotYetListed
ChatViewInv ==
  /\ ChatShapes /\ TitlesInv /\ Begun /\ UnmadeIsUnstored
  /\ ~upset => InStep

\* A titling goes through its phases with its conversation.
LEMMA BegunStep ==
  ASSUME TitlesInv, Begun, [C!Next]_C!vars
  PROVE  Begun'
  <1>1. CASE titlings' = titlings
    BY <1>1 DEF Begun
  <1>2. CASE C!Restart
    BY <1>2 DEF C!Restart, Begun, C!NoTitling
  <1>3. ASSUME NEW i \in DOMAIN titlings, NEW c \in Chats, C!ChatEnds(i, c) PROVE Begun'
    <2> DEFINE new == [chat |-> c, phase |-> "looking", looks |-> 0]
    <2>1. titlings' = [titlings EXCEPT ![i] = new] /\ new.chat \in Chats
      BY <1>3 DEF C!ChatEnds
    <2> HIDE DEF new
    <2> QED
      BY <2>1 DEF Begun
  <1>4. ASSUME NEW i \in DOMAIN titlings, C!TitleStep(i) PROVE Begun'
    <2>1. titlings[i].phase # "idle"
      BY <1>4 DEF C!TitleStep, C!LookUp, C!Titled
    <2>2. \/ \E phase : titlings' = [titlings EXCEPT ![i].phase = phase]
          \/ titlings' = [titlings EXCEPT ![i].looks = @ + 1]
      BY <1>4 DEF C!TitleStep, C!LookUp, C!Titled, C!Phase, C!LooksAgain
    <2>3. DOMAIN titlings' = DOMAIN titlings
      BY <2>2
    <2>4. ASSUME NEW j \in DOMAIN titlings, titlings'[j].phase # "idle"
          PROVE  titlings'[j].chat \in Chats
      <3>1. CASE j = i
        <4>1. titlings'[i].chat = titlings[i].chat
          BY <2>2 DEF TitlesInv, Titlings
        <4> QED
          BY <2>1, <3>1, <4>1 DEF Begun
      <3>2. CASE j # i
        <4>1. titlings'[j] = titlings[j]
          BY <2>2, <3>2
        <4> QED
          BY <2>4, <4>1 DEF Begun
      <3> QED
        BY <3>1, <3>2
    <2> QED
      BY <2>3, <2>4 DEF Begun
  <1> QED
    BY <1>1, <1>2, <1>3, <1>4
       DEF C!Next, C!Boot, C!List, C!Listed, C!Clear, C!CreateNew, C!Created, C!CreatedLate,
           C!Select, C!Rename, C!Delete, C!Import, C!Land, C!Forgets, C!vars

\* A command that is sent while nothing is on its way to what it covers.
LEMMA SentIsFollowed ==
  ASSUME C!ConversationsAssumption, ChatViewInv, NEW cmd, NEW touched \in SUBSET Chats,
         C!Sends(cmd, touched), ~upset', touched # {},
         \A c \in Chats : Covers(cmd, c) <=> c \in touched,
         stored' = stored, making' = making, start' = start,
         \A c \in Chats \ touched : shown'[c] = shown[c],
         \A c \in touched : /\ shown'[c] = C!Applied(cmd)[c]
                            /\ making[c] = "unused" =>
                                 cmd.chat # c /\ shown'[c] = C!Absent
  PROVE  start' = "ready" /\ \A c \in Chats : Followed(c)'
  <1>1. ~upset /\ sent' = sent \cup {cmd} /\ \A c \in touched : ~C!Busy(c)
    BY DEF C!Sends, ChatViewInv, ChatShapes
  <1>2. start = "ready" /\ \A c \in Chats : Followed(c)
    BY <1>1 DEF C!Busy, ChatViewInv, InStep
  <1>3. \A c \in touched, another \in sent : ~Covers(another, c)
    BY <1>1 DEF C!Busy, Covers
  <1>4. \A another \in sent', c \in Chats : C!Applied(another)'[c] = C!Applied(another)[c]
    BY DEF C!Applied
  <1>5. ASSUME NEW c \in touched PROVE Followed(c)'
    <2>1. making[c] # "asked" /\ Followed(c)
      BY <1>1, <1>2 DEF C!Busy
    <2> QED
      BY <1>1, <1>3, <1>4, <2>1 DEF Followed, Covers
  <1>6. ASSUME NEW c \in Chats \ touched PROVE Followed(c)'
    <2>1. Followed(c) /\ ~Covers(cmd, c) /\ cmd.chat # c
      BY <1>2 DEF Covers
    <2> QED
      BY <1>1, <1>4, <2>1 DEF Followed, Covers
  <1> QED
    BY <1>2, <1>5, <1>6

\* The shapes stay as every step writes them.
LEMMA ShapesStep ==
  ASSUME C!ConversationsAssumption, TitlesInv, Begun, ChatShapes, [C!Next]_C!vars
  PROVE  ChatShapes'
  <1> USE DEF ChatShapes
  <1>1. C!Nothing \in [Chats -> Nat] /\ 0 \in Nat /\ 1 \in Nat /\ 2 \in Nat /\ acts + 1 \in Nat
    BY DEF C!Nothing, C!Absent
  <1>2. CASE C!Boot
    BY <1>1, <1>2 DEF C!Boot, C!List, C!Listed, C!Asks, C!Fails, C!Opens
  <1>3. CASE C!Restart
    BY <1>1, <1>3 DEF C!Restart
  <1>4. CASE C!Clear
    BY <1>1, <1>4 DEF IsCommand, C!Clear, C!Acts, C!Forgets, C!Sends, C!ClearAll, C!Absent
  <1>5. ASSUME NEW c \in Chats, C!CreateNew(c) \/ C!Created(c) \/ C!CreatedLate(c)
        PROVE  ChatShapes'
    BY <1>1, <1>5 DEF C!CreateNew, C!Created, C!CreatedLate, C!Asks, C!Shows, C!Acts, C!Fails,
                      C!Default
  <1>6. ASSUME NEW c \in Chats, C!Select(c) \/ C!Rename(c) \/ C!Delete(c) \/ C!Import(c)
        PROVE  ChatShapes'
    <2>1. CASE C!Select(c)
      BY <2>1 DEF C!Select, C!Acts
    <2>2. CASE C!Rename(c)
      <3>1. IsCommand(C!Update(c, acts + 3)) /\ acts + 3 \in Nat /\ acts' = acts + 1
        BY <2>2 DEF C!Update, C!Rename, C!Acts, IsCommand
      <3>2. /\ shown' = [shown EXCEPT ![c] = acts + 3]
            /\ sent' = sent \cup {C!Update(c, acts + 3)} /\ upset' \in BOOLEAN
            /\ UNCHANGED <<stored, making, start, listed>>
        BY <2>2, <3>1 DEF C!Rename, C!Sends, C!Typed
      <3> QED
        BY <3>1, <3>2
    <2>3. CASE C!Delete(c)
      <3>1. IsCommand(C!Remove(c)) /\ acts' = acts + 1
        BY <2>3 DEF C!Remove, C!Delete, C!Acts, C!Absent, IsCommand
      <3>2. shown' \in [Chats -> Nat]
        BY <2>3 DEF C!Delete, C!Forgets, C!Absent
      <3> QED
        BY <1>1, <2>3, <3>1, <3>2 DEF C!Delete, C!Forgets, C!Sends
    <2>4. CASE C!Import(c)
      BY <1>1, <2>4 DEF C!Import, C!Acts, C!Default
    <2> QED
      BY <1>6, <2>1, <2>2, <2>3, <2>4
  <1>7. ASSUME NEW cmd \in sent, C!Land(cmd) PROVE ChatShapes'
    <2>1. C!Applied(cmd) \in [Chats -> Nat]
      BY DEF C!Applied, C!Absent, C!ClearAll, IsCommand
    <2> QED
      BY <1>7, <2>1 DEF C!Land, C!Fails
  <1>8. ASSUME NEW i \in DOMAIN titlings, C!TitleStep(i) \/ \E c \in Chats : C!ChatEnds(i, c)
        PROVE  ChatShapes'
    <2>1. UNCHANGED <<stored, making, start, listed, acts>>
      BY <1>8 DEF C!TitleStep, C!LookUp, C!Titled, C!ChatEnds, C!TitlingKeeps
    <2>2. CASE UNCHANGED <<shown, sent, upset>>
      BY <2>1, <2>2
    <2>3. ASSUME titlings[i].phase = "asking", NEW c, c = titlings[i].chat,
                 shown' = [shown EXCEPT ![c] = C!Generated],
                 C!Sends(C!Update(c, C!Generated), {c})
          PROVE  ChatShapes'
      <3>1. IsCommand(C!Update(c, C!Generated)) /\ C!Generated \in Nat
        BY <2>3 DEF C!Update, C!Generated, IsCommand, Begun
      <3> QED
        BY <2>1, <2>3, <3>1 DEF C!Sends
    <2> QED
      BY <1>8, <2>2, <2>3 DEF C!TitleStep, C!LookUp, C!Titled, C!ChatEnds
  <1>9. CASE UNCHANGED C!vars
    BY <1>9 DEF C!vars
  <1> QED
    BY <1>2, <1>3, <1>4, <1>5, <1>6, <1>7, <1>8, <1>9 DEF C!Next

\* The list that is taken is what is stored.
LEMMA ListedInStep ==
  ASSUME ChatViewInv, C!Listed, ~upset'
  PROVE  InStep'
  <1>1. NotYetListed /\ listed = stored /\ start' = "ready" /\ sent' = {} /\ stored' = stored
    BY DEF C!Listed, ChatViewInv, InStep, NotYetListed
  <1>2. stored \in [Chats -> Nat]
    BY DEF ChatViewInv, ChatShapes
  <1>3. shown' = stored
    <2>1. CASE C!Those(listed) # {}
      BY <1>1, <2>1 DEF C!Listed
    <2>2. CASE C!Those(listed) = {}
      <3>1. \A c \in Chats : stored[c] = C!Absent
        BY <1>1, <2>2 DEF C!Those
      <3>2. stored = C!Nothing
        BY <1>2, <3>1 DEF C!Nothing
      <3>3. shown' = shown /\ shown = C!Nothing
        BY <1>1, <2>2 DEF C!Listed, NotYetListed
      <3> QED
        BY <3>2, <3>3
    <2> QED
      BY <2>1, <2>2
  <1>4. ASSUME NEW c \in Chats, making'[c] \in {"unused", "asked"} PROVE stored[c] = C!Absent
    BY <1>4 DEF C!Listed, C!Asks, ChatViewInv, ChatShapes, UnmadeIsUnstored
  <1> QED
    BY <1>1, <1>3, <1>4 DEF InStep, Followed

\* A command lands and makes of the row what the window shows already.
LEMMA LandInStep ==
  ASSUME C!ConversationsAssumption, ChatViewInv, NEW cmd \in sent, C!Land(cmd), ~upset'
  PROVE  InStep'
  <1>1. /\ ~upset /\ stored' = C!Applied(cmd) /\ sent' = sent \ {cmd}
        /\ shown' = shown /\ making' = making /\ start' = start
    BY DEF C!Land, C!Fails, ChatViewInv, ChatShapes
  <1>2. start = "ready" /\ \A c \in Chats : Followed(c)
    BY <1>1 DEF ChatViewInv, InStep, NotYetListed
  <1>3. ASSUME NEW c \in Chats PROVE Followed(c)'
    <2>1. Followed(c) /\ IsCommand(cmd)
      BY <1>2 DEF ChatViewInv, ChatShapes
    <2>2. CASE Covers(cmd, c)
      <3>1. shown[c] = stored'[c] /\ \A another \in sent' : ~Covers(another, c)
        BY <1>1, <2>1, <2>2 DEF Followed
      <3> QED
        BY <1>1, <2>1, <3>1 DEF Followed, Covers
    <2>3. CASE ~Covers(cmd, c)
      <3>1. stored'[c] = stored[c]
        BY <1>1, <2>1, <2>3 DEF C!Applied, Covers, IsCommand, C!ClearAll
      <3>2. \A another : C!Applied(another)'[c] = C!Applied(another)[c]
        BY <3>1 DEF C!Applied
      <3> QED
        BY <1>1, <2>1, <2>3, <3>1, <3>2 DEF Followed, Covers
    <2> QED
      BY <2>2, <2>3
  <1> QED
    BY <1>1, <1>2, <1>3 DEF InStep

\* A creation is asked for, and answered.
LEMMA CreationInStep ==
  ASSUME C!ConversationsAssumption, ChatViewInv, NEW c \in Chats,
         C!CreateNew(c) \/ C!Created(c), ~upset'
  PROVE  InStep'
  <1>1. /\ ~upset /\ start' = start /\ sent' = sent /\ start = "ready"
        /\ \A d \in Chats : Followed(d)
    BY DEF C!CreateNew, C!Created, C!Fails, ChatViewInv, ChatShapes, InStep, NotYetListed
  <1>2. CASE C!CreateNew(c)
    <2>1. /\ making[c] = "unused" /\ C!ClearAll \notin sent
          /\ making' = [making EXCEPT ![c] = "asked"] /\ shown' = shown /\ stored' = stored
      BY <1>1, <1>2 DEF C!CreateNew, C!Asks
    <2>2. \A cmd \in sent : ~Covers(cmd, c)
      BY <1>1, <2>1 DEF Followed, Covers, ChatViewInv, ChatShapes, IsCommand,
                        C!ConversationsAssumption
    <2>3. \A cmd : \A d \in Chats : C!Applied(cmd)'[d] = C!Applied(cmd)[d]
      BY <2>1 DEF C!Applied
    <2>4. ASSUME NEW d \in Chats PROVE Followed(d)'
      BY <1>1, <2>1, <2>2, <2>3 DEF Followed, Covers, ChatViewInv, ChatShapes
    <2> QED
      BY <1>1, <2>4 DEF InStep
  <1>3. CASE C!Created(c)
    <2>1. /\ making[c] = "asked" /\ making' = [making EXCEPT ![c] = "made"]
          /\ shown' = [shown EXCEPT ![c] = C!Default]
          /\ stored' = [stored EXCEPT ![c] = C!Default]
      BY <1>3 DEF C!Created, C!Fails, C!Shows
    <2>2. \A cmd : \A d \in Chats \ {c} : C!Applied(cmd)'[d] = C!Applied(cmd)[d]
      BY <2>1 DEF C!Applied, ChatViewInv, ChatShapes
    <2>3. ASSUME NEW d \in Chats PROVE Followed(d)'
      BY <1>1, <2>1, <2>2 DEF Followed, Covers, ChatViewInv, ChatShapes
    <2> QED
      BY <1>1, <2>3 DEF InStep
  <1> QED
    BY <1>2, <1>3

\* The window shows at once what a command that it sends will do.
LEMMA CommandInStep ==
  ASSUME C!ConversationsAssumption, ChatViewInv, ~upset',
         \/ \E c \in Chats : C!Rename(c) \/ C!Delete(c)
         \/ C!Clear
  PROVE  InStep'
  <1> USE DEF ChatViewInv, ChatShapes, C!ConversationsAssumption
  <1>1. ASSUME NEW c \in Chats, C!Rename(c) PROVE InStep'
    <2> DEFINE cmd == C!Update(c, acts + 3)
    <2>1. C!Sends(cmd, {c}) /\ shown' = [shown EXCEPT ![c] = acts + 3] /\ shown[c] # C!Absent
      BY <1>1 DEF C!Rename, C!Acts, C!Typed, C!Those
    <2>2. ~upset /\ ~C!Busy(c)
      BY <2>1 DEF C!Sends
    <2>3. Followed(c) /\ \A o \in sent : ~Covers(o, c)
      BY <2>2 DEF C!Busy, InStep, Covers
    <2>4. C!Applied(cmd)[c] = acts + 3 /\ making[c] # "unused"
      BY <2>1, <2>3 DEF C!Applied, C!Update, Followed
    <2>5. \A d \in Chats : Covers(cmd, d) <=> d \in {c}
      BY DEF Covers, C!Update
    <2> HIDE DEF cmd
    <2>6. start' = "ready" /\ \A d \in Chats : Followed(d)'
      BY <1>1, <2>1, <2>4, <2>5, SentIsFollowed DEF C!Rename
    <2> QED
      BY <2>6 DEF InStep
  <1>2. ASSUME NEW c \in Chats, C!Delete(c) PROVE InStep'
    <2> DEFINE cmd == C!Remove(c)
    <2>1. C!Sends(cmd, {c}) /\ shown[c] # C!Absent
          /\ shown' = [d \in Chats |-> IF d \in {c} THEN C!Absent ELSE shown[d]]
      BY <1>2 DEF C!Delete, C!Forgets, C!Those
    <2>2. ~upset /\ ~C!Busy(c)
      BY <2>1 DEF C!Sends
    <2>3. Followed(c)
      BY <2>2 DEF C!Busy, InStep
    <2>4. C!Applied(cmd)[c] = C!Absent /\ making[c] # "unused"
      BY <2>1, <2>3 DEF C!Applied, C!Remove, Followed
    <2>5. \A d \in Chats : Covers(cmd, d) <=> d \in {c}
      BY DEF Covers, C!Remove
    <2> HIDE DEF cmd
    <2>6. start' = "ready" /\ \A d \in Chats : Followed(d)'
      BY <1>2, <2>1, <2>4, <2>5, SentIsFollowed DEF C!Delete, C!Forgets
    <2> QED
      BY <2>6 DEF InStep
  <1>3. CASE C!Clear
    <2>1. C!Sends(C!ClearAll, Chats) /\ C!Those(shown) # {}
          /\ UNCHANGED <<stored, making, start>>
      BY <1>3 DEF C!Clear, C!Forgets
    <2>2. \A d \in Chats : shown'[d] = C!Absent
      BY <1>3 DEF C!Clear, C!Forgets, C!Those
    <2>3. Chats # {} /\ \A d \in Chats : C!Applied(C!ClearAll)[d] = C!Absent
      BY <2>1 DEF C!Applied, C!ClearAll, C!Those
    <2>4. \A d \in Chats : Covers(C!ClearAll, d) /\ C!ClearAll.chat # d
      BY DEF Covers, C!ClearAll
    <2>5. start' = "ready" /\ \A d \in Chats : Followed(d)'
      BY <2>1, <2>2, <2>3, <2>4, SentIsFollowed
    <2> QED
      BY <2>5 DEF InStep
  <1> QED
    BY <1>1, <1>2, <1>3

\* A generated title is shown and sent like a typed one.
LEMMA TitledInStep ==
  ASSUME C!ConversationsAssumption, ChatViewInv, ~upset', NEW i \in DOMAIN titlings, C!Titled(i)
  PROVE  InStep'
  <1> DEFINE c == titlings[i].chat
             cmd == C!Update(c, C!Generated)
  <1>1. titlings[i].phase = "asking" /\ c \in Chats
    BY DEF C!Titled, ChatViewInv, Begun
  <1>2. UNCHANGED <<stored, making, start, listed>>
    BY DEF C!Titled, C!TitlingKeeps
  <1>3. CASE C!MayName(c) /\ shown' = [shown EXCEPT ![c] = C!Generated] /\ C!Sends(cmd, {c})
    <2>1. ~upset /\ ~C!Busy(c)
      BY <1>3 DEF C!Sends, ChatViewInv, ChatShapes
    <2>2. Followed(c) /\ \A o \in sent : ~Covers(o, c)
      BY <1>1, <2>1 DEF C!Busy, InStep, Covers, ChatViewInv
    <2>3. shown[c] = stored[c] /\ stored[c] # C!Absent /\ making[c] # "unused"
      BY <1>3, <2>2 DEF Followed, C!MayName, C!Default, C!Absent
    <2>4. C!Applied(cmd)[c] = C!Generated
      BY <1>1, <2>3 DEF C!Applied, C!Update
    <2>5. /\ \A d \in Chats : Covers(cmd, d) <=> d \in {c}
          /\ shown'[c] = C!Generated /\ \A d \in Chats \ {c} : shown'[d] = shown[d]
      BY <1>1, <1>3 DEF Covers, C!Update, C!ConversationsAssumption, ChatViewInv, ChatShapes
    <2> HIDE DEF cmd, c
    <2>6. start' = "ready" /\ \A d \in Chats : Followed(d)'
      BY <1>1, <1>2, <1>3, <2>3, <2>4, <2>5, SentIsFollowed
    <2> QED
      BY <2>6 DEF InStep
  <1>4. CASE UNCHANGED <<shown, sent, upset>>
    BY <1>2, <1>4 DEF ChatViewInv, InStep, Followed, NotYetListed, Covers, C!Applied, C!Nothing
  <1> QED
    BY <1>3, <1>4 DEF C!Titled

\* Every step keeps the window and the database in step.
LEMMA ChatViewStep ==
  ASSUME C!ConversationsAssumption, ChatViewInv, [C!Next]_C!vars
  PROVE  ChatViewInv'
  <1>1. ChatShapes' /\ TitlesInv' /\ Begun'
    BY ShapesStep, TitlesStep, BegunStep DEF ChatViewInv
  <1>2. UnmadeIsUnstored'
    <2> USE DEF ChatViewInv, ChatShapes, UnmadeIsUnstored
    <2>1. CASE stored' = stored /\ \A c \in Chats : making'[c] \in {"unused", "asked"} =>
                                                      making[c] \in {"unused", "asked"}
      BY <2>1
    <2>2. ASSUME NEW c \in Chats, C!Created(c) \/ C!CreatedLate(c) PROVE UnmadeIsUnstored'
      BY <2>2 DEF C!Created, C!CreatedLate, C!Asks
    <2>3. ASSUME NEW cmd \in sent, C!Land(cmd) PROVE UnmadeIsUnstored'
      BY <2>3 DEF C!Land, C!Applied
    <2>4. CASE C!Restart
      BY <2>1, <2>4 DEF C!Restart
    <2>5. ASSUME NEW c \in Chats, C!CreateNew(c) PROVE UnmadeIsUnstored'
      BY <2>1, <2>5 DEF C!CreateNew, C!Asks
    <2>6. CASE C!Listed
      BY <2>1, <2>6 DEF C!Listed, C!Asks
    <2>7. CASE UNCHANGED <<stored, making>>
      BY <2>1, <2>7
    <2> QED
      BY <2>2, <2>3, <2>4, <2>5, <2>6, <2>7
         DEF C!Next, C!Boot, C!List, C!Clear, C!Select, C!Rename, C!Delete, C!Import,
             C!Forgets, C!TitleStep, C!LookUp, C!Titled, C!ChatEnds, C!TitlingKeeps, C!vars
  <1>3. ASSUME ~upset' PROVE InStep'
    <2>1. CASE UNCHANGED <<stored, shown, sent, making, start, listed, upset>>
      BY <1>3, <2>1 DEF ChatViewInv, InStep, Followed, NotYetListed, Covers, C!Applied, C!Nothing
    <2>2. CASE C!List
      BY <1>3, <2>2 DEF C!List, C!Fails, ChatViewInv, InStep, NotYetListed, C!Nothing
    <2>3. CASE C!Listed
      BY <1>3, <2>3, ListedInStep
    <2>4. CASE C!Restart
      <3>1. /\ shown' = C!Nothing /\ start' = "listing" /\ sent' = {}
            /\ \A c \in Chats : making'[c] # "asked"
        BY <1>3, <2>4 DEF C!Restart
      <3> QED
        BY <3>1 DEF InStep, NotYetListed, C!Nothing
    <2>5. ASSUME NEW c \in Chats, C!CreateNew(c) \/ C!Created(c) PROVE InStep'
      BY <1>3, <2>5, CreationInStep
    <2>6. ASSUME NEW c \in Chats, C!CreatedLate(c) \/ C!Import(c) PROVE FALSE
      BY <1>3, <2>6 DEF C!CreatedLate, C!Import
    <2>7. CASE C!Clear \/ \E c \in Chats : C!Rename(c) \/ C!Delete(c)
      BY <1>3, <2>7, CommandInStep
    <2>8. ASSUME NEW cmd \in sent, C!Land(cmd) PROVE InStep'
      BY <1>3, <2>8, LandInStep
    <2>9. ASSUME NEW i \in DOMAIN titlings, C!TitleStep(i) \/ \E c \in Chats : C!ChatEnds(i, c)
          PROVE  InStep'
      BY <1>3, <2>1, <2>9, TitledInStep DEF C!TitleStep, C!LookUp, C!ChatEnds, C!TitlingKeeps
    <2> QED
      BY <2>1, <2>2, <2>3, <2>4, <2>5, <2>6, <2>7, <2>8, <2>9
         DEF C!Next, C!Boot, C!Select, C!vars
  <1> QED
    BY <1>1, <1>2, <1>3 DEF ChatViewInv

\* At first the window shows nothing, and nothing is on its way.
LEMMA ChatViewAtFirst ==
  ASSUME C!ConversationsAssumption, C!Init
  PROVE  ChatViewInv
  <1>1. TitlesInv
    BY TitlesAtFirst
  <1>2. ChatShapes /\ UnmadeIsUnstored
    BY DEF C!Init, C!Nothing, C!Absent, ChatShapes, UnmadeIsUnstored
  <1>3. Begun /\ InStep
    BY DEF C!Init, C!NoTitling, Begun, InStep, NotYetListed
  <1> QED
    BY <1>1, <1>2, <1>3 DEF ChatViewInv

(* What the window shows of the conversations is what is stored whenever      *)
(* nothing is on its way, after any number of renamings, deletions, creations *)
(* and restarts, unless a command failed, something was imported or two       *)
(* commands on one conversation crossed (conversation-operations.ts).         *)
THEOREM ConversationsAreStored ==
  ASSUME C!ConversationsAssumption
  PROVE  C!Spec => []C!ShownIsStored
  <1>1. ChatViewInv => C!ShownIsStored
    <2> SUFFICES ASSUME ChatViewInv, C!AtRest, ~upset PROVE shown = stored
      BY DEF C!ShownIsStored
    <2>1. start = "ready" /\ sent = {} /\ \A c \in Chats : Followed(c)
      BY DEF C!AtRest, ChatViewInv, InStep
    <2>2. \A c \in Chats : shown[c] = stored[c]
      BY <2>1 DEF Followed
    <2> QED
      BY <2>2 DEF ChatViewInv, ChatShapes
  <1> QED
    BY <1>1, ChatViewAtFirst, ChatViewStep, PTL DEF C!Spec

\* What the user has typed is told from the default title and a generated one.
TypedApart ==
  /\ byUser \in [Chats -> Nat] /\ acts \in Nat
  /\ \A c \in Chats : byUser[c] \notin {C!Default, C!Generated}

\* Only what the user types is taken for typed.
LEMMA TypedStep ==
  ASSUME TypedApart, [C!Next]_C!vars
  PROVE  TypedApart'
  <1> USE DEF TypedApart, C!Absent, C!Default, C!Generated
  <1>1. CASE byUser' = C!Nothing /\ acts' \in {acts, acts + 1}
    BY <1>1 DEF C!Nothing
  <1>2. CASE UNCHANGED byUser /\ acts' \in {acts, acts + 1}
    BY <1>2
  <1>3. ASSUME NEW c \in Chats, C!Rename(c) PROVE TypedApart'
    BY <1>3 DEF C!Rename, C!Acts, C!Typed
  <1>4. CASE C!Clear \/ \E c \in Chats : C!Delete(c)
    <2>1. \E left : byUser' = [c \in Chats |-> IF c \in left THEN C!Absent ELSE byUser[c]]
      BY <1>4 DEF C!Clear, C!Delete, C!Forgets
    <2>2. acts' = acts + 1
      BY <1>4 DEF C!Clear, C!Delete, C!Acts
    <2> QED
      BY <2>1, <2>2
  <1> QED
    BY <1>1, <1>2, <1>3, <1>4
       DEF C!Next, C!Boot, C!List, C!Listed, C!Restart, C!CreateNew, C!Created, C!CreatedLate,
           C!Select, C!Import, C!Land, C!TitleStep, C!LookUp, C!Titled, C!ChatEnds,
           C!TitlingKeeps, C!Acts, C!vars

(* A title that the user has typed is never replaced by a generated one,      *)
(* however long the model takes: the titling looks again before it writes     *)
(* (useAutoTitle.ts).                                                           *)
THEOREM TypedTitlesStay ==
  ASSUME C!ConversationsAssumption
  PROVE  C!Spec => C!TypedTitleStays
  <1> DEFINE Kept == \A c \in Chats : start = "ready" /\ shown[c] = byUser[c] /\ shown[c] # C!Absent
                                        => shown'[c] # C!Generated
  <1>1. ASSUME C!Init PROVE TypedApart
    BY <1>1 DEF C!Init, C!Nothing, TypedApart, C!Absent, C!Default, C!Generated
  <1>2. ASSUME ChatViewInv, TypedApart, [C!Next]_C!vars, NEW c \in Chats, start = "ready",
               shown[c] = byUser[c], shown[c] # C!Absent
        PROVE  shown'[c] # C!Generated
    <2> USE DEF C!Absent, C!Default, C!Generated, C!Typed, C!Nothing
    <2>1. shown[c] \notin {C!Default, C!Generated} /\ shown \in [Chats -> Nat] /\ acts \in Nat
      BY <1>2 DEF TypedApart, ChatViewInv, ChatShapes
    <2>2. CASE shown' = shown \/ shown' = C!Nothing
      BY <2>1, <2>2
    <2>3. ASSUME NEW d \in Chats, \/ shown' = [shown EXCEPT ![d] = C!Default]
                                  \/ shown' = [C!Nothing EXCEPT ![d] = C!Default]
          PROVE  shown'[c] # C!Generated
      BY <2>1, <2>3
    <2>4. ASSUME NEW left, C!Forgets(left) PROVE shown'[c] # C!Generated
      BY <2>1, <2>4 DEF C!Forgets
    <2>5. ASSUME NEW d \in Chats, C!Rename(d) PROVE shown'[c] # C!Generated
      BY <2>1, <2>5 DEF C!Rename, C!Acts
    <2>6. ASSUME NEW i \in DOMAIN titlings, C!Titled(i) PROVE shown'[c] # C!Generated
      BY <2>1, <2>6 DEF C!Titled, C!MayName
    <2> QED
      BY <1>2, <2>2, <2>3, <2>4, <2>5, <2>6
         DEF C!Next, C!Boot, C!List, C!Listed, C!Restart, C!Clear, C!CreateNew, C!Created,
             C!CreatedLate, C!Shows, C!Select, C!Delete, C!Import, C!Land, C!TitleStep,
             C!LookUp, C!ChatEnds, C!vars
  <1>3. ChatViewInv /\ TypedApart /\ [C!Next]_C!vars => [Kept]_C!vars
    BY <1>2
  <1> QED
    BY <1>1, <1>3, ChatViewAtFirst, ChatViewStep, TypedStep, PTL DEF C!Spec, C!TypedTitleStays

-----------------------------------------------------------------------------
(* The cards of the projects. *)

CardEvents == [of : Cards, kind : {"progress", "completed", "complete", "error"}]
CardRuns == [n : Nat, of : Cards, at : {"live", "completed", "ready", "failed"}]
RowStatuses == W!Statuses \cup {"new", "gone"}
LoadRecords == [n : 1 .. MaxLoads, read : {W!Unread} \cup [Cards -> RowStatuses]]

\* The rows, the cards and what is on its way have the shapes that the code gives them.
CardShapes ==
  /\ ragRows \in [Cards -> RowStatuses] /\ shownOn \in [Cards -> W!Statuses \cup {"none"}]
  /\ indexings \subseteq CardRuns /\ cardActs \in Nat
  /\ events \in Seq(CardEvents)
  /\ loads \subseteq LoadRecords
  /\ \A a \in answers : /\ a.of \in Cards /\ a.kind \in {"added", "updated", "removed"}
                        /\ a.kind # "removed" => a.status \in W!Statuses

\* The lists that are read and not taken, and what is to come of one project.
ReadLists == {l \in loads : l.read # W!Unread}
RunsOf(p) == {r \in indexings : r.of = p}
ToldOf(p) == {i \in DOMAIN events : events[i].of = p}
IsRow(p) == ragRows[p] \in W!Statuses
Fits(p, s) == s = ragRows[p] \/ (s = "error" /\ ragRows[p] = "indexing")

\* The row tells how far a run is.
StageFits(r) ==
  \/ ragRows[r.of] = "gone"
  \/ r.at \in {"live", "completed"} /\ ragRows[r.of] = "indexing"
  \/ r.at = "ready" /\ ragRows[r.of] = "ready"
  \/ r.at = "failed" /\ ragRows[r.of] \in {"error", "indexing"}

\* The lists and the answers on their way to the window have read the row as it is.
AnswersFit(p) ==
  /\ \A l \in ReadLists : l.read[p] = ragRows[p]
  /\ \A a \in answers : a.of = p =>
       /\ a.kind = "removed" => ragRows[p] = "gone"
       /\ a.kind # "removed" => a.status = ragRows[p] /\ IsRow(p)

\* A card without a row, or a row without a card, is put right by what is to come.
CardToCome(p) ==
  /\ shownOn[p] = "none" /\ IsRow(p) =>
       ReadLists # {} \/ \E a \in answers : a.of = p /\ a.kind = "added"
  /\ shownOn[p] # "none" /\ ~IsRow(p) =>
       ReadLists # {} \/ \E a \in answers : a.of = p /\ a.kind = "removed"

\* One run at most is on its way; when it is done the last that was told fits the
\* row, and when that is heard the card does.
RunsFit(p) ==
  /\ \A r, s \in RunsOf(p) : r = s
  /\ \A r \in RunsOf(p) : StageFits(r)
  /\ RunsOf(p) = {} /\ IsRow(p) =>
       /\ \A i \in ToldOf(p) : (\A j \in ToldOf(p) : j <= i)
                                 => Fits(p, W!StatusOf(events[i].kind))
       /\ ToldOf(p) = {} /\ shownOn[p] # "none" => Fits(p, shownOn[p]) \/ ReadLists # {}

Due(p) == AnswersFit(p) /\ CardToCome(p) /\ RunsFit(p)
NewIsUntold == \A p \in Cards : ragRows[p] = "new" => RunsOf(p) = {} /\ ToldOf(p) = {}
CardsInv == CardShapes /\ NewIsUntold /\ \A p \in Cards \ crossed : Due(p)

\* What a project is due depends on nothing but this.
LEMMA DueOfTheSame ==
  ASSUME NEW p, Due(p), ragRows'[p] = ragRows[p], shownOn'[p] = shownOn[p],
         RunsOf(p)' = RunsOf(p), events' = events, ReadLists' = ReadLists,
         \A a : a.of = p => (a \in answers' <=> a \in answers)
  PROVE  Due(p)'
  <1>1. AnswersFit(p)'
    BY DEF Due, AnswersFit, IsRow
  <1>2. CardToCome(p)'
    BY DEF Due, CardToCome, IsRow
  <1>3. RunsFit(p)'
    <2>1. ToldOf(p)' = ToldOf(p)
      BY DEF ToldOf
    <2>2. \A s : Fits(p, s)' <=> Fits(p, s)
      BY DEF Fits
    <2>3. \A r \in RunsOf(p) : StageFits(r)' <=> StageFits(r)
      BY DEF StageFits, RunsOf
    <2> QED
      BY <2>1, <2>2, <2>3 DEF Due, RunsFit, IsRow, W!StatusOf
  <1> QED
    BY <1>1, <1>2, <1>3 DEF Due

\* What is asked for has not been read yet.
LEMMA AsksUnread ==
  ASSUME W!Asks \/ UNCHANGED loads
  PROVE  ReadLists' = ReadLists
  <1>1. W!Unread' = W!Unread
    BY DEF W!Unread
  <1>2. CASE W!Asks
    BY <1>1, <1>2 DEF W!Asks, ReadLists
  <1>3. CASE UNCHANGED loads
    BY <1>1, <1>3 DEF ReadLists
  <1> QED
    BY <1>2, <1>3

\* What is told is told last.
LEMMA TellEffect ==
  ASSUME CardShapes, NEW p \in Cards, NEW kind \in {"progress", "completed", "complete", "error"},
         W!Tell(p, kind)
  PROVE  /\ events' \in Seq(CardEvents)
         /\ \A q \in Cards : q # p => ToldOf(q)' = ToldOf(q)
         /\ ToldOf(p)' = ToldOf(p) \cup {Len(events) + 1}
         /\ events'[Len(events) + 1].kind = kind
         /\ \A i \in DOMAIN events : events'[i] = events[i] /\ i <= Len(events)
         /\ DOMAIN events = 1 .. Len(events) /\ Len(events) \in Nat
  <1> DEFINE e == [of |-> p, kind |-> kind]
  <1>1. e \in CardEvents /\ e.of = p /\ e.kind = kind
    BY DEF CardEvents
  <1>2. events' = Append(events, e) /\ events \in Seq(CardEvents)
    BY DEF W!Tell, CardShapes
  <1> HIDE DEF e
  <1>3. /\ DOMAIN events' = 1 .. Len(events) + 1 /\ DOMAIN events = 1 .. Len(events)
        /\ Len(events) \in Nat /\ events'[Len(events) + 1] = e
        /\ \A i \in 1 .. Len(events) : events'[i] = events[i]
        /\ events' \in Seq(CardEvents)
    BY <1>1, <1>2
  <1> QED
    BY <1>1, <1>3 DEF ToldOf

\* A run moves on: it is the same run of the same project, further on.
LEMMA MovesEffect ==
  ASSUME CardShapes, NEW r \in indexings, NEW to \in {"live", "completed", "ready", "failed"},
         W!Moves(r, to)
  PROVE  /\ indexings' \subseteq CardRuns
         /\ \A q \in Cards : q # r.of => RunsOf(q)' = RunsOf(q)
         /\ RunsOf(r.of)' = (RunsOf(r.of) \ {r}) \cup {[r EXCEPT !.at = to]}
         /\ [r EXCEPT !.at = to].at = to /\ [r EXCEPT !.at = to].of = r.of
  <1> DEFINE s == [r EXCEPT !.at = to]
  <1>1. r \in CardRuns
    BY DEF CardShapes
  <1>2. s \in CardRuns /\ s.at = to /\ s.of = r.of
    BY <1>1 DEF CardRuns
  <1>3. indexings' = (indexings \ {r}) \cup {s}
    BY DEF W!Moves
  <1> HIDE DEF s
  <1>4. indexings' \subseteq CardRuns
    BY <1>2, <1>3 DEF CardShapes
  <1>5. /\ \A q \in Cards : q # r.of => RunsOf(q)' = RunsOf(q)
        /\ RunsOf(r.of)' = (RunsOf(r.of) \ {r}) \cup {s}
    BY <1>2, <1>3 DEF RunsOf
  <1> QED
    BY <1>2, <1>4, <1>5 DEF s

\* Lists are asked for, read and taken.
LEMMA LoadsStep ==
  ASSUME CardShapes, [W!Next]_W!ragVars
  PROVE  loads' \subseteq LoadRecords
  <1>1. loads \subseteq LoadRecords /\ ragRows \in [Cards -> RowStatuses]
    BY DEF CardShapes, LoadRecords
  <1>2. ASSUME W!Asks PROVE loads' \subseteq LoadRecords
    BY <1>1, <1>2 DEF W!Asks, LoadRecords
  <1>3. ASSUME NEW l \in loads, W!LoadRead(l) PROVE loads' \subseteq LoadRecords
    <2>1. [l EXCEPT !.read = ragRows] \in LoadRecords
      BY <1>1 DEF LoadRecords
    <2> QED
      BY <1>1, <1>3, <2>1 DEF W!LoadRead
  <1>4. CASE loads' \subseteq loads
    BY <1>1, <1>4
  <1> QED
    BY <1>2, <1>3, <1>4
       DEF W!Next, W!Start, W!Completed, W!MarksReady, W!MarksError, W!TellsEnd, W!RunKeeps,
           W!Hear, W!Mount, W!Listen, W!Leave, W!LoadTaken, W!LoadFails, W!Add, W!Remove,
           W!Update, W!SetModel, W!CommandKeeps, W!Answered, W!Select, W!OpenModal, W!FormAsks,
           W!Deactivate, W!ClickInside, W!CloseByClick, W!CloseByKey, W!ViewKeeps, W!ragVars

\* The shapes stay as every step writes them.
LEMMA CardShapesStep ==
  ASSUME CardShapes, [W!Next]_W!ragVars
  PROVE  CardShapes'
  <1>0. loads' \subseteq LoadRecords'
    BY LoadsStep DEF LoadRecords, RowStatuses, W!Statuses, W!Unread
  <1> USE <1>0 DEF CardShapes
  <1>1. {"idle", "indexing", "ready", "error", "gone"} \subseteq RowStatuses
    BY DEF RowStatuses, W!Statuses
  <1>2. ASSUME NEW p \in Cards, W!Start(p) PROVE CardShapes'
    <2> DEFINE run == [n |-> cardActs, of |-> p, at |-> "live"]
    <2>1. run \in CardRuns
      BY DEF CardRuns
    <2>2. W!Tell(p, "progress") /\ indexings' = indexings \cup {run}
      BY <1>2 DEF W!Start
    <2> HIDE DEF run
    <2>3. events' \in Seq(CardEvents)
      BY <2>2, TellEffect
    <2> QED
      BY <1>1, <1>2, <2>1, <2>2, <2>3 DEF W!Start, W!RunKeeps, W!Acts
  <1>3. ASSUME NEW r \in indexings,
               W!Completed(r) \/ W!MarksReady(r) \/ W!MarksError(r) \/ W!TellsEnd(r)
        PROVE  CardShapes'
    <2>1. r.of \in Cards
      BY DEF CardRuns
    <2>2. indexings' \subseteq CardRuns
      <3>1. \/ \E to \in {"completed", "ready", "failed"} : W!Moves(r, to)
            \/ indexings' = indexings \ {r}
        BY <1>3 DEF W!Completed, W!MarksReady, W!MarksError, W!TellsEnd
      <3> QED
        BY <3>1, MovesEffect
    <2>3. events' \in Seq(CardEvents)
      <3>1. \/ \E kind \in {"completed", "complete", "error"} : W!Tell(r.of, kind)
            \/ events' = events
        BY <1>3 DEF W!Completed, W!MarksReady, W!MarksError, W!TellsEnd
      <3> QED
        BY <2>1, <3>1, TellEffect
    <2>4. ragRows' \in [Cards -> RowStatuses]
      BY <1>1, <1>3, <2>1
         DEF W!Completed, W!MarksReady, W!MarksError, W!TellsEnd, W!Writes
    <2>5. UNCHANGED <<shownOn, answers, cardActs>>
      BY <1>3 DEF W!Completed, W!MarksReady, W!MarksError, W!TellsEnd, W!RunKeeps
    <2> QED
      BY <2>2, <2>3, <2>4, <2>5
  <1>4. CASE W!Hear
    <2>1. Head(events) \in CardEvents /\ Tail(events) \in Seq(CardEvents)
      BY <1>4 DEF W!Hear
    <2>2. W!Patched(Head(events)) \in [Cards -> W!Statuses \cup {"none"}]
      BY <2>1 DEF W!Patched, W!StatusOf, W!Statuses, CardEvents
    <2> QED
      BY <1>4, <2>1, <2>2 DEF W!Hear
  <1>5. ASSUME NEW l \in loads, W!LoadTaken(l) PROVE CardShapes'
    BY <1>5 DEF W!LoadTaken, W!Replaced
  <1>6. ASSUME NEW p \in Cards, W!Add(p) \/ W!Remove(p) PROVE CardShapes'
    <2>1. PICK kind \in {"added", "removed"}, s \in {"idle", "gone"} :
            /\ W!Writes(p, s) /\ W!Answer(p, kind, s) /\ (kind = "added" => s = "idle")
      BY <1>6 DEF W!Add, W!Remove
    <2>2. ragRows' \in [Cards -> RowStatuses]
      BY <1>1, <2>1 DEF W!Writes
    <2> QED
      BY <1>6, <2>1, <2>2 DEF W!Add, W!Remove, W!CommandKeeps, W!Acts, W!Answer, W!Statuses
  <1>7. ASSUME NEW p \in Cards, W!Update(p) \/ W!SetModel(p) PROVE CardShapes'
    <2>1. ragRows[p] \in W!Statuses
      BY <1>7 DEF W!Update, W!SetModel, W!Known
    <2> QED
      BY <1>1, <1>7, <2>1 DEF W!Update, W!SetModel, W!CommandKeeps, W!Acts, W!Answer
  <1>8. ASSUME NEW a \in answers, W!Answered(a) PROVE CardShapes'
    <2>1. shownOn' \in [Cards -> W!Statuses \cup {"none"}]
      BY <1>8 DEF W!Answered, W!TakesTheCard
    <2> QED
      BY <1>8, <2>1 DEF W!Answered
  <1>9. CASE UNCHANGED <<ragRows, shownOn, indexings, events, answers>>
             /\ cardActs' \in {cardActs, cardActs + 1}
    BY <1>9
  <1> QED
    BY <1>2, <1>3, <1>4, <1>5, <1>6, <1>7, <1>8, <1>9
       DEF W!Next, W!Mount, W!Listen, W!Leave, W!LoadRead, W!LoadFails, W!Select, W!OpenModal,
           W!Deactivate, W!ClickInside, W!CloseByClick, W!CloseByKey, W!ViewKeeps, W!Acts,
           W!ragVars

\* What is told of another project changes nothing of what is due.
LEMMA ToldToOthers ==
  ASSUME CardShapes, NEW p \in Cards, NEW q \in Cards, p # q, Due(q),
         NEW kind \in {"progress", "completed", "complete", "error"}, W!Tell(p, kind),
         ragRows'[q] = ragRows[q], shownOn' = shownOn, RunsOf(q)' = RunsOf(q),
         ReadLists' = ReadLists, answers' = answers
  PROVE  Due(q)'
  <1>1. ToldOf(q)' = ToldOf(q) /\ \A i \in ToldOf(q) : events'[i] = events[i]
    BY TellEffect DEF ToldOf
  <1>2. AnswersFit(q)'
    BY DEF Due, AnswersFit, IsRow
  <1>3. CardToCome(q)'
    BY DEF Due, CardToCome, IsRow
  <1>4. RunsFit(q)'
    <2>1. \A s : Fits(q, s)' <=> Fits(q, s)
      BY DEF Fits
    <2>2. \A r \in RunsOf(q) : StageFits(r)' <=> StageFits(r)
      BY DEF StageFits, RunsOf
    <2> QED
      BY <1>1, <2>1, <2>2 DEF Due, RunsFit, IsRow, W!StatusOf
  <1> QED
    BY <1>2, <1>3, <1>4 DEF Due

\* A row that is written while nothing on its way has read it, or is crossed.
LEMMA WritesEffect ==
  ASSUME CardsInv, NEW p \in Cards, NEW s, W!Writes(p, s)
  PROVE  /\ ragRows'[p] = s /\ \A q \in Cards : q # p => ragRows'[q] = ragRows[q]
         /\ crossed \subseteq crossed' /\ \A q \in crossed' : q \in crossed \/ q = p
         /\ p \notin crossed' =>
              /\ Due(p) /\ ReadLists = {}
              /\ \A a \in answers : a.of = p => a.kind = "removed" /\ ragRows[p] = "gone"
  <1>1. ragRows' = [ragRows EXCEPT ![p] = s] /\ ragRows \in [Cards -> RowStatuses]
    BY DEF W!Writes, CardsInv, CardShapes
  <1>2. crossed' = IF W!InFlight(p) THEN crossed \cup {p} ELSE crossed
    BY DEF W!Writes
  <1>3. ASSUME p \notin crossed'
        PROVE  /\ Due(p) /\ ReadLists = {}
               /\ \A a \in answers : a.of = p => a.kind = "removed" /\ ragRows[p] = "gone"
    <2>1. Due(p) /\ ~W!InFlight(p)
      BY <1>2, <1>3 DEF CardsInv
    <2> QED
      BY <2>1 DEF W!InFlight, ReadLists, Due, AnswersFit
  <1> QED
    BY <1>1, <1>2, <1>3

\* A start that nothing crosses is the only run, and has all still to tell.
LEMMA StartDue ==
  ASSUME CardsInv, NEW p \in Cards, W!Start(p)
  PROVE  NewIsUntold' /\ \A q \in Cards \ crossed' : Due(q)'
  <1> DEFINE run == [n |-> cardActs, of |-> p, at |-> "live"]
  <1>1. /\ indexings' = indexings \cup {run} /\ IsRow(p)
        /\ ragRows' = [ragRows EXCEPT ![p] = "indexing"] /\ ragRows \in [Cards -> RowStatuses]
        /\ W!Tell(p, "progress") /\ UNCHANGED <<shownOn, loads, answers>> /\ shownOn[p] # "none"
        /\ crossed' = IF W!InFlight(p) \/ \E r \in indexings : r.of = p
                        THEN crossed \cup {p} ELSE crossed
    BY DEF W!Start, W!RunKeeps, W!Known, IsRow, CardsInv, CardShapes
  <1>2. run.of = p /\ run.at = "live"
    OBVIOUS
  <1> HIDE DEF run
  <1>3. /\ \A q \in Cards : q # p => RunsOf(q)' = RunsOf(q)
        /\ RunsOf(p)' = RunsOf(p) \cup {run}
    BY <1>1, <1>2 DEF RunsOf
  <1>4. \A q \in Cards : q # p => ToldOf(q)' = ToldOf(q)
    BY <1>1, TellEffect DEF CardsInv
  <1>5. ReadLists' = ReadLists
    BY <1>1, AsksUnread
  <1>6. NewIsUntold'
    BY <1>1, <1>3, <1>4 DEF CardsInv, NewIsUntold
  <1>7. ASSUME p \notin crossed' PROVE Due(p)'
    <2>1. Due(p) /\ ~W!InFlight(p) /\ RunsOf(p) = {}
      BY <1>1, <1>7 DEF CardsInv, RunsOf
    <2>2. ReadLists = {} /\ \A a \in answers : a.of # p
      <3>1. \A a \in answers : a.of = p => a.kind = "removed"
        BY <2>1 DEF W!InFlight
      <3>2. \A a \in answers : a.of = p /\ a.kind = "removed" => ragRows[p] = "gone"
        BY <2>1 DEF Due, AnswersFit
      <3> QED
        BY <1>1, <2>1, <3>1, <3>2 DEF W!InFlight, ReadLists, IsRow, W!Statuses
    <2>3. AnswersFit(p)'
      BY <1>1, <1>5, <2>2 DEF AnswersFit
    <2>4. CardToCome(p)'
      BY <1>1 DEF CardToCome, IsRow, W!Statuses
    <2>5. RunsFit(p)'
      BY <1>1, <1>2, <1>3, <2>1 DEF RunsFit, StageFits
    <2> QED
      BY <2>3, <2>4, <2>5 DEF Due
  <1>8. ASSUME NEW q \in Cards \ crossed', q # p PROVE Due(q)'
    <2>1. Due(q) /\ ragRows'[q] = ragRows[q]
      BY <1>1, <1>8 DEF CardsInv
    <2> QED
      BY <1>1, <1>3, <1>4, <1>5, <1>8, <2>1, ToldToOthers DEF CardsInv
  <1> QED
    BY <1>6, <1>7, <1>8

\* The first end of a run: nothing is due yet, the run is still there.
LEMMA CompletedDue ==
  ASSUME CardsInv, NEW r \in indexings, W!Completed(r)
  PROVE  NewIsUntold' /\ \A q \in Cards \ crossed' : Due(q)'
  <1> DEFINE p == r.of
             s == [r EXCEPT !.at = "completed"]
  <1>1. /\ r.at = "live" /\ W!Moves(r, "completed") /\ W!Tell(p, "completed") /\ p \in Cards
        /\ UNCHANGED <<ragRows, crossed, shownOn, loads, answers>> /\ CardShapes
    BY DEF W!Completed, W!RunKeeps, CardsInv, CardShapes, CardRuns
  <1>2. /\ \A q \in Cards : q # p => RunsOf(q)' = RunsOf(q)
        /\ RunsOf(p)' = (RunsOf(p) \ {r}) \cup {s} /\ s.at = "completed" /\ s.of = p
        /\ r \in RunsOf(p)
    BY <1>1, MovesEffect DEF RunsOf
  <1>3. \A q \in Cards : q # p => ToldOf(q)' = ToldOf(q)
    BY <1>1, TellEffect
  <1>4. ReadLists' = ReadLists
    BY <1>1, AsksUnread
  <1> HIDE DEF p, s
  <1>5. NewIsUntold'
    BY <1>1, <1>2, <1>3 DEF CardsInv, NewIsUntold
  <1>6. ASSUME p \notin crossed' PROVE Due(p)'
    <2>1. Due(p) /\ \A o \in RunsOf(p) : o = r
      BY <1>1, <1>2, <1>6 DEF CardsInv, Due, RunsFit
    <2>2. RunsOf(p)' = {s}
      BY <1>2, <2>1
    <2>3. StageFits(s)'
      BY <1>1, <1>2, <2>1 DEF Due, RunsFit, StageFits, p
    <2> QED
      BY <1>1, <1>4, <2>1, <2>2, <2>3 DEF Due, AnswersFit, CardToCome, RunsFit, IsRow
  <1>7. ASSUME NEW q \in Cards \ crossed', q # p PROVE Due(q)'
    BY <1>1, <1>2, <1>4, <1>7, ToldToOthers DEF CardsInv
  <1> QED
    BY <1>5, <1>6, <1>7

\* The row is marked before the end is told.
LEMMA MarkedDue ==
  ASSUME CardsInv, NEW r \in indexings, W!MarksReady(r) \/ W!MarksError(r)
  PROVE  NewIsUntold' /\ \A q \in Cards \ crossed' : Due(q)'
  <1> USE DEF CardsInv
  <1> DEFINE p == r.of
  <1>1. PICK to \in {"ready", "failed"} :
          /\ W!Moves(r, to)
          /\ to = "ready" => r.at = "completed"
          /\ to = "failed" => r.at = "live"
          /\ \/ IsRow(p) /\ W!Writes(p, IF to = "ready" THEN "ready" ELSE "error")
             \/ UNCHANGED <<ragRows, crossed>> /\ (to = "failed" \/ ~IsRow(p))
    BY DEF W!MarksReady, W!MarksError, W!Known, IsRow, CardShapes, CardRuns
  <1>2. p \in Cards /\ CardShapes /\ UNCHANGED <<shownOn, loads, answers, events>>
    BY DEF W!MarksReady, W!MarksError, W!RunKeeps, CardShapes, CardRuns
  <1> DEFINE s == [r EXCEPT !.at = to]
  <1>3. /\ \A q \in Cards : q # p => RunsOf(q)' = RunsOf(q)
        /\ RunsOf(p)' = (RunsOf(p) \ {r}) \cup {s} /\ s.at = to /\ s.of = p
        /\ r \in RunsOf(p)
    BY <1>1, <1>2, MovesEffect DEF RunsOf
  <1>4. ReadLists' = ReadLists /\ \A q : ToldOf(q)' = ToldOf(q)
    BY <1>2, AsksUnread DEF ToldOf
  <1> DEFINE word == IF to = "ready" THEN "ready" ELSE "error"
  <1>5. word \in W!Statuses
    BY DEF W!Statuses
  <1>6. CASE IsRow(p) /\ W!Writes(p, word)
    <2>1. /\ ragRows'[p] = word /\ \A q \in Cards : q # p => ragRows'[q] = ragRows[q]
          /\ crossed \subseteq crossed'
          /\ p \notin crossed' =>
               /\ Due(p) /\ ReadLists = {}
               /\ \A a \in answers : a.of = p => a.kind = "removed" /\ ragRows[p] = "gone"
      BY <1>2, <1>6, WritesEffect
    <2>2. IsRow(p)' /\ ragRows[p] # "gone" /\ word # "new"
      BY <1>5, <1>6, <2>1 DEF IsRow, W!Statuses
    <2> HIDE DEF s, p
    <2>3. NewIsUntold'
      BY <1>2, <1>3, <1>4, <2>1, <2>2 DEF NewIsUntold
    <2>4. ASSUME p \notin crossed' PROVE Due(p)'
      <3>1. Due(p) /\ \A o \in RunsOf(p) : o = r
        BY <1>3, <2>1, <2>4 DEF Due, RunsFit
      <3>2. RunsOf(p)' = {s}
        BY <1>3, <3>1
      <3>3. AnswersFit(p)'
        BY <1>2, <1>4, <2>1, <2>2, <2>4 DEF AnswersFit
      <3>4. CardToCome(p)'
        BY <1>2, <1>4, <1>6, <2>2, <3>1 DEF CardToCome, Due
      <3>5. RunsFit(p)'
        BY <1>3, <2>1, <3>2 DEF RunsFit, StageFits
      <3> QED
        BY <3>3, <3>4, <3>5 DEF Due
    <2>5. ASSUME NEW q \in Cards \ crossed', q # p PROVE Due(q)'
      BY <1>2, <1>3, <1>4, <2>1, <2>5, DueOfTheSame
    <2> QED
      BY <2>3, <2>4, <2>5
  <1>7. CASE UNCHANGED <<ragRows, crossed>> /\ (to = "failed" \/ ~IsRow(p))
    <2> HIDE DEF s
    <2>1. NewIsUntold'
      BY <1>2, <1>3, <1>4, <1>7 DEF NewIsUntold
    <2>2. ASSUME p \notin crossed' PROVE Due(p)'
      <3>1. Due(p) /\ \A o \in RunsOf(p) : o = r
        BY <1>2, <1>3, <1>7, <2>2 DEF Due, RunsFit
      <3>2. RunsOf(p)' = {s} /\ StageFits(r)
        BY <1>3, <3>1 DEF Due, RunsFit
      <3>3. StageFits(s)'
        BY <1>1, <1>3, <1>7, <3>2 DEF StageFits, IsRow, W!Statuses
      <3> QED
        BY <1>2, <1>4, <1>7, <3>1, <3>2, <3>3 DEF Due, AnswersFit, CardToCome, RunsFit, IsRow
    <2>3. ASSUME NEW q \in Cards \ crossed', q # p PROVE Due(q)'
      BY <1>2, <1>3, <1>4, <1>7, <2>3, DueOfTheSame
    <2> QED
      BY <2>1, <2>2, <2>3
  <1> QED
    BY <1>1, <1>6, <1>7

\* The end that is told fits the row as the run has left it.
LEMMA EndDue ==
  ASSUME CardsInv, NEW r \in indexings, W!TellsEnd(r)
  PROVE  NewIsUntold' /\ \A q \in Cards \ crossed' : Due(q)'
  <1> DEFINE p == r.of
             word == IF r.at = "ready" THEN "complete" ELSE "error"
  <1>1. /\ r.at \in {"ready", "failed"} /\ indexings' = indexings \ {r} /\ W!Tell(p, word)
        /\ UNCHANGED <<ragRows, crossed, shownOn, loads, answers>>
        /\ CardShapes /\ p \in Cards /\ word \in {"progress", "completed", "complete", "error"}
    BY DEF W!TellsEnd, W!RunKeeps, CardsInv, CardShapes, CardRuns
  <1>2. /\ \A q \in Cards : q # p => RunsOf(q)' = RunsOf(q)
        /\ RunsOf(p)' = RunsOf(p) \ {r} /\ r \in RunsOf(p)
    BY <1>1 DEF RunsOf
  <1>3. ReadLists' = ReadLists
    BY <1>1, AsksUnread
  <1>4. /\ \A q \in Cards : q # p => ToldOf(q)' = ToldOf(q)
        /\ ToldOf(p)' = ToldOf(p) \cup {Len(events) + 1}
        /\ events'[Len(events) + 1].kind = word
        /\ \A i \in ToldOf(p) : i <= Len(events) /\ i \in Nat
        /\ Len(events) \in Nat
    BY <1>1, TellEffect DEF ToldOf
  <1>5. W!StatusOf(word)' = IF r.at = "ready" THEN "ready" ELSE "error"
    BY DEF W!StatusOf
  <1> HIDE DEF p, word
  <1>6. NewIsUntold'
    BY <1>1, <1>2, <1>4 DEF CardsInv, NewIsUntold
  <1>7. ASSUME p \notin crossed' PROVE Due(p)'
    <2>1. Due(p) /\ StageFits(r)
      BY <1>1, <1>2, <1>7 DEF CardsInv, Due, RunsFit
    <2>2. IsRow(p)' => Fits(p, W!StatusOf(word))'
      BY <1>1, <1>5, <2>1 DEF StageFits, Fits, IsRow, W!Statuses, p
    <2>3. \A i \in ToldOf(p)' : (\A j \in ToldOf(p)' : j <= i) => i = Len(events) + 1
      BY <1>4
    <2>4. RunsOf(p)' = {} /\ ToldOf(p)' # {}
      BY <1>2, <1>4, <2>1 DEF Due, RunsFit
    <2>5. RunsFit(p)'
      BY <1>4, <2>2, <2>3, <2>4 DEF RunsFit
    <2> QED
      BY <1>1, <1>3, <2>1, <2>5 DEF Due, AnswersFit, CardToCome, IsRow
  <1>8. ASSUME NEW q \in Cards \ crossed', q # p PROVE Due(q)'
    BY <1>1, <1>2, <1>3, <1>8, ToldToOthers DEF CardsInv
  <1> QED
    BY <1>6, <1>7, <1>8

\* What is heard is shown; what nobody hears makes the card wrong.
LEMMA HearDue ==
  ASSUME CardsInv, W!Hear
  PROVE  NewIsUntold' /\ \A q \in Cards \ crossed' : Due(q)'
  <1> DEFINE e == Head(events)
  <1>1. /\ events # <<>> /\ events \in Seq(CardEvents) /\ events' = Tail(events)
        /\ UNCHANGED <<ragRows, indexings, loads, answers>>
        /\ shownOn \in [Cards -> W!Statuses \cup {"none"}] /\ crossed \subseteq crossed'
        /\ \/ shownOn' = W!Patched(e) /\ crossed' = crossed
           \/ shownOn' = shownOn /\ e.of \in crossed'
    BY DEF W!Hear, CardsInv, CardShapes
  <1>2. /\ e \in CardEvents /\ e = events[1] /\ Len(events) \in Nat \ {0}
        /\ DOMAIN events = 1 .. Len(events) /\ DOMAIN events' = 1 .. Len(events) - 1
        /\ \A i \in DOMAIN events' : events'[i] = events[i + 1]
    BY <1>1
  <1>3. W!StatusOf(e.kind) \in W!Statuses
    BY DEF W!StatusOf, W!Statuses
  <1> HIDE DEF e
  <1>4. /\ \A q, i : i \in ToldOf(q)' <=> i \in 1 .. Len(events) - 1 /\ i + 1 \in ToldOf(q)
        /\ \A q : \A i \in ToldOf(q) : i \in 1 .. Len(events) /\ (i = 1 \/ i - 1 \in ToldOf(q)')
        /\ \A q : 1 \in ToldOf(q) <=> e.of = q
    BY <1>2 DEF ToldOf
  <1>5. ReadLists' = ReadLists /\ \A q : RunsOf(q)' = RunsOf(q)
    BY <1>1, AsksUnread DEF RunsOf
  <1>6. NewIsUntold'
    BY <1>1, <1>4, <1>5 DEF CardsInv, NewIsUntold
  <1>7. ASSUME NEW q \in Cards \ crossed' PROVE Due(q)'
    <2>1. Due(q)
      BY <1>1, <1>7 DEF CardsInv
    <2>2. /\ shownOn'[q] = "none" <=> shownOn[q] = "none"
          /\ e.of # q => shownOn'[q] = shownOn[q]
          /\ e.of = q /\ shownOn[q] # "none" => shownOn'[q] = W!StatusOf(e.kind)
      <3>1. W!Statuses \cap {"none"} = {}
        BY DEF W!Statuses
      <3> QED
        BY <1>1, <1>3, <1>7, <3>1 DEF W!Patched
    <2>3. AnswersFit(q)'
      BY <1>1, <1>5, <2>1 DEF Due, AnswersFit, IsRow
    <2>4. CardToCome(q)'
      BY <1>1, <1>5, <2>1, <2>2 DEF Due, CardToCome, IsRow
    <2>5. RunsFit(q)'
      <3>1. \A s : Fits(q, s)' <=> Fits(q, s)
        BY <1>1 DEF Fits
      <3>2. \A r \in RunsOf(q) : StageFits(r)' <=> StageFits(r)
        BY <1>1 DEF StageFits
      <3>3. ASSUME NEW i \in ToldOf(q)', \A j \in ToldOf(q)' : j <= i, RunsOf(q) = {}, IsRow(q)
            PROVE  Fits(q, W!StatusOf(events'[i].kind))
        <4>1. i + 1 \in ToldOf(q) /\ events'[i] = events[i + 1] /\ i \in Nat
          BY <1>2, <1>4
        <4>2. ASSUME NEW j \in ToldOf(q) PROVE j <= i + 1
          BY <1>2, <1>4, <3>3, <4>1
        <4> QED
          BY <2>1, <3>3, <4>1, <4>2 DEF Due, RunsFit
      <3>4. ASSUME ToldOf(q)' = {}, RunsOf(q) = {}, IsRow(q), shownOn'[q] # "none"
            PROVE  Fits(q, shownOn'[q]) \/ ReadLists # {}
        <4>1. CASE e.of = q
          <5>1. 1 \in ToldOf(q) /\ \A j \in ToldOf(q) : j <= 1
            BY <1>4, <3>4, <4>1
          <5> QED
            BY <1>2, <2>1, <2>2, <3>4, <4>1, <5>1 DEF Due, RunsFit
        <4>2. CASE e.of # q
          <5>1. ToldOf(q) = {}
            BY <1>4, <3>4, <4>2
          <5> QED
            BY <2>1, <2>2, <3>4, <4>2, <5>1 DEF Due, RunsFit
        <4> QED
          BY <4>1, <4>2
      <3> QED
        BY <1>1, <1>5, <2>1, <3>1, <3>2, <3>3, <3>4 DEF Due, RunsFit, IsRow, W!StatusOf
    <2> QED
      BY <2>3, <2>4, <2>5 DEF Due
  <1> QED
    BY <1>6, <1>7

\* A list that is read when nothing older is on its way puts everything right of
\* which nothing is left to be told.
LEMMA LoadReadDue ==
  ASSUME CardsInv, NEW l \in loads, W!LoadRead(l)
  PROVE  NewIsUntold' /\ \A q \in Cards \ crossed' : Due(q)'
  <1> DEFINE new == [l EXCEPT !.read = ragRows]
  <1>1. /\ loads' = (loads \ {l}) \cup {new} /\ l.read = W!Unread
        /\ UNCHANGED <<ragRows, indexings, events, shownOn, answers>>
        /\ crossed' = IF answers = {} /\ \A k \in loads : k.read = W!Unread
                        THEN {p \in crossed : W!Untold(p)} ELSE crossed
        /\ ragRows \in [Cards -> RowStatuses]
    BY DEF W!LoadRead, CardsInv, CardShapes
  <1>2. \A q : RunsOf(q)' = RunsOf(q) /\ ToldOf(q)' = ToldOf(q)
    BY <1>1 DEF RunsOf, ToldOf
  <1>3. NewIsUntold'
    BY <1>1, <1>2 DEF CardsInv, NewIsUntold
  <1>4. ASSUME NEW q \in Cards \ crossed' PROVE Due(q)'
    <2>1. ragRows # W!Unread
      BY <1>1, <1>4 DEF W!Unread, RowStatuses, W!Statuses
    <2>2. new.read = ragRows /\ ReadLists' = ReadLists \cup {new}
      BY <1>1, <2>1 DEF ReadLists, CardsInv, CardShapes, LoadRecords, W!Unread
    <2> HIDE DEF new
    <2>3. CASE q \notin crossed
      BY <1>1, <1>2, <1>4, <2>2, <2>3
         DEF CardsInv, Due, AnswersFit, CardToCome, RunsFit, IsRow, Fits, StageFits, W!StatusOf
    <2>4. CASE q \in crossed
      <3>1. answers = {} /\ ReadLists = {} /\ ~W!Untold(q)
        BY <1>1, <1>4, <2>4 DEF ReadLists
      <3>2. RunsOf(q) = {} /\ ToldOf(q) = {}
        BY <3>1 DEF W!Untold, RunsOf, ToldOf
      <3> QED
        BY <1>1, <1>2, <2>2, <3>1, <3>2 DEF Due, AnswersFit, CardToCome, RunsFit
    <2> QED
      BY <2>3, <2>4
  <1> QED
    BY <1>3, <1>4

\* A list that is taken shows the rows as they are, but for those that are crossed.
LEMMA LoadTakenDue ==
  ASSUME CardsInv, NEW l \in loads, W!LoadTaken(l)
  PROVE  NewIsUntold' /\ \A q \in Cards \ crossed' : Due(q)'
  <1>1. /\ loads' = loads \ {l} /\ l \in ReadLists
        /\ UNCHANGED <<ragRows, indexings, events, answers, crossed>>
        /\ shownOn' = [p \in Cards |-> IF l.read[p] \in W!Statuses THEN l.read[p] ELSE "none"]
    BY DEF W!LoadTaken, W!Replaced, ReadLists
  <1>2. \A q : RunsOf(q)' = RunsOf(q) /\ ToldOf(q)' = ToldOf(q)
    BY <1>1 DEF RunsOf, ToldOf
  <1>3. ReadLists' \subseteq ReadLists
    BY <1>1 DEF ReadLists, W!Unread
  <1>4. NewIsUntold'
    BY <1>1, <1>2 DEF CardsInv, NewIsUntold
  <1>5. ASSUME NEW q \in Cards \ crossed' PROVE Due(q)'
    <2>1. Due(q) /\ l.read[q] = ragRows[q]
      BY <1>1, <1>5 DEF CardsInv, Due, AnswersFit
    <2>2. /\ IsRow(q) => shownOn'[q] = ragRows[q] /\ shownOn'[q] # "none"
          /\ ~IsRow(q) => shownOn'[q] = "none"
      BY <1>1, <1>5, <2>1 DEF IsRow, W!Statuses
    <2>3. AnswersFit(q)'
      BY <1>1, <1>3, <2>1 DEF Due, AnswersFit, IsRow
    <2>4. CardToCome(q)'
      BY <1>1, <2>2 DEF CardToCome, IsRow
    <2>5. RunsFit(q)'
      BY <1>1, <1>2, <2>1, <2>2 DEF Due, RunsFit, IsRow, Fits, StageFits, W!StatusOf
    <2> QED
      BY <2>3, <2>4, <2>5 DEF Due
  <1> QED
    BY <1>4, <1>5

\* What a command answers, about the row as it has written or read it.
LEMMA CommandDue ==
  ASSUME CardsInv, NEW p \in Cards, W!Add(p) \/ W!Remove(p) \/ W!Update(p) \/ W!SetModel(p)
  PROVE  NewIsUntold' /\ \A q \in Cards \ crossed' : Due(q)'
  <1> USE DEF CardsInv
  <1>1. /\ UNCHANGED <<indexings, events, shownOn, loads>>
        /\ ragRows \in [Cards -> RowStatuses]
    BY DEF W!Add, W!Remove, W!Update, W!SetModel, W!CommandKeeps, CardShapes
  <1>2. ReadLists' = ReadLists /\ \A q : RunsOf(q)' = RunsOf(q) /\ ToldOf(q)' = ToldOf(q)
    BY <1>1, AsksUnread DEF RunsOf, ToldOf
  <1>3. ASSUME ragRows'[p] # "new" \/ ragRows[p] = "new",
               \A q \in Cards : q # p => ragRows'[q] = ragRows[q]
        PROVE  NewIsUntold'
    BY <1>2, <1>3 DEF NewIsUntold
  <1>4. ASSUME NEW q \in Cards \ crossed', q # p, ragRows'[q] = ragRows[q], q \notin crossed,
               answers' = answers \/ \E kind, s : W!Answer(p, kind, s)
        PROVE  Due(q)'
    <2>1. \A a : a.of = q => (a \in answers' <=> a \in answers)
      <3>1. CASE answers' = answers
        BY <3>1
      <3>2. ASSUME NEW kind, NEW s, W!Answer(p, kind, s)
            PROVE  \A a : a.of = q => (a \in answers' <=> a \in answers)
        <4> DEFINE new == [of |-> p, kind |-> kind, status |-> s]
        <4>1. new.of = p /\ answers' = answers \cup {new}
          BY <3>2 DEF W!Answer
        <4> HIDE DEF new
        <4> QED
          BY <1>4, <4>1
      <3> QED
        BY <1>4, <3>1, <3>2
    <2> QED
      BY <1>1, <1>2, <1>4, <2>1, DueOfTheSame
  <1>5. ASSUME NEW kind \in {"added", "removed"}, NEW s \in {"idle", "gone"},
               W!Writes(p, s), W!Answer(p, kind, s),
               kind = "added" <=> s = "idle",
               IF kind = "added" THEN ragRows[p] = "new" ELSE shownOn[p] # "none" /\ IsRow(p)
        PROVE  NewIsUntold' /\ \A q \in Cards \ crossed' : Due(q)'
    <2> DEFINE new == [of |-> p, kind |-> kind, status |-> s]
    <2>1. new.of = p /\ new.kind = kind /\ new.status = s /\ answers' = answers \cup {new}
      BY <1>5 DEF W!Answer
    <2> HIDE DEF new
    <2>2. /\ ragRows'[p] = s /\ \A q \in Cards : q # p => ragRows'[q] = ragRows[q]
          /\ crossed \subseteq crossed'
          /\ p \notin crossed' =>
               /\ Due(p) /\ ReadLists = {}
               /\ \A a \in answers : a.of = p => a.kind = "removed" /\ ragRows[p] = "gone"
      BY <1>5, WritesEffect
    <2>3. NewIsUntold'
      BY <1>3, <1>5, <2>2
    <2>4. ASSUME p \notin crossed' PROVE Due(p)'
      <3>1. \A a \in answers : a.of # p
        BY <1>5, <2>2, <2>4 DEF IsRow, W!Statuses
      <3>2. AnswersFit(p)'
        BY <1>2, <1>5, <2>1, <2>2, <2>4, <3>1 DEF AnswersFit, IsRow, W!Statuses
      <3>3. kind = "added" => /\ shownOn[p] = "none" /\ RunsOf(p) = {} /\ ToldOf(p) = {}
        BY <1>5, <2>2, <2>4, <3>1
           DEF Due, CardToCome, IsRow, W!Statuses, NewIsUntold
      <3>4. CardToCome(p)'
        BY <1>1, <1>5, <2>1, <2>2, <3>3 DEF CardToCome, IsRow, W!Statuses
      <3>5. RunsFit(p)'
        BY <1>1, <1>2, <1>5, <2>2, <2>4, <3>3 DEF Due, RunsFit, StageFits, RunsOf, IsRow, W!Statuses
      <3> QED
        BY <3>2, <3>4, <3>5 DEF Due
    <2>5. ASSUME NEW q \in Cards \ crossed', q # p PROVE Due(q)'
      BY <1>4, <1>5, <2>2, <2>5
    <2> QED
      BY <2>3, <2>4, <2>5
  <1>6. CASE W!Add(p)
    BY <1>5, <1>6 DEF W!Add
  <1>7. CASE W!Remove(p)
    BY <1>5, <1>7 DEF W!Remove, W!Known, IsRow
  <1>8. CASE W!Update(p)
    <2> DEFINE new == [of |-> p, kind |-> "updated", status |-> ragRows[p]]
    <2>1. /\ new.of = p /\ new.kind = "updated" /\ new.status = ragRows[p]
          /\ answers' = answers \cup {new} /\ W!Answer(p, "updated", ragRows[p])
          /\ UNCHANGED <<ragRows, crossed>> /\ IsRow(p)
      BY <1>8 DEF W!Update, W!Answer, W!Known, IsRow
    <2> HIDE DEF new
    <2>2. NewIsUntold'
      BY <1>3, <2>1
    <2>3. ASSUME p \notin crossed' PROVE Due(p)'
      BY <1>1, <1>2, <2>1, <2>3
         DEF Due, AnswersFit, CardToCome, RunsFit, IsRow, Fits, StageFits, W!StatusOf
    <2>4. ASSUME NEW q \in Cards \ crossed', q # p PROVE Due(q)'
      BY <1>4, <2>1, <2>4
    <2> QED
      BY <2>2, <2>3, <2>4
  <1>9. CASE W!SetModel(p)
    <2>1. /\ ragRows' = [ragRows EXCEPT ![p] = "idle"] /\ crossed' = crossed \cup {p}
          /\ answers' = answers
      BY <1>9 DEF W!SetModel
    <2>2. NewIsUntold'
      BY <1>1, <1>3, <2>1
    <2>3. ASSUME NEW q \in Cards \ crossed' PROVE Due(q)'
      BY <1>1, <1>4, <2>1, <2>3
    <2> QED
      BY <2>2, <2>3
  <1> QED
    BY <1>6, <1>7, <1>8, <1>9

\* An answer that is taken shows the row as it is, but for what is crossed.
LEMMA AnsweredDue ==
  ASSUME CardsInv, NEW a \in answers, W!Answered(a)
  PROVE  NewIsUntold' /\ \A q \in Cards \ crossed' : Due(q)'
  <1>1. /\ answers' = answers \ {a} /\ UNCHANGED <<ragRows, indexings, events, loads, crossed>>
        /\ shownOn \in [Cards -> W!Statuses \cup {"none"}] /\ a.of \in Cards
        /\ a.kind \in {"added", "updated", "removed"}
    <2>1. CardShapes /\ answers' = answers \ {a}
          /\ UNCHANGED <<ragRows, indexings, events, loads, crossed>>
      BY DEF W!Answered, CardsInv
    <2>2. /\ shownOn \in [Cards -> W!Statuses \cup {"none"}] /\ a.of \in Cards
          /\ a.kind \in {"added", "updated", "removed"}
      BY <2>1 DEF CardShapes
    <2> QED
      BY <2>1, <2>2
  <1>2. ReadLists' = ReadLists /\ \A q : RunsOf(q)' = RunsOf(q) /\ ToldOf(q)' = ToldOf(q)
    BY <1>1, AsksUnread DEF RunsOf, ToldOf
  <1>3. NewIsUntold'
    BY <1>1, <1>2 DEF CardsInv, NewIsUntold
  <1>4. /\ \A q \in Cards : q # a.of => shownOn'[q] = shownOn[q]
        /\ a.kind = "added" => shownOn'[a.of] = a.status
        /\ a.kind = "updated" =>
             shownOn'[a.of] = IF shownOn[a.of] = "none" THEN "none" ELSE a.status
        /\ a.kind = "removed" => shownOn'[a.of] = "none"
    BY <1>1 DEF W!Answered, W!TakesTheCard
  <1>5. ASSUME a.of \notin crossed PROVE Due(a.of)'
    <2> DEFINE p == a.of
    <2>1. Due(p) /\ p \in Cards
      BY <1>1, <1>5 DEF CardsInv
    <2>2. /\ a.kind = "removed" => ragRows[p] = "gone"
          /\ a.kind # "removed" => a.status = ragRows[p] /\ IsRow(p)
      BY <2>1 DEF Due, AnswersFit
    <2> HIDE DEF p
    <2>3. AnswersFit(p)'
      BY <1>1, <1>2, <2>1 DEF Due, AnswersFit, IsRow
    <2>4. CardToCome(p)'
      BY <1>1, <1>2, <1>4, <2>1, <2>2 DEF Due, CardToCome, IsRow, W!Statuses, p
    <2>5. RunsFit(p)'
      <3>1. \A s : Fits(p, s)' <=> Fits(p, s)
        BY <1>1 DEF Fits
      <3>2. \A r \in RunsOf(p) : StageFits(r)' <=> StageFits(r)
        BY <1>1 DEF StageFits
      <3>3. IsRow(p) /\ shownOn'[p] # "none" => shownOn'[p] = ragRows[p] \/ shownOn'[p] = shownOn[p]
        BY <1>1, <1>4, <2>2 DEF p, IsRow, W!Statuses
      <3> QED
        BY <1>1, <1>2, <2>1, <3>1, <3>2, <3>3 DEF Due, RunsFit, IsRow, Fits, W!StatusOf
    <2> QED
      BY <2>3, <2>4, <2>5 DEF Due, p
  <1>6. ASSUME NEW q \in Cards \ crossed', q # a.of PROVE Due(q)'
    <2>1. \A b : b.of = q => (b \in answers' <=> b \in answers)
      BY <1>1, <1>6
    <2> QED
      BY <1>1, <1>2, <1>4, <1>6, <2>1, DueOfTheSame DEF CardsInv
  <1> QED
    BY <1>1, <1>3, <1>5, <1>6

\* Every step keeps what is due.
LEMMA CardsStep ==
  ASSUME CardsInv, [W!Next]_W!ragVars
  PROVE  CardsInv'
  <1> DEFINE goal == NewIsUntold' /\ \A q \in Cards \ crossed' : Due(q)'
  <1>1. CardShapes'
    BY CardShapesStep DEF CardsInv
  <1>2. ASSUME UNCHANGED <<ragRows, indexings, events, shownOn, answers, crossed>>,
               ReadLists' = ReadLists
        PROVE  goal
    <2>1. ReadLists' = ReadLists /\ \A q : RunsOf(q)' = RunsOf(q) /\ ToldOf(q)' = ToldOf(q)
      BY <1>2 DEF RunsOf, ToldOf
    <2>2. NewIsUntold'
      BY <1>2, <2>1 DEF CardsInv, NewIsUntold
    <2>3. ASSUME NEW q \in Cards \ crossed' PROVE Due(q)'
      BY <1>2, <2>1, <2>3, DueOfTheSame DEF CardsInv
    <2> QED
      BY <2>2, <2>3
  <1>3. ASSUME NEW l \in loads, W!LoadFails(l)
        PROVE  goal
    <2>1. ReadLists' = ReadLists
      BY <1>3 DEF W!LoadFails, ReadLists, W!Unread
    <2> QED
      BY <1>2, <1>3, <2>1 DEF W!LoadFails
  <1>4. ASSUME \/ W!Listen \/ W!Leave \/ W!Mount
               \/ \E p \in Cards : \/ W!Select(p) \/ W!OpenModal(p, "settings")
                                  \/ W!OpenModal(p, "explorer")
               \/ W!Deactivate \/ W!ClickInside \/ W!CloseByClick \/ W!CloseByKey
               \/ UNCHANGED W!ragVars
        PROVE  goal
    <2>1. /\ W!Asks \/ UNCHANGED loads
          /\ UNCHANGED <<ragRows, indexings, events, shownOn, answers, crossed>>
      BY <1>4 DEF W!Listen, W!Leave, W!Mount, W!Select, W!OpenModal, W!Deactivate, W!ClickInside,
         W!CloseByClick, W!CloseByKey, W!ViewKeeps, W!FormAsks, W!ragVars
    <2>2. ReadLists' = ReadLists
      BY <2>1, AsksUnread
    <2> QED
      BY <1>2, <2>1, <2>2
  <1>5. ASSUME NEW p \in Cards, \/ W!Start(p) \/ W!Add(p) \/ W!Remove(p) \/ W!Update(p)
                                \/ W!SetModel(p)
        PROVE  goal
    BY <1>5, StartDue, CommandDue
  <1>6. ASSUME NEW r \in indexings,
               W!Completed(r) \/ W!MarksReady(r) \/ W!MarksError(r) \/ W!TellsEnd(r)
        PROVE  goal
    BY <1>6, CompletedDue, MarkedDue, EndDue
  <1>7. ASSUME W!Hear PROVE goal
    BY <1>7, HearDue
  <1>8. ASSUME NEW l \in loads, W!LoadRead(l) \/ W!LoadTaken(l) PROVE goal
    BY <1>8, LoadReadDue, LoadTakenDue
  <1>9. ASSUME NEW a \in answers, W!Answered(a) PROVE goal
    BY <1>9, AnsweredDue
  <1> HIDE DEF goal
  <1>10. goal
    BY <1>3, <1>4, <1>5, <1>6, <1>7, <1>8, <1>9 DEF W!Next
  <1> QED
    BY <1>1, <1>10 DEF CardsInv, goal

(* Once the list of the projects listens and everything on its way has come,  *)
(* every card tells the row, whatever the order in which the runs, their      *)
(* events, the lists and the answers came; but for the projects that the      *)
(* module calls crossed (ProjectList.tsx, rag-store.ts).                      *)
THEOREM CardsAreOfTheRows ==
  W!Spec => []W!CardsTellTheRows
  <1>1. ASSUME W!Init PROVE CardsInv
    <2>1. CardShapes
      BY <1>1 DEF W!Init, CardShapes, RowStatuses, W!Statuses
    <2>2. crossed = Cards /\ indexings = {} /\ events = <<>>
      BY <1>1 DEF W!Init
    <2>3. \A p : ToldOf(p) = {}
      BY <2>2 DEF ToldOf
    <2> QED
      BY <2>1, <2>2, <2>3 DEF CardsInv, NewIsUntold, RunsOf
  <1>2. CardsInv => W!CardsTellTheRows
    <2> SUFFICES ASSUME CardsInv, W!AtRest, NEW p \in Cards \ crossed PROVE W!Tells(p)
      BY DEF W!CardsTellTheRows
    <2>1. Due(p) /\ RunsOf(p) = {} /\ ToldOf(p) = {} /\ ReadLists = {} /\ answers = {}
      BY DEF CardsInv, W!AtRest, RunsOf, ToldOf, ReadLists
    <2>2. ragRows[p] \in RowStatuses
      BY DEF CardsInv, CardShapes
    <2> QED
      BY <2>1, <2>2 DEF Due, CardToCome, RunsFit, IsRow, Fits, W!Tells, RowStatuses
  <1> QED
    BY <1>1, <1>2, CardsStep, PTL DEF W!Spec

-----------------------------------------------------------------------------
(* The migrations of the stores. *)

\* A finite set has a sequence with each of its elements once.
LEMMA SequenceOfASet ==
  ASSUME NEW S, IsFiniteSet(S)
  PROVE  /\ U!IsInjective(U!SetToSeq(S)) /\ U!ToSet(U!SetToSeq(S)) = S
         /\ U!SetToSeq(S) \in Seq(S) /\ (S # {} => U!SetToSeq(S)[1] \in S)
  <1> DEFINE n == Cardinality(S)
             s == U!SetToSeq(S)
  <1>1. n \in Nat /\ ExistsBijection(1 .. n, S)
    BY FS_CardinalityType
  <1>2. PICK b \in Bijection(1 .. n, S) : TRUE
    BY <1>1 DEF ExistsBijection
  <1>3. b \in [1 .. n -> S] /\ U!IsInjective(b)
    BY <1>2 DEF Bijection, Injection, IsInjective, U!IsInjective
  <1>4. s \in [1 .. n -> S] /\ U!IsInjective(s)
    <2>1. U!Cardinality(S) = n
      BY DEF U!Cardinality, Cardinality
    <2>2. s = CHOOSE f \in [1 .. n -> S] : U!IsInjective(f)
      BY <2>1 DEF U!SetToSeq
    <2> HIDE DEF n, s
    <2> QED
      BY <1>3, <2>2
  <1> HIDE DEF s
  <1>5. s \in Injection(1 .. n, S)
    BY <1>4 DEF Injection, IsInjective, U!IsInjective
  <1>6. Cardinality(1 .. n) = n
    BY <1>1, FS_Interval
  <1>7. s \in Surjection(1 .. n, S)
    BY <1>5, <1>6, FS_Injection
  <1>8. U!ToSet(s) = S
    <2>1. \A x \in S : \E i \in 1 .. n : s[i] = x
      BY <1>7 DEF Surjection
    <2>2. DOMAIN s = 1 .. n
      BY <1>4
    <2> QED
      BY <1>4, <2>1, <2>2 DEF U!ToSet
  <1>9. S # {} => s[1] \in S
    <2> SUFFICES ASSUME S # {}
                 PROVE  s[1] \in S
      OBVIOUS
    <2>1. 1 \in 1 .. n
      BY <1>1, <1>7 DEF Surjection
    <2> QED
      BY <1>4, <2>1
  <1>10. s \in Seq(S)
    BY <1>1, <1>4
  <1> QED
    BY <1>4, <1>8, <1>9, <1>10 DEF s

\* The known ones among the first n ids, for every n up to a bound.
KnownOf(ids, those, n) ==
  {f \in [0 .. n -> Seq(those)] :
     /\ f[0] = <<>>
     /\ \A i \in 1 .. n : f[i] = IF ids[i] \in those THEN Append(f[i - 1], ids[i]) ELSE f[i - 1]}

LEMMA KnownOfExists ==
  ASSUME NEW S, NEW ids \in Seq(S), NEW those, NEW n \in 0 .. Len(ids)
  PROVE  KnownOf(ids, those, n) # {}
  <1> DEFINE Wrong == {k \in Nat : k <= Len(ids) /\ KnownOf(ids, those, k) = {}}
  <1>1. Len(ids) \in Nat /\ n \in Nat /\ n <= Len(ids)
    OBVIOUS
  <1>2. SUFFICES ASSUME Wrong # {} PROVE FALSE
    BY <1>1
  <1>3. PICK m \in Wrong : \A k \in Wrong : m <= k
    BY <1>2, BP!LeastExists
  <1>4. CASE m = 0
    <2> DEFINE none == <<>>
               f == [i \in 0 .. m |-> none]
    <2>1. none \in Seq(those)
      OBVIOUS
    <2> HIDE DEF none
    <2>2. f \in [0 .. m -> Seq(those)] /\ f[0] = none
      BY <1>4, <2>1
    <2>3. f \in KnownOf(ids, those, m)
      BY <1>4, <2>2 DEF KnownOf, none
    <2> QED
      BY <1>3, <2>3
  <1>5. CASE m # 0
    <2>1. m \in Nat /\ m - 1 \in Nat /\ m - 1 < m /\ m \in 1 .. Len(ids)
      BY <1>1, <1>3, <1>5
    <2>2. PICK f : f \in KnownOf(ids, those, m - 1)
      <3>1. m - 1 \notin Wrong
        BY <1>3, <2>1
      <3> QED
        BY <2>1, <3>1
    <2>3. f \in [0 .. m - 1 -> Seq(those)] /\ f[0] = <<>>
      BY <2>2 DEF KnownOf
    <2>4. PICK last \in Seq(those) :
            last = IF ids[m] \in those THEN Append(f[m - 1], ids[m]) ELSE f[m - 1]
      <3>1. f[m - 1] \in Seq(those)
        BY <2>1, <2>3
      <3>2. ids[m] \in those => Append(f[m - 1], ids[m]) \in Seq(those)
        BY <3>1
      <3> QED
        BY <3>1, <3>2
    <2> DEFINE g == [i \in 0 .. m |-> IF i < m THEN f[i] ELSE last]
    <2>5. g \in [0 .. m -> Seq(those)] /\ g[0] = <<>>
      BY <2>1, <2>3
    <2>6. ASSUME NEW i \in 1 .. m
          PROVE  g[i] = IF ids[i] \in those THEN Append(g[i - 1], ids[i]) ELSE g[i - 1]
      <3>1. i - 1 \in 0 .. m - 1 /\ g[i - 1] = f[i - 1]
        BY <2>1
      <3>2. CASE i = m
        BY <2>1, <2>4, <3>1, <3>2
      <3>3. CASE i # m
        <4>1. i \in 1 .. m - 1 /\ g[i] = f[i]
          BY <2>1, <3>3
        <4> QED
          BY <2>2, <3>1, <4>1 DEF KnownOf
      <3> QED
        BY <3>2, <3>3
    <2> QED
      BY <1>3, <2>5, <2>6 DEF KnownOf
  <1> QED
    BY <1>4, <1>5

\* The ids that the first migration keeps are those.
LEMMA KnownIdsAre ==
  ASSUME NEW S, NEW d, d.ids \in Seq(S), NEW f \in KnownOf(d.ids, DOMAIN d.projects, Len(d.ids))
  PROVE  U!KnownIds(d) = f[Len(d.ids)]
  <1> DEFINE n == Len(d.ids)
             Those == DOMAIN d.projects
             k == CHOOSE h : h = [i \in 0 .. n |->
                     IF i = 0 THEN <<>>
                     ELSE IF d.ids[i] \in Those THEN Append(h[i - 1], d.ids[i]) ELSE h[i - 1]]
  <1>1. n \in Nat
    OBVIOUS
  <1>2. f = [i \in 0 .. n |-> IF i = 0 THEN <<>>
                ELSE IF d.ids[i] \in Those THEN Append(f[i - 1], d.ids[i]) ELSE f[i - 1]]
    <2>1. f = [i \in 0 .. n |-> f[i]] /\ f[0] = <<>>
      BY DEF KnownOf
    <2>2. \A i \in 0 .. n : i # 0 => i \in 1 .. n
      BY <1>1
    <2>3. \A i \in 0 .. n : i # 0 =>
             f[i] = IF d.ids[i] \in Those THEN Append(f[i - 1], d.ids[i]) ELSE f[i - 1]
      BY <2>2 DEF KnownOf
    <2> QED
      BY <2>1, <2>3
  <1>3. k = [i \in 0 .. n |-> IF i = 0 THEN <<>>
                ELSE IF d.ids[i] \in Those THEN Append(k[i - 1], d.ids[i]) ELSE k[i - 1]]
    BY <1>2
  <1>4. U!KnownIds(d) = k[n]
    BY DEF U!KnownIds
  <1> HIDE DEF k
  <1> DEFINE Wrong == {i \in Nat : i \in 0 .. n /\ k[i] # f[i]}
  <1>5. Wrong = {}
    <2> SUFFICES ASSUME Wrong # {} PROVE FALSE
      OBVIOUS
    <2>1. PICK m \in Wrong : \A i \in Wrong : m <= i
      BY BP!LeastExists
    <2>2. m # 0
      BY <1>2, <1>3, <2>1
    <2>3. m - 1 \in 0 .. n /\ m - 1 \in Nat /\ m \in 0 .. n
      BY <1>1, <2>1, <2>2
    <2>4. k[m - 1] = f[m - 1]
      BY <2>1, <2>3
    <2>5. k[m] = IF d.ids[m] \in Those THEN Append(k[m - 1], d.ids[m]) ELSE k[m - 1]
      BY <1>3, <2>2, <2>3
    <2>6. f[m] = IF d.ids[m] \in Those THEN Append(f[m - 1], d.ids[m]) ELSE f[m - 1]
      BY <1>2, <2>2, <2>3
    <2> QED
      BY <2>1, <2>4, <2>5, <2>6
  <1> QED
    BY <1>1, <1>4, <1>5

\* Which are of projects, and all when all are.
LEMMA KnownIdsOf ==
  ASSUME NEW S, NEW d, d.ids \in Seq(S)
  PROVE  /\ U!KnownIds(d) \in Seq(DOMAIN d.projects)
         /\ d.ids \in Seq(DOMAIN d.projects) => U!KnownIds(d) = d.ids
  <1> DEFINE n == Len(d.ids)
             Those == DOMAIN d.projects
  <1>1. n \in Nat /\ n \in 0 .. Len(d.ids)
    OBVIOUS
  <1>2. U!KnownIds(d) \in Seq(Those)
    <2>1. PICK f : f \in KnownOf(d.ids, Those, n)
      BY <1>1, KnownOfExists
    <2>2. U!KnownIds(d) = f[n]
      BY <2>1, KnownIdsAre
    <2> QED
      BY <1>1, <2>1, <2>2 DEF KnownOf
  <1>3. ASSUME d.ids \in Seq(Those)
        PROVE  U!KnownIds(d) = d.ids
    <2> DEFINE f == [i \in 0 .. n |-> SubSeq(d.ids, 1, i)]
    <2>1. /\ \A i \in 0 .. n : SubSeq(d.ids, 1, i) \in Seq(Those)
          /\ SubSeq(d.ids, 1, n) = d.ids /\ SubSeq(d.ids, 1, 0) = <<>>
      <3>1. ASSUME NEW i \in 0 .. n
            PROVE  SubSeq(d.ids, 1, i) \in Seq(Those)
        <4>1. i \in Int /\ 1 \in Int /\ \A j \in 1 .. i : d.ids[j] \in Those
          BY <1>1, <1>3
        <4> QED
          BY <4>1, SubSeqProperties
      <3>2. SubSeq(d.ids, 1, n) = d.ids
        BY <1>1, <1>3
      <3>3. SubSeq(d.ids, 1, 0) = <<>>
        BY <1>1, <1>3
      <3> QED
        BY <3>1, <3>2, <3>3
    <2>2. f \in [0 .. n -> Seq(Those)]
      BY <2>1
    <2>3. \A i \in 0 .. n : f[i] = SubSeq(d.ids, 1, i)
      OBVIOUS
    <2> HIDE DEF f
    <2>4. f[0] = <<>> /\ f[n] = d.ids
      BY <1>1, <2>1, <2>3
    <2>5. ASSUME NEW i \in 1 .. n
          PROVE  f[i] = IF d.ids[i] \in Those THEN Append(f[i - 1], d.ids[i]) ELSE f[i - 1]
      <3>1. i \in 0 .. n /\ i - 1 \in 0 .. n
        BY <1>1
      <3>2. SubSeq(d.ids, 1, i) = Append(SubSeq(d.ids, 1, i - 1), d.ids[i])
        BY <1>1, <1>3
      <3>3. d.ids[i] \in Those
        BY <1>1, <1>3
      <3> QED
        BY <2>3, <3>1, <3>2, <3>3
    <2>6. f \in KnownOf(d.ids, Those, n)
      BY <2>2, <2>4, <2>5 DEF KnownOf
    <2> QED
      BY <2>4, <2>6, KnownIdsAre
  <1> QED
    BY <1>2, <1>3

(* The state of a RAG store, with a status for each project as before. *)
IsRag(d) ==
    /\ d = [projects |-> d.projects, ids |-> d.ids, active |-> d.active]
    /\ d.projects \in [DOMAIN d.projects -> U!Project]
    /\ DOMAIN d.projects \subseteq OldIds /\ d.ids \in Seq(OldIds)
KeptIn(p, q) == /\ DOMAIN q = DOMAIN p
                /\ \A i \in DOMAIN p : p[i].status # U!Missing => q[i].status = p[i].status
Uncounted(d) == \A i \in DOMAIN d.projects : d.projects[i].retries = U!Missing
Counted(d) == \A i \in DOMAIN d.projects : d.projects[i].retries # U!Missing
Filled(d) == \A i \in DOMAIN d.projects : d.projects[i].whole /\ d.projects[i].status # U!Missing
ListedOnce(d) == d.ids = U!SetToSeq(DOMAIN d.projects)

LEMMA IdsAreFinite ==
  ASSUME NEW d, IsRag(d), U!MigrationsAssumption
  PROVE  IsFiniteSet(DOMAIN d.projects) /\ U!SetToSeq(DOMAIN d.projects) \in Seq(OldIds)
  <1>1. IsFiniteSet(OldIds)
    BY DEF U!MigrationsAssumption, U!IsFiniteSet, IsFiniteSet
  <1>2. IsFiniteSet(DOMAIN d.projects)
    BY <1>1, FS_Subset DEF IsRag
  <1>3. U!SetToSeq(DOMAIN d.projects) \in Seq(DOMAIN d.projects)
    BY <1>2, SequenceOfASet
  <1> QED
    BY <1>2, <1>3 DEF IsRag

LEMMA RagIs ==
  ASSUME NEW d, NEW p, NEW ids, NEW a, NEW e, IsRag(d), p \in [DOMAIN d.projects -> U!Project],
         ids \in Seq(OldIds), e = [projects |-> p, ids |-> ids, active |-> a]
  PROVE  /\ IsRag(e) /\ e.projects = p /\ e.ids = ids /\ e.active = a
         /\ DOMAIN p = DOMAIN d.projects
  BY DEF IsRag

\* The first migration lists every project, and lists no more when they are.
LEMMA FirstKeeps ==
  ASSUME NEW d, IsRag(d), U!MigrationsAssumption
  PROVE  /\ IsRag(U!MigrateRagToV1(d)) /\ U!MigrateRagToV1(d).projects = d.projects
         /\ U!MigrateRagToV1(U!MigrateRagToV1(d)) = U!MigrateRagToV1(d)
  <1> DEFINE mine == DOMAIN d.projects
             kept == U!KnownIds(d)
             more == U!SetToSeq(mine \ U!ToSet(kept))
             e == U!MigrateRagToV1(d)
  <1>1. IsFiniteSet(mine) /\ mine \subseteq OldIds /\ d.ids \in Seq(OldIds)
    BY IdsAreFinite DEF IsRag
  <1>2. kept \in Seq(mine)
    BY <1>1, KnownIdsOf
  <1>3. IsFiniteSet(mine \ U!ToSet(kept))
    BY <1>1, FS_Subset
  <1>4. more \in Seq(mine \ U!ToSet(kept)) /\ U!ToSet(more) = mine \ U!ToSet(kept)
    BY <1>3, SequenceOfASet
  <1>5. e = [d EXCEPT !.ids = kept \o more]
    BY DEF U!MigrateRagToV1
  <1> HIDE DEF kept, more, e
  <1>6. kept \o more \in Seq(mine) /\ kept \o more \in Seq(OldIds)
    BY <1>1, <1>2, <1>4
  <1>7. /\ e = [projects |-> d.projects, ids |-> kept \o more, active |-> d.active]
        /\ IsRag(e) /\ e.projects = d.projects /\ e.ids = kept \o more
    BY <1>5, <1>6 DEF IsRag
  <1>8. U!KnownIds(e) = kept \o more
    BY <1>6, <1>7, KnownIdsOf
  <1>9. mine \ U!ToSet(kept \o more) = {}
    <2>1. ASSUME NEW x \in mine, x \notin U!ToSet(kept)
          PROVE  x \in U!ToSet(kept \o more)
      <3>1. PICK i \in DOMAIN more : more[i] = x
        BY <1>4, <2>1 DEF U!ToSet
      <3>2. /\ Len(kept) + i \in DOMAIN (kept \o more)
            /\ (kept \o more)[Len(kept) + i] = x
        BY <1>2, <1>4, <3>1
      <3> QED
        BY <3>2 DEF U!ToSet
    <2>2. ASSUME NEW x \in U!ToSet(kept)
          PROVE  x \in U!ToSet(kept \o more)
      <3>1. PICK i \in DOMAIN kept : kept[i] = x
        BY <2>2 DEF U!ToSet
      <3>2. i \in DOMAIN (kept \o more) /\ (kept \o more)[i] = x
        BY <1>2, <1>4, <3>1
      <3> QED
        BY <3>2 DEF U!ToSet
    <2> QED
      BY <2>1, <2>2
  <1>10. U!SetToSeq({}) = <<>>
    <2>1. U!SetToSeq({}) \in Seq({})
      BY SequenceOfASet, FS_EmptySet
    <2> QED
      BY <2>1
  <1>11. U!MigrateRagToV1(e) = [e EXCEPT !.ids = (kept \o more) \o <<>>]
    BY <1>7, <1>8, <1>9, <1>10 DEF U!MigrateRagToV1
  <1>12. (kept \o more) \o <<>> = kept \o more
    BY <1>6
  <1>13. U!MigrateRagToV1(e) = e
    BY <1>7, <1>11, <1>12
  <1> QED
    BY <1>7, <1>13 DEF e

\* The second fills in every project and lists it once; what is filled in and
\* listed it leaves alone.
LEMMA SecondKeeps ==
  ASSUME NEW d, IsRag(d), U!MigrationsAssumption
  PROVE  /\ \/ U!MigrateRagToV2(d) = U!Failed
            \/ /\ IsRag(U!MigrateRagToV2(d)) /\ KeptIn(d.projects, U!MigrateRagToV2(d).projects)
               /\ ListedOnce(U!MigrateRagToV2(d))
               /\ Filled(U!MigrateRagToV2(d)) /\ Counted(U!MigrateRagToV2(d))
               /\ DOMAIN d.projects = {} => U!MigrateRagToV2(d).projects = d.projects
         /\ Filled(d) /\ Counted(d) /\ ListedOnce(d) => U!MigrateRagToV2(d) = d
  <1> DEFINE p == d.projects
             q == [i \in DOMAIN p |-> [p[i] EXCEPT !.status = U!Field(@, "idle"),
                                                  !.retries = U!Field(@, U!Default)]]
             l == U!SetToSeq(DOMAIN p)
             e == [projects |-> q, ids |-> l, active |-> d.active]
  <1>1. /\ d = [projects |-> p, ids |-> d.ids, active |-> d.active]
        /\ p \in [DOMAIN p -> U!Project] /\ DOMAIN p \subseteq OldIds
    BY DEF IsRag
  <1> HIDE DEF p
  <1>2. U!MigrateRagToV2(d) = U!Failed \/ U!MigrateRagToV2(d) = e
    BY <1>1 DEF U!MigrateRagToV2, p
  <1>3. \A i \in DOMAIN p : /\ q[i] \in U!Project
                            /\ p[i].status # U!Missing => q[i].status = p[i].status
                            /\ q[i].status # U!Missing /\ q[i].retries # U!Missing
                            /\ q[i].whole = p[i].whole
    BY <1>1 DEF U!Project, U!Field, U!Default, U!Missing
  <1>4. q = [i \in DOMAIN p |-> q[i]]
    OBVIOUS
  <1>5. Filled(d) /\ Counted(d) => \A i \in DOMAIN p : q[i] = p[i]
    BY <1>1 DEF Filled, Counted, U!Project, U!Field, p
  <1> HIDE DEF q
  <1>6. q \in [DOMAIN p -> U!Project] /\ DOMAIN q = DOMAIN p
    BY <1>3, <1>4
  <1>7. l \in Seq(OldIds)
    BY IdsAreFinite DEF p
  <1>8. IsRag(e) /\ e.projects = q /\ e.ids = l
    BY <1>6, <1>7, RagIs DEF p
  <1> HIDE DEF e
  <1>9. U!MigrateRagToV2(d) # U!Failed => \A i \in DOMAIN p : p[i].whole
    BY DEF U!MigrateRagToV2, p
  <1>10. ASSUME U!MigrateRagToV2(d) # U!Failed
         PROVE  /\ IsRag(e) /\ KeptIn(p, e.projects) /\ ListedOnce(e) /\ Filled(e) /\ Counted(e)
                /\ DOMAIN p = {} => e.projects = p
    <2>1. DOMAIN p = {} => q = p
      BY <1>1, <1>6
    <2> QED
      BY <1>3, <1>6, <1>8, <1>9, <1>10, <2>1 DEF KeptIn, ListedOnce, Filled, Counted
  <1>11. ASSUME Filled(d), Counted(d), ListedOnce(d)
         PROVE  U!MigrateRagToV2(d) = d
    <2>1. q = p
      BY <1>1, <1>4, <1>5, <1>6, <1>11
    <2>2. d.ids = l
      BY <1>11 DEF ListedOnce, p
    <2>3. e = d
      BY <1>1, <2>1, <2>2 DEF e
    <2>4. \A i \in DOMAIN p : p[i].whole
      BY <1>11 DEF Filled, p
    <2>5. U!MigrateRagToV2(d) = e
      BY <1>1, <2>4 DEF U!MigrateRagToV2, e, q, p
    <2> QED
      BY <2>3, <2>5
  <1> QED
    BY <1>2, <1>10, <1>11 DEF p

\* What the other steps of the registry do to a RAG store.
LEMMA RagStepsKeep ==
  ASSUME NEW d, IsRag(d)
  PROVE  /\ IsRag(U!RollbackRagToV2(d)) /\ KeptIn(d.projects, U!RollbackRagToV2(d).projects)
         /\ Uncounted(U!RollbackRagToV2(d))
         /\ \/ U!ValidateRag(d) = U!Failed
            \/ /\ IsRag(U!ValidateRag(d)) /\ KeptIn(d.projects, U!ValidateRag(d).projects)
               /\ U!ValidateRag(d).ids = d.ids /\ Counted(U!ValidateRag(d))
  <1> DEFINE p == d.projects
             back == [i \in DOMAIN p |-> [p[i] EXCEPT !.retries = U!Missing]]
             full == [i \in DOMAIN p |-> [p[i] EXCEPT !.retries = U!Field(@, U!Default)]]
             e == [projects |-> back, ids |-> d.ids, active |-> d.active]
             v == [projects |-> full, ids |-> d.ids, active |-> d.active]
  <1>1. /\ d = [projects |-> p, ids |-> d.ids, active |-> d.active]
        /\ p \in [DOMAIN p -> U!Project] /\ d.ids \in Seq(OldIds)
    BY DEF IsRag
  <1> HIDE DEF p
  <1>2. U!RollbackRagToV2(d) = e
    BY <1>1 DEF U!RollbackRagToV2, p
  <1>3. U!ValidateRag(d) = U!Failed \/ U!ValidateRag(d) = v
    BY <1>1 DEF U!ValidateRag, p
  <1>4. \A i \in DOMAIN p : /\ back[i] \in U!Project
                            /\ back[i].status = p[i].status /\ back[i].retries = U!Missing
    BY <1>1 DEF U!Project, U!Missing
  <1>5. \A i \in DOMAIN p : /\ full[i] \in U!Project
                            /\ full[i].status = p[i].status /\ full[i].retries # U!Missing
    BY <1>1 DEF U!Project, U!Missing, U!Field, U!Default
  <1>6. back = [i \in DOMAIN p |-> back[i]] /\ full = [i \in DOMAIN p |-> full[i]]
    OBVIOUS
  <1> HIDE DEF back, full
  <1>7. back \in [DOMAIN p -> U!Project] /\ full \in [DOMAIN p -> U!Project]
    BY <1>4, <1>5, <1>6
  <1>8. IsRag(e) /\ e.projects = back /\ DOMAIN back = DOMAIN p
    BY <1>1, <1>7, RagIs DEF p
  <1>9. IsRag(v) /\ v.projects = full /\ v.ids = d.ids /\ DOMAIN full = DOMAIN p
    BY <1>1, <1>7, RagIs DEF p
  <1> HIDE DEF e, v
  <1>10. KeptIn(p, e.projects) /\ Uncounted(e)
    BY <1>4, <1>8 DEF KeptIn, Uncounted
  <1>11. KeptIn(p, v.projects) /\ Counted(v)
    BY <1>5, <1>9 DEF KeptIn, Counted
  <1> QED
    BY <1>2, <1>3, <1>8, <1>9, <1>10, <1>11 DEF p

\* What is kept stays kept, over several steps.
LEMMA KeptFurther ==
  ASSUME NEW p, NEW q, NEW r, KeptIn(p, q), KeptIn(q, r)
  PROVE  KeptIn(p, r)
  BY DEF KeptIn

\* The last changes nothing in data that has its counts, and makes of the
\* rest what the one before it makes of it, with the counts.
LEMMA LastKeeps ==
  ASSUME NEW d, IsRag(d), U!MigrationsAssumption
  PROVE  /\ \/ U!MigrateRagToV3(d) = U!Failed
            \/ U!MigrateRagToV3(d) = d /\ ~(Uncounted(d) \/ DOMAIN d.projects = {})
            \/ /\ IsRag(U!MigrateRagToV3(d)) /\ KeptIn(d.projects, U!MigrateRagToV3(d).projects)
               /\ ListedOnce(U!MigrateRagToV3(d)) /\ Counted(U!MigrateRagToV3(d))
               /\ Counted(d) => U!MigrateRagToV3(d).projects = d.projects
         /\ Counted(d) /\ ListedOnce(d) => U!MigrateRagToV3(d) = d
  <1> DEFINE mine == DOMAIN d.projects
             m == U!MigrateRagToV2(d)
             e == U!MigrateRagToV3(d)
  <1>1. IsFiniteSet(mine)
    BY IdsAreFinite
  <1>2. mine # {} => U!FirstProject(d) \in mine
    BY <1>1, SequenceOfASet DEF U!FirstProject
  <1>3. CASE U!HasRetries(d)
    BY <1>2, <1>3 DEF U!HasRetries, U!MigrateRagToV3, Uncounted
  <1>4. Counted(d) /\ mine # {} => U!HasRetries(d)
    BY <1>2 DEF Counted, U!HasRetries
  <1>5. CASE ~U!HasRetries(d) /\ m = U!Failed
    <2>1. ASSUME mine = {}
          PROVE  FALSE
      <3>1. d = [projects |-> d.projects, ids |-> d.ids, active |-> d.active]
        BY DEF IsRag
      <3>2. DOMAIN m = {"projects", "ids", "active"}
        BY <2>1, <3>1 DEF U!MigrateRagToV2
      <3>3. DOMAIN U!Failed = {"failed"}
        BY DEF U!Failed
      <3> HIDE DEF m
      <3> QED
        BY <1>5, <3>2, <3>3
    <2> QED
      BY <1>4, <1>5, <2>1 DEF U!MigrateRagToV3
  <1>6. CASE ~U!HasRetries(d) /\ m # U!Failed
    <2> DEFINE p == m.projects
               q == [i \in DOMAIN p |-> [p[i] EXCEPT !.retries = U!Default]]
    <2>1. /\ IsRag(m) /\ KeptIn(d.projects, p) /\ ListedOnce(m)
          /\ mine = {} => p = d.projects
      BY <1>6, SecondKeeps
    <2>2. e = [m EXCEPT !.projects = q]
      BY <1>6 DEF U!MigrateRagToV3
    <2>3. /\ m = [projects |-> p, ids |-> m.ids, active |-> m.active]
          /\ p \in [DOMAIN p -> U!Project] /\ DOMAIN p = mine
          /\ m.ids = U!SetToSeq(mine) /\ m.ids \in Seq(OldIds)
      BY <2>1 DEF IsRag, KeptIn, ListedOnce
    <2>4. \A i \in DOMAIN p : /\ q[i] \in U!Project /\ q[i].status = p[i].status
                              /\ q[i].retries # U!Missing
      BY <2>3 DEF U!Project, U!Missing, U!Default
    <2>5. q \in [DOMAIN p -> U!Project] /\ DOMAIN q = DOMAIN p
      BY <2>4
    <2>6. mine = {} => q = p
      BY <2>3
    <2> HIDE DEF m, e, p, q
    <2>7. e = [projects |-> q, ids |-> m.ids, active |-> m.active]
      BY <2>2, <2>3
    <2>8. IsRag(e) /\ e.projects = q /\ e.ids = m.ids
      BY <2>1, <2>3, <2>5, <2>7, RagIs DEF p
    <2>9. ListedOnce(e) /\ Counted(e)
      BY <2>3, <2>4, <2>5, <2>8 DEF ListedOnce, Counted
    <2>10. KeptIn(d.projects, e.projects)
      <3>1. KeptIn(p, e.projects)
        BY <2>4, <2>5, <2>8 DEF KeptIn
      <3> QED
        BY <2>1, <3>1, KeptFurther
    <2>11. Counted(d) => mine = {}
      BY <1>4, <1>6
    <2>12. Counted(d) => e.projects = d.projects
      BY <2>1, <2>6, <2>8, <2>11
    <2>13. Counted(d) /\ ListedOnce(d) => e = d
      <3> SUFFICES ASSUME Counted(d), ListedOnce(d)
                   PROVE  e = d
        OBVIOUS
      <3>1. Filled(d)
        BY <2>11 DEF Filled
      <3>2. m = d
        BY <3>1, SecondKeeps DEF m
      <3> QED
        BY <2>3, <2>6, <2>7, <2>11, <3>2
    <2> QED
      BY <2>8, <2>9, <2>10, <2>12, <2>13 DEF e
  <1> QED
    BY <1>3, <1>5, <1>6

\* An upgrade, and a rollback, keep every project and every status.
LEMMA RagUpgrade ==
  ASSUME NEW d, IsRag(d), NEW from \in 0 .. 2, U!MigrationsAssumption, storeKind = "rag",
         from = 2 => ListedOnce(d) \/ Uncounted(d)
  PROVE  \/ U!Migrated(d, from) = U!Failed
         \/ /\ IsRag(U!Migrated(d, from)) /\ KeptIn(d.projects, U!Migrated(d, from).projects)
            /\ ListedOnce(U!Migrated(d, from)) /\ Counted(U!Migrated(d, from))
  <1> DEFINE a == U!Stepped(1, from, d)
             b == U!Stepped(2, from, a)
             c == U!Stepped(3, from, b)
  <1>1. a = U!Failed \/ (IsRag(a) /\ KeptIn(d.projects, a.projects) /\ (from = 2 => a = d))
    BY FirstKeeps DEF U!Stepped, U!Migration, KeptIn
  <1>2. \/ b = U!Failed
        \/ /\ IsRag(b) /\ KeptIn(d.projects, b.projects)
           /\ ListedOnce(b) \/ Uncounted(b)
    <2> HIDE DEF a
    <2>1. CASE a = U!Failed
      BY <2>1 DEF U!Stepped
    <2>2. CASE a # U!Failed /\ from = 2
      BY <1>1, <2>2 DEF U!Stepped
    <2>3. CASE a # U!Failed /\ from # 2
      <3>1. b = U!MigrateRagToV2(a)
        BY <2>3 DEF U!Stepped, U!Migration
      <3> HIDE DEF b
      <3> QED
        BY <1>1, <2>3, <3>1, SecondKeeps, KeptFurther
    <2> QED
      BY <2>1, <2>2, <2>3
  <1>3. c = U!Failed \/ (IsRag(c) /\ KeptIn(d.projects, c.projects) /\ ListedOnce(c))
    <2> HIDE DEF b
    <2>1. CASE b = U!Failed
      BY <2>1 DEF U!Stepped
    <2>2. CASE b # U!Failed
      <3>1. c = U!MigrateRagToV3(b)
        BY <2>2 DEF U!Stepped, U!Migration
      <3> HIDE DEF c
      <3>2. CASE c = b /\ ~(Uncounted(b) \/ DOMAIN b.projects = {})
        BY <1>2, <2>2, <3>2
      <3> QED
        BY <1>2, <2>2, <3>1, <3>2, LastKeeps, KeptFurther
    <2> QED
      BY <2>1, <2>2
  <1>4. U!Migrated(d, from) = U!Validated(c)
    BY DEF U!Migrated
  <1> HIDE DEF c
  <1>5. U!Validated(c) = IF c = U!Failed THEN U!Failed ELSE U!ValidateRag(c)
    BY DEF U!Validated
  <1>6. CASE c = U!Failed
    BY <1>4, <1>5, <1>6
  <1>7. CASE c # U!Failed
    <2> DEFINE e == U!ValidateRag(c)
    <2>1. U!Migrated(d, from) = e
      BY <1>4, <1>5, <1>7
    <2>2. \/ e = U!Failed
          \/ IsRag(e) /\ KeptIn(c.projects, e.projects) /\ e.ids = c.ids /\ Counted(e)
      BY <1>3, <1>7, RagStepsKeep
    <2> HIDE DEF e
    <2> QED
      BY <1>3, <1>7, <2>1, <2>2, KeptFurther DEF KeptIn, ListedOnce
  <1> QED
    BY <1>6, <1>7

LEMMA RagRollback ==
  ASSUME NEW d, IsRag(d), NEW from \in 0 .. 3, NEW to \in 0 .. 2, to < from, storeKind = "rag"
  PROVE  /\ IsRag(U!RolledBack(d, from, to))
         /\ KeptIn(d.projects, U!RolledBack(d, from, to).projects)
         /\ to = 2 => Uncounted(U!RolledBack(d, from, to))
  <1> DEFINE a == U!Undone(2, from, to, d)
             b == U!Undone(1, from, to, a)
  <1>1. IsRag(a) /\ KeptIn(d.projects, a.projects) /\ (to = 2 => Uncounted(a))
    BY RagStepsKeep DEF U!Undone, U!Rollback, KeptIn
  <1> HIDE DEF a
  <1>2. b = a
    BY DEF U!Undone, U!Rollback
  <1> HIDE DEF b
  <1>3. U!Undone(0, from, to, b) = b
    BY DEF U!Undone, U!Rollback
  <1>4. U!RolledBack(d, from, to) = b
    BY <1>3 DEF U!RolledBack, a, b
  <1> QED
    BY <1>1, <1>2, <1>4

\* A migration changes nothing in what it has made.
LEMMA RagAgain ==
  ASSUME NEW d, IsRag(d), NEW v \in 1 .. 3, U!MigrationsAssumption, storeKind = "rag",
         U!Migration(v, d) # U!Failed
  PROVE  U!Migration(v, U!Migration(v, d)) = U!Migration(v, d)
  <1>1. CASE v = 1
    BY <1>1, FirstKeeps DEF U!Migration
  <1>2. CASE v = 2
    <2>1. U!Migration(v, d) = U!MigrateRagToV2(d)
      BY <1>2 DEF U!Migration
    <2> DEFINE e == U!MigrateRagToV2(d)
    <2>2. IsRag(e) /\ Filled(e) /\ Counted(e) /\ ListedOnce(e)
      BY <2>1, SecondKeeps
    <2> HIDE DEF e
    <2>3. U!MigrateRagToV2(e) = e
      BY <2>2, SecondKeeps
    <2> QED
      BY <1>2, <2>1, <2>3 DEF U!Migration, e
  <1>3. CASE v = 3
    <2>1. U!Migration(v, d) = U!MigrateRagToV3(d)
      BY <1>3 DEF U!Migration
    <2> DEFINE e == U!MigrateRagToV3(d)
    <2>2. e = d \/ (IsRag(e) /\ Counted(e) /\ ListedOnce(e))
      BY <2>1, LastKeeps
    <2> HIDE DEF e
    <2>3. U!MigrateRagToV3(e) = e
      BY <2>2, LastKeeps DEF e
    <2> QED
      BY <1>3, <2>1, <2>3 DEF U!Migration, e
  <1> QED
    BY <1>1, <1>2, <1>3

\* No step of the registry of the settings drops what was chosen, but a
\* rollback the fields of later versions; a migration leaves no field out.
Chosen(d, low) ==
    \A f \in U!Fields : (legacy.data[f] = "chosen" /\ U!Since[f] <= low) => d[f] = "chosen"
Complete(d) == \A f \in U!Fields : d[f] # U!Missing

LEMMA VersionsAreNumbers == \A f \in U!Fields : U!Since[f] \in 1 .. 3
  BY DEF U!Fields, U!Since

LEMMA SettingsStepsKeep ==
  ASSUME NEW d, NEW low, Chosen(d, low)
  PROVE  /\ \A v : Chosen(U!MigrateSettings(v, d), low) /\ Complete(U!MigrateSettings(v, d))
         /\ \/ U!ValidateSettings(d) = U!Failed
            \/ Chosen(U!ValidateSettings(d), low) /\ Complete(U!ValidateSettings(d))
         /\ \A v : (\A f \in U!Fields : U!Since[f] <= low => ~(U!Since[f] > v))
                    => Chosen(U!RollbackSettings(v, d), low)
         /\ \A v : U!MigrateSettings(v, d) # U!Failed
         /\ \A v : U!MigrateSettings(v, U!MigrateSettings(v, d)) = U!MigrateSettings(v, d)
         /\ \A v : U!ValidateSettings(d) # U!Failed
                    => U!MigrateSettings(v, U!ValidateSettings(d)) = U!ValidateSettings(d)
  <1>0. /\ \A f \in U!Fields : /\ U!WithDefaults(d)[f] # U!Missing
                               /\ d[f] = "chosen" => U!WithDefaults(d)[f] = "chosen"
    BY DEF U!WithDefaults, U!Field, U!Missing, U!Default
  <1>1. ASSUME NEW v
        PROVE  Chosen(U!MigrateSettings(v, d), low) /\ Complete(U!MigrateSettings(v, d))
    <2>1. ASSUME NEW f \in U!Fields
          PROVE  /\ U!MigrateSettings(v, d)[f] # U!Missing
                 /\ d[f] = "chosen" => U!MigrateSettings(v, d)[f] = "chosen"
      BY <1>0 DEF U!MigrateSettings, U!Missing, U!Default
    <2> QED
      BY <2>1 DEF Chosen, Complete
  <1>2. \/ U!ValidateSettings(d) = U!Failed
        \/ Chosen(U!ValidateSettings(d), low) /\ Complete(U!ValidateSettings(d))
    BY <1>0 DEF U!ValidateSettings, Chosen, Complete
  <1>3. ASSUME NEW v, \A f \in U!Fields : U!Since[f] <= low => ~(U!Since[f] > v)
        PROVE  Chosen(U!RollbackSettings(v, d), low)
    BY <1>3 DEF U!RollbackSettings, Chosen
  <1>4. ASSUME NEW v
        PROVE  U!MigrateSettings(v, d) # U!Failed
    <2>1. DOMAIN U!MigrateSettings(v, d) = U!Fields
      BY DEF U!MigrateSettings
    <2>2. DOMAIN U!Failed = {"failed"} /\ "language" \in U!Fields
      BY DEF U!Failed, U!Fields
    <2> QED
      BY <2>1, <2>2
  <1>5. ASSUME NEW v
        PROVE  U!MigrateSettings(v, U!MigrateSettings(v, d)) = U!MigrateSettings(v, d)
    <2> DEFINE e == U!MigrateSettings(v, d)
    <2>1. e = [f \in U!Fields |-> e[f]]
      BY DEF U!MigrateSettings
    <2>2. \A f \in U!Fields : e[f] # U!Missing /\ ~(v > 1 /\ U!Since[f] = v /\ e[f] = "wrongType")
      BY DEF U!MigrateSettings, U!WithDefaults, U!Field, U!Missing, U!Default
    <2> HIDE DEF e
    <2>3. U!MigrateSettings(v, e) = [f \in U!Fields |-> e[f]]
      BY <2>2 DEF U!MigrateSettings, U!WithDefaults, U!Field
    <2> QED
      BY <2>1, <2>3 DEF e
  <1>6. ASSUME NEW v, U!ValidateSettings(d) # U!Failed
        PROVE  U!MigrateSettings(v, U!ValidateSettings(d)) = U!ValidateSettings(d)
    <2> DEFINE e == U!WithDefaults(d)
    <2>1. U!ValidateSettings(d) = e /\ \A f \in U!Fields : d[f] # "wrongType"
      BY <1>6 DEF U!ValidateSettings
    <2>2. e = [f \in U!Fields |-> e[f]]
      BY DEF U!WithDefaults
    <2>3. \A f \in U!Fields : e[f] # U!Missing /\ e[f] # "wrongType"
      BY <2>1 DEF U!WithDefaults, U!Field, U!Default, U!Missing
    <2> HIDE DEF e
    <2>4. U!MigrateSettings(v, e) = [f \in U!Fields |-> e[f]]
      BY <2>3 DEF U!MigrateSettings, U!WithDefaults, U!Field
    <2> QED
      BY <2>1, <2>2, <2>4
  <1> QED
    BY <1>1, <1>2, <1>3, <1>4, <1>5, <1>6

LEMMA SettingsUpgrade ==
  ASSUME NEW d, NEW low, NEW from \in 0 .. 2, Chosen(d, low), storeKind = "settings"
  PROVE  \/ U!Migrated(d, from) = U!Failed
         \/ /\ Chosen(U!Migrated(d, from), low) /\ Complete(U!Migrated(d, from))
            /\ U!MigrateSettings(3, U!Migrated(d, from)) = U!Migrated(d, from)
  <1> DEFINE a == U!Stepped(1, from, d)
             b == U!Stepped(2, from, a)
             c == U!Stepped(3, from, b)
  <1>1. Chosen(a, low)
    BY SettingsStepsKeep DEF U!Stepped, U!Migration
  <1> HIDE DEF a
  <1>2. Chosen(b, low)
    BY <1>1, SettingsStepsKeep DEF U!Stepped, U!Migration
  <1> HIDE DEF b
  <1>3. Chosen(c, low)
    BY <1>2, SettingsStepsKeep DEF U!Stepped, U!Migration
  <1>4. U!Migrated(d, from) = U!Validated(c)
    BY DEF U!Migrated, a, b
  <1> HIDE DEF c
  <1>5. U!Validated(c) = IF c = U!Failed THEN U!Failed ELSE U!ValidateSettings(c)
    BY DEF U!Validated
  <1> QED
    BY <1>3, <1>4, <1>5, SettingsStepsKeep

LEMMA SettingsRollback ==
  ASSUME NEW d, NEW low \in 0 .. 3, NEW from \in 0 .. 3, NEW to \in 0 .. 2,
         to < from, low <= to, Chosen(d, low), storeKind = "settings"
  PROVE  Chosen(U!RolledBack(d, from, to), low)
  <1>1. \A v \in 0 .. 2 : to <= v => \A f \in U!Fields : U!Since[f] <= low => ~(U!Since[f] > v)
    BY VersionsAreNumbers
  <1>2. ASSUME NEW v \in 0 .. 2, NEW e, Chosen(e, low)
        PROVE  Chosen(U!Undone(v, from, to, e), low)
    <2>1. CASE to <= v /\ v < from
      BY <1>1, <1>2, <2>1, SettingsStepsKeep DEF U!Undone, U!Rollback
    <2>2. CASE ~(to <= v /\ v < from)
      BY <1>2, <2>2 DEF U!Undone
    <2> QED
      BY <2>1, <2>2
  <1> QED
    BY <1>2 DEF U!RolledBack

\* Which cannot fail.
LEMMA SettingsRollbackSucceeds ==
  ASSUME NEW d, NEW from \in 0 .. 3, NEW to \in 0 .. 2, to < from, storeKind = "settings"
  PROVE  U!RolledBack(d, from, to) # U!Failed
  <1>1. \A e : \A v \in 0 .. 2 : \/ U!Undone(v, from, to, e) = e /\ v # to
                               \/ U!Undone(v, from, to, e) # U!Failed
    <2>1. \A v, e : U!RollbackSettings(v, e) # U!Failed
      <3>1. \A v, e : DOMAIN U!RollbackSettings(v, e) = U!Fields
        BY DEF U!RollbackSettings
      <3>2. DOMAIN U!Failed = {"failed"} /\ "language" \in U!Fields
        BY DEF U!Failed, U!Fields
      <3> QED
        BY <3>1, <3>2
    <2> QED
      BY <2>1 DEF U!Undone, U!Rollback
  <1> QED
    BY <1>1 DEF U!RolledBack

\* The lowest version that the store has had says what it has kept of where
\* it began; at the version before the latest either the counts are missing,
\* as an older release and a rollback leave them, or the list is a migration's.
\* What a migration has made the same migration leaves alone.
RagKept ==
    /\ IsRag(storeData) /\ KeptIn(legacy.data.projects, storeData.projects)
    /\ legacy.low = 3 => storeData.projects = legacy.data.projects /\ Counted(storeData)
    /\ legacy.schema < 3 /\ schema = 3 => ListedOnce(storeData)
    /\ schema = 2 => ListedOnce(storeData) \/ Uncounted(storeData)
SettingsKept ==
    /\ Chosen(storeData, legacy.low)
    /\ upgrades > 0 /\ schema = 3 => Complete(storeData)
Versions ==
    /\ storeKind \in {"rag", "settings"} /\ schema \in 0 .. 3 /\ upgrades \in Nat
    /\ legacy = [data |-> legacy.data, schema |-> legacy.schema, low |-> legacy.low]
    /\ legacy.low \in 0 .. 3 /\ legacy.schema \in 0 .. 3
    /\ legacy.low <= schema /\ legacy.low <= legacy.schema
MadeStays == via = "migration" /\ schema > 0 => U!Migration(schema, storeData) = storeData
MigrationsInv ==
    /\ Versions /\ MadeStays
    /\ storeKind = "rag" => RagKept
    /\ storeKind = "settings" => SettingsKept

LEMMA MigrationsInit ==
  ASSUME U!Init
  PROVE  MigrationsInv
  <1>0. MadeStays
    BY DEF U!Init, MadeStays
  <1>1. /\ storeKind \in {"rag", "settings"} /\ schema \in 0 .. 3 /\ upgrades = 0
        /\ legacy = [data |-> storeData, schema |-> schema, low |-> schema]
    BY DEF U!Init, U!Latest
  <1>2. Versions
    BY <1>1 DEF Versions
  <1>3. ASSUME storeKind = "rag"
        PROVE  RagKept
    <2>1. storeData \in U!RagData /\ U!LeftBy(schema, storeData)
      BY <1>3 DEF U!Init
    <2>2. PICK S \in SUBSET OldIds : storeData.projects \in [S -> U!Project]
      BY <2>1 DEF U!RagData
    <2>3. storeData.ids \in Seq(OldIds)
      <3>1. PICK n \in 0 .. 2 : storeData.ids \in [1 .. n -> OldIds]
        BY <2>1 DEF U!RagData
      <3>2. n \in Nat
        OBVIOUS
      <3> QED
        BY <3>1, <3>2
    <2>31. IsRag(storeData)
      BY <2>1, <2>2, <2>3 DEF U!RagData, IsRag
    <2>4. KeptIn(legacy.data.projects, storeData.projects)
      BY <1>1 DEF KeptIn
    <2>5. IF schema < 3 THEN Uncounted(storeData) ELSE Counted(storeData)
      BY <1>1, <2>1 DEF U!LeftBy, Uncounted, Counted
    <2> QED
      BY <1>1, <2>31, <2>4, <2>5 DEF RagKept
  <1>4. ASSUME storeKind = "settings"
        PROVE  SettingsKept
    BY <1>1 DEF SettingsKept, Chosen
  <1> QED
    BY <1>0, <1>2, <1>3, <1>4 DEF MigrationsInv

\* A run of the framework that fails leaves the store alone; in one that does
\* not, the lowest version goes down with the version.
LEMMA RunKeeps ==
  ASSUME MigrationsInv, NEW d, NEW v \in 0 .. 3, NEW how, U!Run(d, v, how)
  PROVE  /\ Versions' /\ storeKind' = storeKind /\ upgrades' = upgrades + 1
         /\ legacy'.data = legacy.data /\ legacy'.schema = legacy.schema
         /\ legacy'.low <= legacy.low
         /\ \/ d = U!Failed /\ UNCHANGED <<storeData, schema, via, legacy>>
            \/ /\ d # U!Failed /\ storeData' = d /\ schema' = v /\ via' = how
               /\ legacy'.low <= v /\ (v >= schema => legacy'.low = legacy.low)
  <1>0. /\ storeKind \in {"rag", "settings"} /\ schema \in 0 .. 3 /\ upgrades \in Nat
        /\ legacy = [data |-> legacy.data, schema |-> legacy.schema, low |-> legacy.low]
        /\ legacy.low \in 0 .. 3 /\ legacy.schema \in 0 .. 3
        /\ legacy.low <= schema /\ legacy.low <= legacy.schema
    BY DEF MigrationsInv, Versions
  <1>1. storeKind' = storeKind /\ upgrades' = upgrades + 1
    BY DEF U!Run
  <1>2. CASE d = U!Failed
    <2>1. UNCHANGED <<storeData, schema, via, legacy>>
      BY <1>2 DEF U!Run
    <2> QED
      BY <1>0, <1>1, <1>2, <2>1 DEF Versions
  <1>3. CASE d # U!Failed
    <2> DEFINE n == IF v < legacy.low THEN v ELSE legacy.low
    <2>1. /\ storeData' = d /\ schema' = v /\ via' = how
          /\ legacy' = [legacy EXCEPT !.low = n]
      BY <1>3 DEF U!Run
    <2>2. n \in 0 .. 3 /\ n <= v /\ n <= legacy.low /\ (v >= schema => n = legacy.low)
      BY <1>0
    <2> HIDE DEF n
    <2>3. legacy' = [data |-> legacy.data, schema |-> legacy.schema, low |-> n]
      BY <1>0, <2>1
    <2>4. legacy'.data = legacy.data /\ legacy'.schema = legacy.schema /\ legacy'.low = n
      BY <2>3
    <2>5. Versions'
      BY <1>0, <1>1, <2>1, <2>2, <2>3, <2>4 DEF Versions
    <2> QED
      BY <1>1, <1>3, <2>1, <2>2, <2>4, <2>5
  <1> QED
    BY <1>2, <1>3

LEMMA UpgradeKeeps ==
  ASSUME MigrationsInv, U!MigrationsAssumption, U!Upgrade
  PROVE  MigrationsInv'
  <1> DEFINE d == U!Migrated(storeData, schema)
  <1>0. storeKind \in {"rag", "settings"}
    BY DEF MigrationsInv, Versions
  <1>1. schema \in 0 .. 2 /\ U!Run(d, 3, "migration")
    BY DEF U!Upgrade, U!Latest, MigrationsInv, Versions
  <1> HIDE DEF d
  <1>2. /\ Versions' /\ storeKind' = storeKind /\ upgrades' = upgrades + 1
        /\ legacy'.data = legacy.data /\ legacy'.schema = legacy.schema
        /\ legacy'.low <= legacy.low /\ legacy'.low < 3
        /\ \/ d = U!Failed /\ UNCHANGED <<storeData, schema, via, legacy>>
           \/ d # U!Failed /\ storeData' = d /\ schema' = 3
    <2>1. 3 \in 0 .. 3
      OBVIOUS
    <2>2. /\ Versions' /\ storeKind' = storeKind /\ upgrades' = upgrades + 1
          /\ legacy'.data = legacy.data /\ legacy'.schema = legacy.schema
          /\ legacy'.low <= legacy.low
          /\ \/ d = U!Failed /\ UNCHANGED <<storeData, schema, via, legacy>>
             \/ d # U!Failed /\ storeData' = d /\ schema' = 3
      BY <1>1, <2>1, RunKeeps
    <2>3. legacy.low \in 0 .. 3 /\ legacy'.low \in 0 .. 3 /\ legacy.low <= schema
      BY <2>2 DEF MigrationsInv, Versions
    <2> QED
      BY <1>1, <2>2, <2>3
  <1>3. ASSUME storeKind = "rag"
        PROVE  RagKept'
    <2>1. RagKept
      BY <1>3 DEF MigrationsInv
    <2>2. CASE d = U!Failed
      BY <1>2, <2>1, <2>2 DEF RagKept, IsRag, Counted, Uncounted, ListedOnce
    <2>3. CASE d # U!Failed
      <3>1. IsRag(d) /\ KeptIn(storeData.projects, d.projects) /\ ListedOnce(d)
        BY <1>1, <1>3, <2>1, <2>3, RagUpgrade DEF RagKept, d
      <3>2. KeptIn(legacy.data.projects, d.projects)
        BY <2>1, <3>1, KeptFurther DEF RagKept
      <3> QED
        BY <1>2, <2>3, <3>1, <3>2 DEF RagKept, IsRag, ListedOnce
    <2> QED
      BY <2>2, <2>3
  <1>4. ASSUME storeKind = "settings"
        PROVE  SettingsKept'
    <2>1. SettingsKept
      BY <1>4 DEF MigrationsInv
    <2>2. CASE d = U!Failed
      BY <1>1, <1>2, <2>1, <2>2 DEF SettingsKept, Chosen
    <2>3. CASE d # U!Failed
      <3>1. Chosen(d, legacy.low) /\ Complete(d)
        BY <1>1, <1>4, <2>1, <2>3, SettingsUpgrade DEF SettingsKept, d
      <3>2. \A f \in U!Fields : U!Since[f] <= legacy'.low => U!Since[f] <= legacy.low
        BY <1>2, VersionsAreNumbers DEF MigrationsInv, Versions
      <3> QED
        BY <1>2, <2>3, <3>1, <3>2 DEF SettingsKept, Chosen, Complete
    <2> QED
      BY <2>2, <2>3
  <1>5. MadeStays'
    <2>1. CASE d = U!Failed
      BY <1>2, <2>1 DEF MigrationsInv, MadeStays, U!Migration
    <2>2. CASE d # U!Failed /\ storeKind = "rag"
      <3>1. IsRag(d) /\ Counted(d) /\ ListedOnce(d)
        BY <1>1, <2>2, RagUpgrade DEF MigrationsInv, RagKept, d
      <3>2. U!MigrateRagToV3(d) = d
        BY <3>1, LastKeeps
      <3> QED
        BY <1>2, <2>2, <3>2 DEF MadeStays, U!Migration
    <2>3. CASE d # U!Failed /\ storeKind = "settings"
      <3>1. U!MigrateSettings(3, d) = d
        BY <1>1, <2>3, SettingsUpgrade DEF MigrationsInv, SettingsKept, d
      <3> QED
        BY <1>2, <2>3, <3>1 DEF MadeStays, U!Migration
    <2> QED
      BY <1>0, <2>1, <2>2, <2>3
  <1> QED
    BY <1>2, <1>3, <1>4, <1>5 DEF MigrationsInv

LEMMA RollbackKeeps ==
  ASSUME MigrationsInv, NEW to \in 0 .. 2, U!RollBackTo(to)
  PROVE  MigrationsInv'
  <1> DEFINE d == U!RolledBack(storeData, schema, to)
  <1>1. schema \in 0 .. 3 /\ to < schema /\ U!Run(d, to, "rollback")
    BY DEF U!RollBackTo, MigrationsInv, Versions
  <1> HIDE DEF d
  <1>0. to \in 0 .. 3
    OBVIOUS
  <1>2. /\ Versions' /\ storeKind' = storeKind /\ upgrades' = upgrades + 1
        /\ legacy'.data = legacy.data /\ legacy'.schema = legacy.schema
        /\ legacy'.low <= legacy.low
        /\ \/ d = U!Failed /\ UNCHANGED <<storeData, schema, via, legacy>>
           \/ d # U!Failed /\ storeData' = d /\ schema' = to /\ via' = "rollback" /\ legacy'.low <= to
    BY <1>0, <1>1, RunKeeps
  <1>3. ASSUME storeKind = "rag"
        PROVE  RagKept'
    <2>1. RagKept
      BY <1>3 DEF MigrationsInv
    <2>2. CASE d = U!Failed
      BY <1>2, <2>1, <2>2 DEF RagKept, IsRag, Counted, Uncounted, ListedOnce
    <2>3. CASE d # U!Failed
      <3>1. IsRag(d) /\ KeptIn(storeData.projects, d.projects) /\ (to = 2 => Uncounted(d))
        BY <1>1, <1>3, <2>1, RagRollback DEF RagKept, d
      <3>2. KeptIn(legacy.data.projects, d.projects)
        BY <2>1, <3>1, KeptFurther DEF RagKept
      <3>3. ~(legacy'.low = 3) /\ ~(schema' = 3)
        BY <1>2, <2>3
      <3> QED
        BY <1>2, <2>3, <3>1, <3>2, <3>3 DEF RagKept, IsRag, Uncounted
    <2> QED
      BY <2>2, <2>3
  <1>4. ASSUME storeKind = "settings"
        PROVE  SettingsKept'
    <2>1. SettingsKept
      BY <1>4 DEF MigrationsInv
    <2>2. d # U!Failed
      BY <1>1, <1>4, SettingsRollbackSucceeds DEF d
    <2>3. \A f \in U!Fields : U!Since[f] <= legacy'.low => U!Since[f] <= legacy.low
      BY <1>2, VersionsAreNumbers DEF MigrationsInv, Versions
    <2>4. Chosen(storeData, legacy'.low)
      BY <2>1, <2>3 DEF SettingsKept, Chosen
    <2>5. legacy'.low \in 0 .. 3 /\ legacy'.low <= to
      BY <1>2, <2>2 DEF Versions
    <2>6. Chosen(d, legacy'.low)
      BY <1>1, <1>4, <2>4, <2>5, SettingsRollback DEF d
    <2>7. ~(schema' = 3)
      BY <1>2, <2>2
    <2> QED
      BY <1>2, <2>2, <2>6, <2>7 DEF SettingsKept, Chosen
  <1>5. MadeStays'
    BY <1>2 DEF MigrationsInv, MadeStays, U!Migration
  <1> QED
    BY <1>2, <1>3, <1>4, <1>5 DEF MigrationsInv

\* The migration of the version that the store has, once more.
LEMMA AgainKeeps ==
  ASSUME MigrationsInv, U!MigrationsAssumption, U!Again
  PROVE  MigrationsInv'
  <1> DEFINE d == U!Migration(schema, storeData)
  <1>0. storeKind \in {"rag", "settings"}
    BY DEF MigrationsInv, Versions
  <1>1. schema \in 1 .. 3 /\ schema \in 0 .. 3 /\ U!Run(d, schema, "migration")
    BY DEF U!Again, MigrationsInv, Versions
  <1> HIDE DEF d
  <1>2. /\ Versions' /\ storeKind' = storeKind /\ upgrades' = upgrades + 1
        /\ legacy'.data = legacy.data /\ legacy'.schema = legacy.schema /\ schema' = schema
        /\ \/ d = U!Failed /\ UNCHANGED <<storeData, schema, via, legacy>>
           \/ d # U!Failed /\ storeData' = d /\ legacy'.low = legacy.low
    <2>1. schema >= schema
      BY <1>1
    <2> QED
      BY <1>1, <2>1, RunKeeps
  <1>3. ASSUME storeKind = "rag"
        PROVE  RagKept'
    <2>1. RagKept
      BY <1>3 DEF MigrationsInv
    <2>2. CASE d = U!Failed
      BY <1>2, <2>1, <2>2 DEF RagKept, IsRag, Counted, Uncounted, ListedOnce
    <2>3. CASE d # U!Failed
      <3>1. storeData' = d /\ schema' = schema /\ legacy'.low = legacy.low
        BY <1>2, <2>3
      <3>2. /\ IsRag(d) /\ KeptIn(storeData.projects, d.projects)
            /\ schema = 2 => ListedOnce(d)
            /\ schema = 3 => \/ d = storeData
                             \/ /\ ListedOnce(d) /\ Counted(d)
                                /\ Counted(storeData) => d.projects = storeData.projects
        <4>1. CASE schema = 1
          BY <1>3, <2>1, <4>1, FirstKeeps DEF RagKept, KeptIn, U!Migration, d
        <4>2. CASE schema = 2
          BY <1>3, <2>1, <2>3, <4>2, SecondKeeps DEF RagKept, U!Migration, d
        <4>3. CASE schema = 3
          <5>1. d = U!MigrateRagToV3(storeData)
            BY <1>3, <4>3 DEF U!Migration, d
          <5>2. KeptIn(storeData.projects, storeData.projects)
            BY DEF KeptIn
          <5> QED
            BY <2>1, <2>3, <4>3, <5>1, <5>2, LastKeeps DEF RagKept
        <4> QED
          BY <1>1, <4>1, <4>2, <4>3
      <3>3. KeptIn(legacy.data.projects, d.projects)
        BY <2>1, <3>2, KeptFurther DEF RagKept
      <3>4. legacy.low = 3 => schema = 3
        BY DEF MigrationsInv, Versions
      <3>5. legacy.low = 3 => d.projects = legacy.data.projects /\ Counted(d)
        BY <2>1, <3>2, <3>4 DEF RagKept, Counted
      <3> QED
        BY <1>2, <2>1, <3>1, <3>2, <3>3, <3>5 DEF RagKept, IsRag, ListedOnce, Counted
    <2> QED
      BY <2>2, <2>3
  <1>4. ASSUME storeKind = "settings"
        PROVE  SettingsKept'
    <2>1. SettingsKept
      BY <1>4 DEF MigrationsInv
    <2>2. d = U!MigrateSettings(schema, storeData)
      BY <1>4 DEF U!Migration, d
    <2>3. d # U!Failed /\ Chosen(d, legacy.low) /\ Complete(d)
      BY <2>1, <2>2, SettingsStepsKeep DEF SettingsKept
    <2> QED
      BY <1>2, <2>3 DEF SettingsKept, Chosen, Complete
  <1>5. MadeStays'
    <2>1. CASE d = U!Failed
      BY <1>2, <2>1 DEF MigrationsInv, MadeStays, U!Migration
    <2>2. CASE d # U!Failed
      <3>1. U!Migration(schema, d) = d
        BY <1>0, <1>1, <2>2, RagAgain, SettingsStepsKeep
          DEF MigrationsInv, RagKept, SettingsKept, U!Migration, d
      <3> QED
        BY <1>2, <2>2, <3>1 DEF MadeStays, U!Migration
    <2> QED
      BY <2>1, <2>2
  <1> QED
    BY <1>2, <1>3, <1>4, <1>5 DEF MigrationsInv

LEMMA MigrationsHold ==
  ASSUME U!MigrationsAssumption
  PROVE  U!Spec => []MigrationsInv
  <1>1. U!Init => MigrationsInv
    BY MigrationsInit
  <1>2. MigrationsInv /\ [U!Next]_(U!migrationVars) => MigrationsInv'
    <2> SUFFICES ASSUME MigrationsInv, [U!Next]_(U!migrationVars)
                 PROVE  MigrationsInv'
      OBVIOUS
    <2>1. CASE U!Upgrade
      BY <2>1, UpgradeKeeps
    <2>2. ASSUME NEW to \in 0 .. 2, U!RollBackTo(to)
          PROVE  MigrationsInv'
      BY <2>2, RollbackKeeps
    <2>3. CASE U!Again
      BY <2>3, AgainKeeps
    <2>4. CASE UNCHANGED U!migrationVars
      BY <2>4 DEF U!migrationVars, MigrationsInv, MadeStays, U!Migration, Versions, RagKept, SettingsKept, IsRag, Counted,
        Uncounted, ListedOnce, Chosen, Complete
    <2> QED
      BY <2>1, <2>2, <2>3, <2>4 DEF U!Next, U!Latest
  <1> QED
    BY <1>1, <1>2, PTL DEF U!Spec

(* However a store goes up and down through the versions, no project, no      *)
(* status and no choice of the user is lost but those that a rollback gives   *)
(* up, and an upgrade leaves every project in the list of ids once            *)
(* (lib/migrations, orchestrator.ts and the registries): from every state     *)
(* that an older release may have left.                                       *)
THEOREM UpgradesLoseNothing ==
  ASSUME U!MigrationsAssumption
  PROVE  U!Spec => []UpgradesKeepData
  <1>1. U!Spec => []MigrationsInv
    BY MigrationsHold
  <1>2. MigrationsInv => UpgradesKeepData
    <2> SUFFICES ASSUME MigrationsInv
                 PROVE  UpgradesKeepData
      OBVIOUS
    <2>1. ASSUME storeKind = "rag"
          PROVE  /\ DOMAIN storeData.projects = DOMAIN legacy.data.projects
                 /\ \A i \in DOMAIN legacy.data.projects :
                       legacy.data.projects[i].status # U!Missing
                          => storeData.projects[i].status = legacy.data.projects[i].status
                 /\ legacy.low = U!Latest => storeData.projects = legacy.data.projects
                 /\ legacy.schema < U!Latest /\ schema = U!Latest
                       => /\ U!IsInjective(storeData.ids)
                          /\ U!ToSet(storeData.ids) = DOMAIN storeData.projects
      <3>1. RagKept
        BY <2>1 DEF MigrationsInv
      <3>2. IsFiniteSet(DOMAIN storeData.projects)
        <4>1. IsFiniteSet(OldIds)
          BY DEF U!MigrationsAssumption, U!IsFiniteSet, IsFiniteSet
        <4> QED
          BY <3>1, <4>1, FS_Subset DEF RagKept, IsRag
      <3> QED
        BY <3>1, <3>2, SequenceOfASet DEF RagKept, KeptIn, ListedOnce, U!Latest
    <2>2. U!ProjectsSurvive
      BY <2>1 DEF U!ProjectsSurvive
    <2>3. U!SettingsComplete
      BY DEF U!SettingsComplete, MigrationsInv, SettingsKept, Chosen, Complete, U!Latest
    <2> QED
      BY <2>2, <2>3 DEF UpgradesKeepData
  <1> QED
    BY <1>1, <1>2, PTL

(* A migration that runs once more on what it has made changes nothing:       *)
(* "All migrations are sequential, idempotent, and validated".                *)
THEOREM MigrationsRunOnce ==
  ASSUME U!MigrationsAssumption
  PROVE  U!Spec => U!AgainChangesNothing
  <1> DEFINE Nothing == via = "migration" /\ via' = via /\ schema' = schema => storeData' = storeData
  <1>1. U!Spec => []MigrationsInv
    BY MigrationsHold
  <1>2. MigrationsInv /\ [U!Next]_(U!migrationVars) => [Nothing]_(U!migrationVars)
    <2> SUFFICES ASSUME MigrationsInv, U!Next
                 PROVE  Nothing
      BY DEF U!migrationVars
    <2>1. CASE U!Upgrade
      <3>1. schema \in 0 .. 2 /\ U!Run(U!Migrated(storeData, schema), 3, "migration")
        BY <2>1 DEF U!Upgrade, U!Latest, MigrationsInv, Versions
      <3>2. schema' = 3 \/ storeData' = storeData
        BY <3>1 DEF U!Run
      <3> QED
        BY <3>1, <3>2
    <2>2. ASSUME NEW to \in 0 .. 2, U!RollBackTo(to)
          PROVE  Nothing
      <3>1. U!Run(U!RolledBack(storeData, schema, to), to, "rollback")
        BY <2>2 DEF U!RollBackTo
      <3>2. via' = "rollback" \/ storeData' = storeData
        BY <3>1 DEF U!Run
      <3> QED
        BY <3>2
    <2>3. CASE U!Again
      <3>1. schema > 0 /\ U!Run(U!Migration(schema, storeData), schema, "migration")
        BY <2>3 DEF U!Again
      <3>2. storeData' = U!Migration(schema, storeData) \/ storeData' = storeData
        BY <3>1 DEF U!Run
      <3> QED
        BY <3>1, <3>2 DEF MigrationsInv, MadeStays
    <2> QED
      BY <2>1, <2>2, <2>3 DEF U!Next, U!Latest
  <1> QED
    BY <1>1, <1>2, PTL DEF U!Spec, U!AgainChangesNothing

-----------------------------------------------------------------------------
(* The rows of the sidebar. What is sought, grouped and loaded may be         *)
(* anything: an editor is opened on one conversation and its draft is from    *)
(* that one's title, so that a row that shows its editor shows that one.      *)
IsSideRow(r) == /\ {"open", "draft"} \subseteq DOMAIN r
                /\ r.open = NoChat \/ r.draft = r.open
EditorsInv == rows = [i \in N!RowsMax |-> rows[i]] /\ \A i \in N!RowsMax : IsSideRow(rows[i])

LEMMA DrawsKeeps ==
  ASSUME NEW kept, NEW to, \A i \in N!RowsMax : IsSideRow(kept[i]), N!Draws(kept, to)
  PROVE  EditorsInv'
  <1>1. rows' = N!Mounted(N!Items', kept, onTop')
    BY DEF N!Draws
  <1>2. N!Mounted(N!Items', kept, onTop') =
          [i \in N!RowsMax |->
             IF ~N!IsRow(N!Items', i) THEN N!NoRow
             ELSE [(IF kept[i].here THEN kept[i] ELSE N!NoRow)
                     EXCEPT !.here = TRUE, !.was = N!Items'[i] = onTop']]
    BY DEF N!Mounted
  <1>3. IsSideRow(N!NoRow)
    BY DEF IsSideRow, N!NoRow
  <1>4. ASSUME NEW r, IsSideRow(r), NEW b
        PROVE  IsSideRow([r EXCEPT !.here = TRUE, !.was = b])
    BY <1>4 DEF IsSideRow
  <1>5. ASSUME NEW i \in N!RowsMax
        PROVE  IsSideRow(rows'[i])
    <2> DEFINE r == IF kept[i].here THEN kept[i] ELSE N!NoRow
               b == N!Items'[i] = onTop'
    <2>1. IsSideRow(r)
      BY <1>3, <1>5
    <2>2. rows'[i] = IF ~N!IsRow(N!Items', i) THEN N!NoRow
                     ELSE [r EXCEPT !.here = TRUE, !.was = b]
      BY <1>1, <1>2
    <2> HIDE DEF r, b
    <2>3. IsSideRow([r EXCEPT !.here = TRUE, !.was = b])
      BY <1>4, <2>1
    <2> QED
      BY <1>3, <2>2, <2>3
  <1>6. rows' = [i \in N!RowsMax |-> rows'[i]]
    BY <1>1, <1>2
  <1> QED
    BY <1>5, <1>6 DEF EditorsInv, N!RowsMax, N!Groups

\* Opening an editor, and closing one.
LEMMA EditorsKeep ==
  ASSUME EditorsInv, NEW i, NEW c
  PROVE  /\ \A j \in N!RowsMax : IsSideRow([rows EXCEPT ![i].open = c, ![i].draft = c][j])
         /\ \A j \in N!RowsMax : IsSideRow([rows EXCEPT ![i].open = NoChat][j])
  <1>1. ASSUME NEW r, IsSideRow(r)
        PROVE  /\ IsSideRow([[r EXCEPT !.open = c] EXCEPT !.draft = c])
               /\ IsSideRow([r EXCEPT !.open = NoChat])
    BY <1>1 DEF IsSideRow
  <1>2. rows = [j \in N!RowsMax |-> rows[j]] /\ \A j \in N!RowsMax : IsSideRow(rows[j])
    BY DEF EditorsInv
  <1>3. ASSUME NEW j \in N!RowsMax
        PROVE  /\ [rows EXCEPT ![i].open = c, ![i].draft = c][j] =
                    IF j = i THEN [[rows[j] EXCEPT !.open = c] EXCEPT !.draft = c] ELSE rows[j]
               /\ [rows EXCEPT ![i].open = NoChat][j] =
                    IF j = i THEN [rows[j] EXCEPT !.open = NoChat] ELSE rows[j]
    BY <1>2
  <1>4. ASSUME NEW j \in N!RowsMax
        PROVE  /\ IsSideRow([[rows[j] EXCEPT !.open = c] EXCEPT !.draft = c])
               /\ IsSideRow([rows[j] EXCEPT !.open = NoChat])
    BY <1>1, <1>2
  <1> QED
    BY <1>2, <1>3, <1>4

LEMMA SidebarStep ==
  ASSUME EditorsInv, [N!Next]_(N!sidebarVars)
  PROVE  EditorsInv'
  <1>0. \A i \in N!RowsMax : IsSideRow(rows[i])
    BY DEF EditorsInv
  <1>1. \/ \E to : N!Draws(rows, to)
        \/ \E i, c, to : N!Draws([rows EXCEPT ![i].open = c, ![i].draft = c], to)
        \/ \E i, to : N!Draws([rows EXCEPT ![i].open = NoChat], to)
        \/ UNCHANGED N!sidebarVars
    <2>1. ASSUME NEW c \in SideChats, N!Create(c) \/ N!Update(c)
          PROVE  \E to : N!Draws(rows, to)
      BY <2>1 DEF N!Create, N!Update, N!Redraws
    <2>2. ASSUME NEW a \in asking, N!Reply(a)
          PROVE  \E to : N!Draws(rows, to)
      BY <2>2 DEF N!Reply, N!Redraws
    <2>3. ASSUME NEW to \in BOOLEAN, N!Type(to)
          PROVE  \E at : N!Draws(rows, at)
      BY <2>3 DEF N!Type
    <2>4. ASSUME NEW i \in DOMAIN N!Items, N!AskDelete(i) \/ N!Click(i) \/ N!Press(i) \/ N!Menu(i)
          PROVE  \E to : N!Draws(rows, to)
      BY <2>4 DEF N!AskDelete, N!Ask, N!Click, N!Press, N!Menu, N!Chooses, N!Redraws
    <2>5. ASSUME NEW i \in DOMAIN N!Items, N!Edit(i)
          PROVE  \E j, c, to : N!Draws([rows EXCEPT ![j].open = c, ![j].draft = c], to)
      BY <2>5 DEF N!Edit, N!Opens
    <2>6. ASSUME NEW i \in DOMAIN N!Items, N!Submit(i)
          PROVE  \E j, to : N!Draws([rows EXCEPT ![j].open = NoChat], to)
      BY <2>6 DEF N!Submit, N!Renames
    <2>7. ASSUME NEW delta \in {1, 2}, N!Walk(delta)
          PROVE  \E to : N!Draws(rows, to)
      BY <2>7 DEF N!Walk, N!Chooses
    <2>8. ASSUME NEW m \in menus, N!MenuRename(m)
          PROVE  \/ \E to : N!Draws(rows, to)
                 \/ \E j, c, to : N!Draws([rows EXCEPT ![j].open = c, ![j].draft = c], to)
      BY <2>8 DEF N!MenuRename, N!Opens, N!Redraws
    <2>9. ASSUME N!AskClear \/ N!Sought \/ N!LoadMore \/ N!Jump \/ N!LeaveList
          PROVE  \E to : N!Draws(rows, to)
      BY <2>9 DEF N!AskClear, N!Ask, N!Sought, N!LoadMore, N!Jump, N!Chooses, N!LeaveList, N!Redraws
    <2>10. ASSUME N!Blur
           PROVE  \E j, to : N!Draws([rows EXCEPT ![j].open = NoChat], to)
      BY <2>10 DEF N!Blur, N!Renames
    <2> QED
      BY <2>1, <2>2, <2>3, <2>4, <2>5, <2>6, <2>7, <2>8, <2>9, <2>10 DEF N!Next
  <1>2. ASSUME NEW to, N!Draws(rows, to)
        PROVE  EditorsInv'
    BY <1>0, <1>2, DrawsKeeps
  <1>3. ASSUME NEW i, NEW c, NEW to, N!Draws([rows EXCEPT ![i].open = c, ![i].draft = c], to)
        PROVE  EditorsInv'
    BY <1>3, EditorsKeep, DrawsKeeps
  <1>4. ASSUME NEW i, NEW to, N!Draws([rows EXCEPT ![i].open = NoChat], to)
        PROVE  EditorsInv'
    BY <1>4, EditorsKeep, DrawsKeeps
  <1>5. CASE UNCHANGED N!sidebarVars
    BY <1>5 DEF N!sidebarVars, EditorsInv, N!RowsMax, N!Groups
  <1> QED
    BY <1>1, <1>2, <1>3, <1>4, <1>5

(* The draft in an editor began as the title of the conversation that its row *)
(* displays and will rename, however the list has shifted since               *)
(* (ConversationItem.tsx, Sidebar.tsx).                                       *)
THEOREM EditorsStayWithTheirRows ==
  ASSUME N!SidebarAssumption
  PROVE  N!Spec => []N!EditorIsOfItsRow
  <1>1. N!Init => EditorsInv
    <2> SUFFICES ASSUME N!Init
                 PROVE  EditorsInv
      OBVIOUS
    <2> DEFINE none == [i \in N!RowsMax |-> N!NoRow]
    <2>1. rows = N!Mounted(N!Items, none, NoChat)
      BY DEF N!Init
    <2>2. rows = [i \in N!RowsMax |->
                    IF ~N!IsRow(N!Items, i) THEN N!NoRow
                    ELSE [N!NoRow EXCEPT !.here = TRUE, !.was = N!Items[i] = NoChat]]
      BY <2>1 DEF N!Mounted, N!NoRow
    <2>3. /\ IsSideRow(N!NoRow)
          /\ \A b : IsSideRow([N!NoRow EXCEPT !.here = TRUE, !.was = b])
      BY DEF IsSideRow, N!NoRow
    <2>4. \A i \in N!RowsMax : IsSideRow(rows[i])
      BY <2>2, <2>3
    <2> QED
      BY <2>2, <2>4 DEF EditorsInv
  <1>2. EditorsInv /\ [N!Next]_(N!sidebarVars) => EditorsInv'
    BY SidebarStep
  <1>3. EditorsInv => N!EditorIsOfItsRow
    BY DEF EditorsInv, IsSideRow, N!EditorIsOfItsRow, N!Editing, N!Edits, N!IsRow,
      N!SidebarAssumption
  <1> QED
    BY <1>1, <1>2, <1>3, PTL DEF N!Spec

-----------------------------------------------------------------------------
(* The dialogs. *)

\* The dialog of the store, and the form of the sidebar: it is there exactly
\* when it is asked for and the sidebar is unfolded.
ModalIsShown == /\ modal \in Modals \cup {NoModal} /\ leaving \in Modals \cup {NoModal}
                /\ modal = NoModal \/ leaving = NoModal
FormIsShown == /\ showAdd \in BOOLEAN /\ collapsed \in BOOLEAN
               /\ (form # 0) = (showAdd /\ ~collapsed) /\ form \in 0 .. forms /\ forms \in Nat
\* No more conversations are awaited than keys were pressed.
ShellInv == O!TypeOK /\ creating <= keys

\* Whatever becomes of the two flags, the form follows them.
LEMMA FormFollowsShown ==
  ASSUME FormIsShown, O!FormFollows, showAdd' \in BOOLEAN, collapsed' \in BOOLEAN
  PROVE  FormIsShown' /\ forms' >= forms
  <1>1. CASE ~showAdd' \/ collapsed'
    <2>1. form' = 0 /\ forms' = forms
      BY <1>1 DEF O!FormFollows, FormIsShown
    <2> QED
      BY <1>1, <2>1 DEF FormIsShown
  <1>2. CASE showAdd' /\ ~collapsed'
    <2>1. CASE form # 0
      <3>1. form' = form /\ forms' = forms
        BY <1>2, <2>1 DEF O!FormFollows, FormIsShown
      <3> QED
        BY <1>2, <2>1, <3>1 DEF FormIsShown
    <2>2. CASE form = 0
      <3>1. form' = forms + 1 /\ forms' = forms + 1
        BY <1>2, <2>2 DEF O!FormFollows, FormIsShown
      <3> QED
        BY <1>2, <3>1 DEF FormIsShown
    <2> QED
      BY <2>1, <2>2
  <1> QED
    BY <1>1, <1>2

\* What actions do to the form, and to the dialog of the store.
LEMMA FormMoves ==
  ASSUME FormIsShown, \/ O!Sidebar \/ O!Cancels \/ \E to \in BOOLEAN : O!Folds(to)
                      \/ showAdd' = TRUE /\ UNCHANGED collapsed /\ O!FormFollows
  PROVE  FormIsShown' /\ forms' >= forms
  <1>1. CASE O!Sidebar
    BY <1>1 DEF O!Sidebar, FormIsShown
  <1>2. CASE ~O!Sidebar
    <2>1. O!FormFollows /\ showAdd' \in BOOLEAN /\ collapsed' \in BOOLEAN
      BY <1>2 DEF O!Cancels, O!Folds, FormIsShown
    <2> QED
      BY <2>1, FormFollowsShown
  <1> QED
    BY <1>1, <1>2

LEMMA ModalMoves ==
  ASSUME ModalIsShown, \/ O!Dialogs \/ O!CloseModal \/ \E k \in Modals : O!OpenModal(k)
  PROVE  ModalIsShown'
  BY DEF ModalIsShown, O!Dialogs, O!CloseModal, O!OpenModal

\* A step that keeps the two, and the rest in its range, keeps the invariant.
LEMMA ShellFrom ==
  ASSUME ShellInv, ModalIsShown', FormIsShown', forms' >= forms,
         own' \in {"no", "dialog", "editor"}, sidebarTab' \in {"chats", "projects"},
         narrow' \in BOOLEAN, adding' \subseteq adding \cup ({form} \ {0}),
         onScreen' \in Chats \cup {NoChat}, streaming' \subseteq Chats,
         creating' \in Nat, creating' <= keys', keys' \in 0 .. MaxKeys, MaxKeys \in Nat
  PROVE  ShellInv'
  <1>1. adding' \subseteq 1 .. forms'
    BY DEF ShellInv, O!TypeOK, FormIsShown
  <1>2. creating' \in 0 .. MaxKeys
    OBVIOUS
  <1> QED
    BY <1>1, <1>2 DEF ShellInv, O!TypeOK, ModalIsShown, FormIsShown

LEMMA ShellStep ==
  ASSUME O!ShellAssumption, ShellInv, [O!Next]_O!shellVars
  PROVE  ShellInv'
  <1>1. /\ ModalIsShown /\ FormIsShown /\ MaxKeys \in Nat /\ own \in {"no", "dialog", "editor"}
        /\ sidebarTab \in {"chats", "projects"} /\ narrow \in BOOLEAN
        /\ onScreen \in Chats \cup {NoChat} /\ streaming \subseteq Chats
        /\ creating \in Nat /\ keys \in 0 .. MaxKeys /\ creating <= keys
        /\ 0 \notin adding
    BY DEF ShellInv, O!TypeOK, ModalIsShown, FormIsShown, O!ShellAssumption
  <1>2. O!Presses => keys' = keys + 1 /\ keys' \in 0 .. MaxKeys
    BY <1>1 DEF O!Presses
  <1>3. ASSUME NEW k \in Modals, O!Open(k) PROVE ShellInv'
    <2>1. ModalIsShown' /\ FormIsShown' /\ forms' >= forms
      BY <1>1, <1>3, ModalMoves, FormMoves DEF O!Open
    <2> QED
      BY <1>1, <1>2, <1>3, <2>1, ShellFrom DEF O!Open
  <1>4. CASE O!New
    <2>1. ModalIsShown' /\ FormIsShown' /\ forms' >= forms
      BY <1>1, <1>4, ModalMoves, FormMoves DEF O!New
    <2>2. creating' \in {creating, creating + 1}
      BY <1>4 DEF O!New
    <2> QED
      BY <1>1, <1>2, <1>4, <2>1, <2>2, ShellFrom DEF O!New
  <1>5. CASE O!NewOfRail
    <2>1. ModalIsShown' /\ FormIsShown' /\ forms' >= forms
      BY <1>1, <1>5, ModalMoves, FormMoves DEF O!NewOfRail
    <2> QED
      BY <1>1, <1>2, <1>5, <2>1, ShellFrom DEF O!NewOfRail
  <1>6. CASE O!Fold \/ O!Resize
    <2>1. O!Sidebar \/ \E to \in BOOLEAN : O!Folds(to)
      BY <1>1, <1>6 DEF O!Fold, O!Resize, FormIsShown
    <2>2. ModalIsShown' /\ FormIsShown' /\ forms' >= forms
      BY <1>1, <1>6, <2>1, ModalMoves, FormMoves DEF O!Fold, O!Resize
    <2>3. /\ O!Presses /\ narrow' \in BOOLEAN
          /\ UNCHANGED <<own, sidebarTab, adding, onScreen, streaming, creating>>
      BY <1>1, <1>6 DEF O!Fold, O!Resize
    <2> QED
      BY <1>1, <1>2, <2>2, <2>3, ShellFrom
  <1>7. CASE O!Escape
    <2>1. PICK first : O!TakenBy(first)
      BY <1>7 DEF O!Escape
    <2>2. ModalIsShown' /\ FormIsShown' /\ forms' >= forms
      BY <1>1, <2>1, ModalMoves, FormMoves DEF O!TakenBy
    <2>3. own' \in {"no", own} /\ streaming' \subseteq streaming
      BY <2>1 DEF O!TakenBy, O!StopsAnswer
    <2>4. O!Presses /\ UNCHANGED <<sidebarTab, narrow, adding, onScreen, creating>>
      BY <1>7 DEF O!Escape
    <2> QED
      BY <1>1, <1>2, <2>2, <2>3, <2>4, ShellFrom
  <1>8. CASE O!Faded
    <2>1. ModalIsShown' /\ FormIsShown' /\ forms' >= forms
      BY <1>1, <1>8 DEF O!Faded, ModalIsShown, FormIsShown
    <2> QED
      BY <1>1, <1>8, <2>1, ShellFrom DEF O!Faded
  <1>9. ASSUME NEW to \in {"chats", "projects"}, O!Tab(to) PROVE ShellInv'
    <2>1. ModalIsShown' /\ FormIsShown' /\ forms' >= forms
      BY <1>1, <1>9, ModalMoves, FormMoves DEF O!Tab
    <2> QED
      BY <1>1, <1>2, <1>9, <2>1, ShellFrom DEF O!Tab
  <1>10. CASE O!CloseStore \/ O!CloseForm
    <2>1. ModalIsShown' /\ FormIsShown' /\ forms' >= forms
      BY <1>1, <1>10, ModalMoves, FormMoves DEF O!CloseStore, O!CloseForm
    <2> QED
      BY <1>1, <1>2, <1>10, <2>1, ShellFrom DEF O!CloseStore, O!CloseForm
  <1>11. ASSUME NEW what \in {"dialog", "editor"}, O!OpenOwn(what) \/ O!CloseOwn PROVE ShellInv'
    <2>1. ModalIsShown' /\ FormIsShown' /\ forms' >= forms
      BY <1>1, <1>11, ModalMoves, FormMoves DEF O!OpenOwn, O!CloseOwn
    <2>2. own' \in {"no", "dialog", "editor"}
      BY <1>11 DEF O!OpenOwn, O!CloseOwn
    <2> QED
      BY <1>1, <1>2, <1>11, <2>1, <2>2, ShellFrom DEF O!OpenOwn, O!CloseOwn
  <1>12. ASSUME NEW f \in adding, O!Added(f) \/ O!NotAdded(f) PROVE ShellInv'
    <2>1. ModalIsShown' /\ FormIsShown' /\ forms' >= forms
      BY <1>1, <1>12, ModalMoves, FormMoves DEF O!Added, O!NotAdded, O!ClosesForm
    <2> QED
      BY <1>1, <1>12, <2>1, ShellFrom DEF O!Added, O!NotAdded
  <1>13. CASE O!Add \/ O!Sends
    <2>1. ModalIsShown' /\ FormIsShown' /\ forms' >= forms
      BY <1>1, <1>13, ModalMoves, FormMoves DEF O!Add, O!Sends
    <2>2. streaming' \subseteq Chats /\ adding' \subseteq adding \cup ({form} \ {0})
      BY <1>1, <1>13 DEF O!Add, O!Sends
    <2> QED
      BY <1>1, <1>2, <1>13, <2>1, <2>2, ShellFrom DEF O!Add, O!Sends
  <1>14. ASSUME NEW c \in Chats, O!Created(c) \/ O!Answered(c) PROVE ShellInv'
    <2>1. ModalIsShown' /\ FormIsShown' /\ forms' >= forms
      BY <1>1, <1>14, ModalMoves, FormMoves DEF O!Created, O!Answered
    <2>2. creating' \in Nat /\ creating' <= creating /\ streaming' \subseteq Chats
      BY <1>1, <1>14 DEF O!Created, O!Answered
    <2> QED
      BY <1>1, <1>14, <2>1, <2>2, ShellFrom DEF O!Created, O!Answered
  <1>15. CASE UNCHANGED O!shellVars
    BY <1>15 DEF O!shellVars, ShellInv, O!TypeOK
  <1> QED
    BY <1>3, <1>4, <1>5, <1>6, <1>7, <1>8, <1>9, <1>10, <1>11, <1>12, <1>13, <1>14, <1>15
    DEF O!Next

\* At the first ear that hears it, Escape closes something, or nothing is open.
LEMMA EscapeTakes ==
  ASSUME O!TypeOK, O!Escape, leaving = NoModal, O!OpenDialogs # {}
  PROVE  O!OpenDialogs' \subseteq O!OpenDialogs /\ O!OpenDialogs' # O!OpenDialogs
  <1>1. own \in {"no", "dialog", "editor"} /\ (form # 0) = (showAdd /\ ~collapsed)
    BY DEF O!TypeOK
  <1>2. ASSUME NEW first \in {"own", "store", "form", "nobody"}, O!TakenBy(first)
        PROVE  /\ (own' # "no") = (own # "no" /\ first # "own")
               /\ (modal' # NoModal) = FALSE
               /\ (form' # 0) = (form # 0 /\ first # "form")
    <2>1. own' = IF first = "own" THEN "no" ELSE own
      BY <1>2 DEF O!TakenBy
    <2>2. modal' = NoModal
      BY <1>2 DEF O!TakenBy, O!CloseModal, O!Dialogs
    <2>3. first = "form" => form' = 0
      BY <1>2 DEF O!TakenBy, O!Cancels, O!FormFollows
    <2>4. first # "form" => form' = form
      BY <1>2 DEF O!TakenBy, O!Sidebar
    <2> QED
      BY <2>1, <2>2, <2>3, <2>4
  <1>3. PICK first \in {"own", "store", "form", "nobody"} :
          /\ O!TakenBy(first)
          /\ \/ own = "editor" /\ first = "own"
             \/ own # "editor" /\ first # "nobody" /\ O!Listening(first)
             \/ own # "editor" /\ first = "nobody" /\ O!Ears = {}
    BY DEF O!Escape, O!Ears
  <1>4. /\ (own' # "no") = (own # "no" /\ first # "own")
        /\ (modal' # NoModal) = FALSE
        /\ (form' # 0) = (form # 0 /\ first # "form")
    BY <1>2, <1>3
  <1>5. /\ first = "own" => own # "no"
        /\ first = "store" => modal # NoModal
        /\ first = "form" => form # 0
        /\ first = "nobody" => modal = NoModal /\ form = 0 /\ own # "dialog"
    BY <1>3 DEF O!Listening, O!Ears
  <1>6. \/ own # "no" /\ own' = "no"
        \/ modal # NoModal /\ modal' = NoModal
        \/ form # 0 /\ form' = 0
    <2>1. own # "no" \/ modal # NoModal \/ form # 0
      BY DEF O!OpenDialogs
    <2> QED
      BY <1>1, <1>3, <1>4, <1>5, <2>1
  <1> QED
    BY <1>4, <1>6 DEF O!OpenDialogs

(* Whatever is open on top of whatever, and in whichever order it opened,     *)
(* Escape closes something of it once nothing is fading out, so that pressing *)
(* it again and again leaves the window bare (ModalLayout.tsx,                *)
(* useGlobalShortcuts.ts).                                                    *)
THEOREM EscapeCloses ==
  ASSUME O!ShellAssumption
  PROVE  O!Spec => O!EscapeClosesSomething
  <1> DEFINE Closes == O!Escape /\ leaving = NoModal /\ O!OpenDialogs # {} =>
                         O!OpenDialogs' \subseteq O!OpenDialogs /\ O!OpenDialogs' # O!OpenDialogs
  <1>1. O!Init => ShellInv
    <2> SUFFICES ASSUME O!Init
                 PROVE  ShellInv
      OBVIOUS
    <2>1. MaxKeys \in Nat /\ 0 \in 0 .. MaxKeys
      BY DEF O!ShellAssumption
    <2>2. creating = 0 /\ keys = 0 /\ form = 0 /\ forms = 0 /\ adding = {} /\ showAdd = FALSE
      BY DEF O!Init
    <2>3. FormIsShown /\ creating <= keys /\ adding \subseteq 1 .. forms
      <3>1. showAdd \in BOOLEAN /\ collapsed \in BOOLEAN /\ (showAdd /\ ~collapsed) = FALSE
        BY DEF O!Init
      <3>2. (form # 0) = FALSE
        BY <2>2
      <3>3. (form # 0) = (showAdd /\ ~collapsed)
        BY <3>1, <3>2
      <3>4. form \in 0 .. forms /\ forms \in Nat /\ creating <= keys /\ adding \subseteq 1 .. forms
        BY <2>2
      <3> QED
        BY <3>1, <3>3, <3>4 DEF FormIsShown
    <2>4. ModalIsShown /\ creating \in 0 .. MaxKeys /\ keys \in 0 .. MaxKeys
      BY <2>1, <2>2 DEF O!Init, ModalIsShown
    <2> QED
      BY <2>3, <2>4 DEF O!Init, ShellInv, O!TypeOK, FormIsShown, ModalIsShown
  <1>2. ShellInv /\ [O!Next]_O!shellVars => ShellInv'
    BY ShellStep
  <1>3. ShellInv /\ [O!Next]_O!shellVars => [Closes]_O!shellVars
    BY EscapeTakes DEF ShellInv
  <1> QED
    BY <1>1, <1>2, <1>3, PTL DEF O!Spec, O!EscapeClosesSomething

-----------------------------------------------------------------------------
(* The views of the store side by side. The projects in the database are      *)
(* those of a lone run, which RagIndexingProofs proves about.                 *)
RP == INSTANCE RagIndexingProofs WITH
        Files <- RagFiles, Models <- Embedders, Runs <- RagRuns

(* What the window lists is what the database holds, in the three parts       *)
(* together: the conversations, the cards of the projects, and no project is  *)
(* left at "indexing" with no run to end it, while nothing fails.             *)
THEOREM ViewsAreOfTheStore ==
  ASSUME C!ConversationsAssumption, RP!ConstantsAssumption, Clients = {},
         MaxFaults = 0, MaxCrashes = 0
  PROVE  C!Spec /\ W!Spec /\ RP!Spec => []ViewsTellTheStore
  <1>1. RP!Spec => [](faults = 0 /\ crashes = 0 => RP!NotStuckIndexing)
    BY RP!NobodyLeavesIndexing
  <1>2. RP!Spec => []RP!TypeOK
    BY RP!TypeCorrect
  <1>3. RP!TypeOK => faults = 0 /\ crashes = 0
    BY DEF RP!TypeOK
  <1>4. RP!NotStuckIndexing => R!NotStuckIndexing
    BY DEF RP!NotStuckIndexing, R!NotStuckIndexing, RP!Registered, R!Registered
  <1>5. RP!Spec => []R!NotStuckIndexing
    BY <1>1, <1>2, <1>3, <1>4, PTL
  <1> QED
    BY <1>5, ConversationsAreStored, CardsAreOfTheRows, PTL DEF ViewsTellTheStore

================================================================================
