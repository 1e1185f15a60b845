------------------------------ MODULE WindowShell ------------------------------
(***************************************************************************)
(* The dialogs of the window and the keys that reach them.  One dialog at  *)
(* a time is open in the store of the interface; besides it there are the  *)
(* form for a new project, which belongs to the expanded sidebar, and the  *)
(* dialogs and editors components keep for themselves.  Escape is heard    *)
(* three times: by the field it is typed in, by one dialog (on document),  *)
(* and by the shortcuts (on window).                                       *)
(***************************************************************************)
EXTENDS Naturals, FiniteSets

CONSTANTS Kinds, NoKind,        \* ModalKind, and none
          Chats, NoChat,
          MaxKeys, MaxAdds      \* bounds of the model

\* Assumed of the constants wherever this module is instantiated.
ShellAssumption ==
    /\ NoKind \notin Kinds /\ NoChat \notin Chats
    /\ MaxKeys \in Nat /\ MaxAdds \in Nat

VARIABLES modal, leaving,          \* activeModal, and the dialog still fading out
          own,                     \* a dialog or an editor some component keeps: "no" if none
          sidebarTab, collapsed, narrow,
          showAdd, form,           \* showAddProject; which form is mounted, 0 if none
          forms, adding,           \* how many were; the forms whose answer is awaited
          onScreen, streaming,     \* currentConversationId, activeStreams
          creating, keys

shellVars == <<modal, leaving, own, sidebarTab, collapsed, narrow, showAdd, form, forms,
               adding, onScreen, streaming, creating, keys>>

Init == /\ modal = NoKind /\ leaving = NoKind /\ own = "no"
        /\ sidebarTab = "chats" /\ collapsed = FALSE /\ narrow = FALSE
        /\ showAdd = FALSE /\ form = 0 /\ forms = 0 /\ adding = {}
        /\ onScreen = NoChat /\ streaming = {} /\ creating = 0 /\ keys = 0

Presses == keys < MaxKeys /\ keys' = keys + 1

-----------------------------------------------------------------------------
(***************************************************************************)
(* openModal and closeModal.  A dialog that is closed fades out and hears  *)
(* keys until it has; another one takes its place at once.                 *)
(***************************************************************************)
OpenModal(k) == modal' = k /\ leaving' = NoKind
CloseModal == /\ modal' = NoKind
              /\ leaving' = IF modal # NoKind THEN modal ELSE leaving
Faded == /\ leaving # NoKind /\ leaving' = NoKind
         /\ UNCHANGED <<modal, own, sidebarTab, collapsed, narrow, showAdd, form, forms,
                        adding, onScreen, streaming, creating, keys>>
Dialogs == UNCHANGED <<modal, leaving>>

(* The sidebar mounts the form when it is asked for and not collapsed; a   *)
(* form that is mounted again is an empty one.                             *)
FormFollows == /\ form' = IF ~showAdd' \/ collapsed' THEN 0
                          ELSE IF form # 0 THEN form ELSE forms + 1
               /\ forms' = IF form' > forms THEN form' ELSE forms
Sidebar == UNCHANGED <<collapsed, showAdd, form, forms>>

(* The buttons of the header and of the sidebar, and the shortcuts, which  *)
(* do not ask what else is open.                                           *)
Open(k) == /\ Presses /\ OpenModal(k) /\ Sidebar
           /\ UNCHANGED <<own, sidebarTab, narrow, adding, onScreen, streaming, creating>>
New == /\ Presses /\ Dialogs
       /\ IF sidebarTab = "projects"
            THEN /\ showAdd' = TRUE /\ UNCHANGED <<collapsed, creating>> /\ FormFollows
            ELSE /\ creating' = creating + 1 /\ Sidebar
       /\ UNCHANGED <<own, sidebarTab, narrow, adding, onScreen, streaming>>
Folds(to) == /\ collapsed' = to /\ UNCHANGED showAdd /\ FormFollows
NewOfRail == /\ Presses /\ collapsed /\ creating' = creating + 1 /\ Dialogs /\ Sidebar
             /\ UNCHANGED <<own, sidebarTab, narrow, adding, onScreen, streaming>>
Fold == /\ Presses /\ Folds(~collapsed) /\ Dialogs
        /\ UNCHANGED <<own, sidebarTab, narrow, adding, onScreen, streaming, creating>>
Tab(to) == /\ Presses /\ (to = "projects" \/ ~collapsed) /\ sidebarTab' = to /\ Dialogs /\ Sidebar
           /\ UNCHANGED <<own, narrow, adding, onScreen, streaming, creating>>

(* The window narrows or widens: narrowing folds the sidebar, widening     *)
(* never unfolds it.                                                       *)
Resize == /\ Presses /\ narrow' = ~narrow /\ Dialogs
          /\ IF narrow' /\ ~collapsed THEN Folds(TRUE) ELSE Sidebar
          /\ UNCHANGED <<own, sidebarTab, adding, onScreen, streaming, creating>>

-----------------------------------------------------------------------------
(***************************************************************************)
(* Escape.  On document exactly one dialog takes it, the one that has      *)
(* listened for longest; the form listens anew whenever the sidebar is     *)
(* drawn, so that it is never before a dialog that fades out.              *)
(***************************************************************************)
Listening(e) == \/ e = "own" /\ own = "dialog"
                \/ e = "store" /\ (modal # NoKind \/ leaving # NoKind)
                \/ e = "form" /\ form # 0 /\ leaving = NoKind
EarsStay == {e \in {"own", "store", "form"} : Listening(e) \/ e = "own"}   \* a slip
Ears == {e \in {"own", "store", "form"} : Listening(e)}
Cancels == showAdd' = FALSE /\ UNCHANGED collapsed /\ FormFollows

(* What is left for the shortcuts once `first' has been closed: the dialog *)
(* of the store, or the answer being written on screen.                    *)
StopsAnswer(open) == streaming' = IF open THEN streaming ELSE streaming \ {onScreen}
TakenBy(first) ==
  /\ own' = IF first = "own" THEN "no" ELSE own
  /\ IF first = "form" THEN Cancels ELSE Sidebar
  /\ IF first = "store" \/ modal # NoKind THEN CloseModal ELSE Dialogs
  /\ StopsAnswer(modal # NoKind /\ first # "store")
Escape == /\ Presses
          /\ \/ own = "editor" /\ TakenBy("own")
             \/ own # "editor" /\ \E first \in Ears : TakenBy(first)
             \/ own # "editor" /\ Ears = {} /\ TakenBy("nobody")
          /\ UNCHANGED <<sidebarTab, narrow, adding, onScreen, creating>>

(* The other ways out: the close button, the backdrop.                     *)
CloseStore == /\ Presses /\ modal # NoKind /\ CloseModal /\ Sidebar
              /\ UNCHANGED <<own, sidebarTab, narrow, adding, onScreen, streaming, creating>>
CloseForm == /\ Presses /\ form # 0 /\ Cancels /\ Dialogs
             /\ UNCHANGED <<own, sidebarTab, narrow, adding, onScreen, streaming, creating>>
OpenOwn(what) == /\ Presses /\ own = "no" /\ modal = NoKind /\ form = 0 /\ own' = what
                 /\ Dialogs /\ Sidebar
                 /\ UNCHANGED <<sidebarTab, narrow, adding, onScreen, streaming, creating>>
CloseOwn == /\ own # "no" /\ Presses /\ own' = "no" /\ Dialogs /\ Sidebar
            /\ UNCHANGED <<sidebarTab, narrow, adding, onScreen, streaming, creating>>

-----------------------------------------------------------------------------
(***************************************************************************)
(* The form adds a project, and closes when that is done; a failure leaves *)
(* it open.  What closes is the form that is asked for in the store.       *)
(***************************************************************************)
Add == /\ Presses /\ form # 0 /\ form \notin adding /\ Cardinality(adding) < MaxAdds
       /\ adding' = adding \union {form} /\ Dialogs /\ Sidebar
       /\ UNCHANGED <<own, sidebarTab, narrow, onScreen, streaming, creating>>
ClosesForm == Cancels
Added(f) == /\ f \in adding /\ adding' = adding \ {f} /\ ClosesForm /\ Dialogs
            /\ UNCHANGED <<own, sidebarTab, narrow, onScreen, streaming, creating, keys>>
NotAdded(f) == /\ f \in adding /\ adding' = adding \ {f} /\ Dialogs /\ Sidebar
               /\ UNCHANGED <<own, sidebarTab, narrow, onScreen, streaming, creating, keys>>

(* The conversations: created, shown, answered.                            *)
Created(c) == /\ creating > 0 /\ creating' = creating - 1 /\ onScreen' = c
              /\ Dialogs /\ Sidebar
              /\ UNCHANGED <<own, sidebarTab, narrow, adding, streaming, keys>>
Sends == /\ Presses /\ modal = NoKind /\ onScreen \in Chats \ streaming
         /\ streaming' = streaming \union {onScreen}
         /\ Dialogs /\ Sidebar
         /\ UNCHANGED <<own, sidebarTab, narrow, adding, onScreen, creating>>
Answered(c) == /\ c \in streaming /\ streaming' = streaming \ {c} /\ Dialogs /\ Sidebar
               /\ UNCHANGED <<own, sidebarTab, narrow, adding, onScreen, creating, keys>>

Next == \/ \E k \in Kinds : Open(k)
        \/ New \/ NewOfRail \/ Fold \/ Resize \/ Escape \/ Faded
        \/ \E to \in {"chats", "projects"} : Tab(to)
        \/ CloseStore \/ CloseForm \/ CloseOwn
        \/ \E what \in {"dialog", "editor"} : OpenOwn(what)
        \/ Add \/ \E f \in adding : Added(f) \/ NotAdded(f)
        \/ Sends \/ \E c \in Chats : Created(c) \/ Answered(c)

Spec == Init /\ [][Next]_shellVars

(* A dialog fades out, and the core answers.                               *)
Adds == \E f \in adding : Added(f) \/ NotAdded(f)
FairSpec == Spec /\ WF_shellVars(Faded) /\ WF_shellVars(Adds)

-----------------------------------------------------------------------------
(* Every variable has the shape its comment gives it; the form is mounted  *)
(* exactly when it is asked for and the sidebar is unfolded.               *)
TypeOK == /\ modal \in Kinds \union {NoKind} /\ leaving \in Kinds \union {NoKind}
          /\ modal = NoKind \/ leaving = NoKind
          /\ own \in {"no", "dialog", "editor"} /\ sidebarTab \in {"chats", "projects"}
          /\ collapsed \in BOOLEAN /\ narrow \in BOOLEAN /\ showAdd \in BOOLEAN
          /\ form \in 0 .. forms /\ (form # 0) = (showAdd /\ ~collapsed) /\ forms \in Nat
          /\ adding \subseteq 1 .. forms /\ onScreen \in Chats \union {NoChat}
          /\ streaming \subseteq Chats /\ creating \in 0 .. MaxKeys /\ keys \in 0 .. MaxKeys

OpenDialogs == (IF own # "no" THEN {"own"} ELSE {})
               \union (IF modal # NoKind THEN {"store"} ELSE {})
               \union (IF form # 0 THEN {"form"} ELSE {})

(***************************************************************************)
(* Whatever is open on top of whatever, and in whichever order it opened,  *)
(* Escape closes something of it once nothing is fading out, so that       *)
(* pressing it again and again leaves the window bare.                     *)
(***************************************************************************)
EscapeClosesSomething ==
  [][Escape /\ leaving = NoKind /\ OpenDialogs # {} =>
       OpenDialogs' \subseteq OpenDialogs /\ OpenDialogs' # OpenDialogs]_shellVars

=============================================================================
