------------------------------ MODULE SidebarList ------------------------------
(***************************************************************************)
(* The list of conversations in the sidebar: grouped by age, searched      *)
(* after a pause, loaded piece by piece, walked with the keys, renamed in  *)
(* place.  The list is virtual, and a row is the row of a place and not of *)
(* a conversation: when the list shifts, what a row keeps for itself stays *)
(* at its place and is about another conversation then.                    *)
(***************************************************************************)
EXTENDS Naturals, Sequences, FiniteSets, SequencesExt

CONSTANTS Chats, NoChat, Header,
          Lists, Matching,       \* the lists at first, and whose titles hold what is sought
          Shown,                 \* initialLoadCount
          More,                  \* loadMoreCount
          MaxDeeds               \* bound of the model

\* Assumed of the constants wherever this module is instantiated.
SidebarAssumption ==
    /\ Chats \cap {NoChat, Header} = {} /\ NoChat # Header
    /\ Shown \in Nat \ {0} /\ More \in Nat \ {0} /\ MaxDeeds \in Nat

VARIABLES sideIds, age, titled,     \* conversationIds, their groups, whether the query is in the title
          sought, soughtNext, soughtSoon,  \* searchQuery, the field, its timer
          loaded, current,          \* loadedCount, currentConversationId
          rows, focused, blurring,  \* the rows that are mounted, the one with the focus, 0 if none
          asking, menus, sideDeeds      \* the questions and the menus that are open

sidebarVars == <<sideIds, age, titled, sought, soughtNext, soughtSoon, loaded, current,
                 rows, focused, blurring, asking, menus, sideDeeds>>

Groups == <<"today", "older">>
Least(n, m) == IF n < m THEN n ELSE m

(* selectFilteredConversations and useSidebarGrouping.                     *)
Filtered == SelectSeq(sideIds, LAMBDA c : ~sought \/ titled[c])
Loaded == SubSeq(Filtered, 1, Least(loaded, Len(Filtered)))
OfGroup(g) == SelectSeq(Loaded, LAMBDA c : age[c] = g)
Headed(list) == IF list = <<>> THEN <<>> ELSE <<Header>> \o list
Items == IF sought THEN <<Header>> \o Loaded
         ELSE FlattenSeq([i \in DOMAIN Groups |-> Headed(OfGroup(Groups[i]))])

-----------------------------------------------------------------------------
(***************************************************************************)
(* A row keeps which conversation it edits and from whose title the draft  *)
(* began, and whether it was the active one; its editor shows only when    *)
(* that conversation is the one it displays.                               *)
(***************************************************************************)
NoRow == [here |-> FALSE, open |-> NoChat, draft |-> NoChat, was |-> FALSE]
RowsMax == 1 .. Len(Groups) + Cardinality(Chats)
IsRow(items, i) == i \in DOMAIN items /\ items[i] \in Chats
EditsAnything(items, kept, i) == IsRow(items, i) /\ kept[i].open # NoChat   \* a slip
Edits(items, kept, i) == IsRow(items, i) /\ kept[i].open = items[i]
Editing(i) == Edits(Items, rows, i)

(* What follows every change: the rows are drawn from what they keep, one  *)
(* that has become active takes the focus, an editor that comes takes it   *)
(* and one that goes loses it.  An editor that is left by the focus is     *)
(* blurred.                                                                *)
Mounted(items, kept, shown) ==
  [i \in RowsMax |-> IF ~IsRow(items, i) THEN NoRow
                     ELSE [(IF kept[i].here THEN kept[i] ELSE NoRow)
                             EXCEPT !.here = TRUE, !.was = items[i] = shown]]
Draws(kept, to) ==
  LET before == Items
      items == Items'
      next == Mounted(items, kept, current')
      edited == {i \in RowsMax : Edits(items, next, i)}
      gains == {i \in RowsMax \ edited : kept[i].here /\ ~kept[i].was /\ next[i].was}
      comes == {i \in edited : ~Edits(before, rows, i)}
      stays == IF to # 0 /\ IsRow(items, to) /\ (Edits(before, rows, to) => to \in edited)
                 THEN to ELSE 0
      goes == IF gains # {} THEN CHOOSE i \in gains : TRUE
              ELSE IF comes # {} THEN CHOOSE i \in comes : TRUE ELSE stays
  IN /\ rows' = next /\ focused' = goes
     /\ blurring' = IF focused \notin {0, goes} /\ Edits(before, rows, focused) /\ focused \in edited
                      THEN focused ELSE 0
Redraws == Draws(rows, focused)
Store == UNCHANGED <<sideIds, age, titled>>
Search == UNCHANGED <<sought, soughtNext, soughtSoon>>
Does == blurring = 0 /\ sideDeeds < MaxDeeds /\ sideDeeds' = sideDeeds + 1

Init == /\ sideIds \in Lists /\ age \in [Chats -> {"today", "older"}]
        /\ titled = [c \in Chats |-> c \in Matching]
        /\ sought = FALSE /\ soughtNext = FALSE /\ soughtSoon = FALSE
        /\ loaded = Shown /\ current = NoChat /\ rows = Mounted(Items, [i \in RowsMax |-> NoRow], NoChat)
        /\ focused = 0 /\ blurring = 0 /\ asking = {} /\ menus = {} /\ sideDeeds = 0

-----------------------------------------------------------------------------
(* The store changes: a conversation is created and shown, or another one  *)
(* is written to and is of today.                                          *)
Create(c) == /\ Does /\ c \notin ToSet(sideIds) /\ sideIds' = <<c>> \o sideIds
             /\ age' = [age EXCEPT ![c] = "today"] /\ titled' = [titled EXCEPT ![c] = FALSE]
             /\ current' = c /\ Search /\ UNCHANGED <<loaded, asking, menus>> /\ Redraws
Update(c) == /\ Does /\ c \in ToSet(sideIds) /\ age' = [age EXCEPT ![c] = "today"]
             /\ UNCHANGED <<sideIds, titled, current, loaded, asking, menus>> /\ Search /\ Redraws

(* Deleting and clearing ask first; the answer may come when the list is   *)
(* another one.                                                            *)
Ask(a) == /\ Does /\ a \notin asking /\ asking' = asking \union {a}
          /\ UNCHANGED <<loaded, current, menus>> /\ Store /\ Search /\ Redraws
AskDelete(i) == IsRow(Items, i) /\ Ask(Items[i])
AskClear == ~sought /\ Filtered # <<>> /\ Ask(Header)
RemovesOnly(set) == /\ sideIds' = SelectSeq(sideIds, LAMBDA c : c \notin set)   \* a slip
                    /\ UNCHANGED current
Removes(set) == /\ sideIds' = SelectSeq(sideIds, LAMBDA c : c \notin set)
                /\ current' = IF current \in set THEN NoChat ELSE current
Reply(a) == /\ blurring = 0 /\ a \in asking /\ asking' = asking \ {a}
            /\ \/ Removes(IF a = Header THEN Chats ELSE {a})
               \/ UNCHANGED <<sideIds, current>>
            /\ UNCHANGED <<age, titled, loaded, menus, sideDeeds>> /\ Search /\ Redraws

(* The field of the search, and its pause.                                 *)
Type(to) == /\ Does /\ to # soughtNext /\ soughtNext' = to /\ soughtSoon' = TRUE
            /\ UNCHANGED <<sought, loaded, current, asking, menus>> /\ Store /\ Draws(rows, 0)
Sought == /\ blurring = 0 /\ soughtSoon /\ soughtSoon' = FALSE /\ sought' = soughtNext
          /\ UNCHANGED <<soughtNext, loaded, current, asking, menus, sideDeeds>> /\ Store /\ Redraws

(* The end of the list is reached: more is loaded when fewer items than    *)
(* conversations are drawn.                                                *)
AlwaysMayLoad == TRUE                                                  \* a slip
MayLoad == Len(Items) < Len(Filtered)
LoadMore == /\ Does /\ MayLoad /\ loaded' = Least(loaded + More, Len(Filtered))
            /\ UNCHANGED <<current, asking, menus>> /\ Store /\ Search /\ Redraws

-----------------------------------------------------------------------------
(* A conversation is chosen: with the mouse, with Enter or a blank on its  *)
(* row, or with the arrows, which the list hears from its editors too and  *)
(* which walk the conversations in the order of the store.                 *)
Chooses(c, to) == /\ Does /\ current' = c /\ UNCHANGED <<loaded, asking, menus>>
                  /\ Store /\ Search /\ Draws(rows, to)
Click(i) == IsRow(Items, i) /\ Chooses(Items[i], i)
Press(i) == focused = i /\ IsRow(Items, i) /\ ~Editing(i) /\ Chooses(Items[i], i)
Place(c) == IF \E i \in DOMAIN Filtered : Filtered[i] = c
              THEN CHOOSE i \in DOMAIN Filtered : Filtered[i] = c ELSE 0
Walk(delta) == LET to == IF delta = 1 THEN Least(Place(current) + 1, Len(Filtered))
                         ELSE IF Place(current) <= 1 THEN 1 ELSE Place(current) - 1
               IN focused # 0 /\ Filtered # <<>> /\ Chooses(Filtered[to], focused)
Jump == focused # 0 /\ \E i \in {1, Len(Filtered)} \cap DOMAIN Filtered : Chooses(Filtered[i], focused)
LeaveList == /\ Does /\ focused # 0 /\ UNCHANGED <<loaded, current, asking, menus>>
             /\ Store /\ Search /\ Draws(rows, 0)

(* The editor of a title is opened by a button of the row, or by its menu, *)
(* which answers with the conversation it was opened on.                   *)
Opens(i, c) == /\ UNCHANGED <<loaded, current, asking>> /\ Store /\ Search
               /\ Draws([rows EXCEPT ![i].open = c, ![i].draft = c], i)
Edit(i) == Does /\ IsRow(Items, i) /\ UNCHANGED menus /\ Opens(i, Items[i])
Menu(i) == /\ Does /\ IsRow(Items, i) /\ menus = {} /\ menus' = {<<i, Items[i]>>}
           /\ UNCHANGED <<loaded, current, asking>> /\ Store /\ Search /\ Redraws
MenuRename(m) == /\ blurring = 0 /\ m \in menus /\ menus' = {} /\ UNCHANGED sideDeeds
                 /\ IF IsRow(Items, m[1]) THEN Opens(m[1], m[2])
                    ELSE UNCHANGED <<loaded, current, asking>> /\ Store /\ Search /\ Redraws

(* handleRenameConversation, on Enter and on leaving the editor: an empty  *)
(* title changes nothing, any other makes the conversation one of today.   *)
Renames(i) == /\ \/ Store
                 \/ /\ age' = [age EXCEPT ![Items[i]] = "today"] /\ UNCHANGED sideIds
                    /\ \E matches \in BOOLEAN : titled' = [titled EXCEPT ![Items[i]] = matches]
              /\ UNCHANGED <<loaded, current, asking, menus>> /\ Search
              /\ Draws([rows EXCEPT ![i].open = NoChat], focused)
Submit(i) == Does /\ focused = i /\ Editing(i) /\ Renames(i)
Blur == blurring # 0 /\ Renames(blurring) /\ UNCHANGED sideDeeds

Next == \/ \E c \in Chats : Create(c) \/ Update(c)
        \/ \E a \in asking : Reply(a)
        \/ \E to \in BOOLEAN : Type(to)
        \/ \E i \in DOMAIN Items : AskDelete(i) \/ Click(i) \/ Press(i) \/ Edit(i) \/ Menu(i) \/ Submit(i)
        \/ \E delta \in {1, 2} : Walk(delta)
        \/ \E m \in menus : MenuRename(m)
        \/ AskClear \/ Sought \/ LoadMore \/ Jump \/ LeaveList \/ Blur

Spec == Init /\ [][Next]_sidebarVars

-----------------------------------------------------------------------------
(* Every variable has the shape its comment gives it, and the conversation *)
(* shown is one of the list.                                               *)
TypeOK == /\ sideIds \in Seq(Chats) /\ IsInjective(sideIds) /\ Items \in Seq(Chats \union {Header})
          /\ age \in [Chats -> {"today", "older"}] /\ titled \in [Chats -> BOOLEAN]
          /\ {sought, soughtNext, soughtSoon} \subseteq BOOLEAN
          /\ loaded \in Nat \ {0} /\ current \in ToSet(sideIds) \union {NoChat}
          /\ focused \in RowsMax \union {0} /\ blurring \in RowsMax \union {0}
          /\ \A i \in RowsMax : /\ rows[i].here = IsRow(Items, i)
                                 /\ rows[i].was = (IsRow(Items, i) /\ Items[i] = current)
          /\ asking \subseteq Chats \union {Header} /\ sideDeeds \in 0 .. MaxDeeds

(***************************************************************************)
(* The title in an editor began as the title of the conversation its row   *)
(* displays and will rename, however the list has shifted since the editor *)
(* was opened.                                                             *)
(***************************************************************************)
EditorIsOfItsRow == \A i \in RowsMax : Editing(i) => rows[i].draft = Items[i]

(* Loading more never shows less.                                          *)
LoadingShowsMore == [][LoadMore => loaded' > loaded]_sidebarVars

=============================================================================
