----------------------------- MODULE MessageSearch -----------------------------
(***************************************************************************)
(* The search of messages: a dialog whose field searches after a pause,    *)
(* whose answers may come in any order, and whose list is walked with the  *)
(* arrow keys.  What was searched when a message was opened is kept in the *)
(* list of recent searches.  A query stands for its trimmed text.          *)
(***************************************************************************)
EXTENDS Naturals, Integers, Sequences, SequencesExt

CONSTANTS Queries, Blank,      \* what may be typed, and nothing or spaces
          Hits,                \* the answers the core may give: sequences of conversations
          MaxRecent,           \* MAX_RECENT_SEARCHES
          MaxTyped, MaxOpens   \* bounds of the model

\* Assumed of the constants wherever this module is instantiated.
SearchAssumption ==
    /\ Blank \notin Queries /\ MaxRecent \in Nat \ {0}
    /\ MaxTyped \in Nat /\ MaxOpens \in Nat

VARIABLES searchOpen, opens,          \* the dialog is mounted, and how often it was
          query, found, foundFor,     \* query, results, and what they are the answer to
          searching, failed,          \* isSearching, error
          requestId, pausing, asked,  \* requestIdRef, the debounce timer, the calls
          activeHit, recent, shownChat, typed

searchVars == <<searchOpen, opens, query, found, foundFor, searching, failed, requestId,
                pausing, asked, activeHit, recent, shownChat, typed>>

NoTimer == {}
Fresh == /\ query' = Blank /\ found' = <<>> /\ foundFor' = Blank /\ searching' = FALSE
         /\ failed' = FALSE /\ requestId' = 0 /\ pausing' = NoTimer /\ asked' = {}
         /\ activeHit' = 0

Init == /\ searchOpen = FALSE /\ opens = 0 /\ query = Blank /\ found = <<>> /\ foundFor = Blank
        /\ searching = FALSE /\ failed = FALSE /\ requestId = 0 /\ pausing = NoTimer
        /\ asked = {} /\ activeHit = 0 /\ recent = <<>> /\ shownChat = <<>> /\ typed = 0

-----------------------------------------------------------------------------
(* The dialog comes and goes with what the hook keeps; what is still       *)
(* pausing or asked then has nobody left to tell.                          *)
OpenSearch == /\ ~searchOpen /\ opens < MaxOpens /\ opens' = opens + 1
              /\ searchOpen' = TRUE /\ Fresh /\ UNCHANGED <<recent, shownChat, typed>>
Leave == searchOpen' = FALSE /\ Fresh /\ UNCHANGED <<opens, typed>>
Dismiss == searchOpen /\ Leave /\ UNCHANGED <<recent, shownChat>>

(* The results are replaced, and the effect on them starts at the top.     *)
KeepsItsPlace(hits) == found' = hits /\ UNCHANGED activeHit          \* a slip
Shows(hits) == found' = hits /\ activeHit' = 0

(***************************************************************************)
(* setQuery.  A timer replaces the one before; nothing typed leaves the    *)
(* last timer cleared, and makes whatever is on its way an old request.    *)
(***************************************************************************)
EmptiesQuietly == /\ query' = Blank /\ pausing' = NoTimer /\ UNCHANGED requestId   \* a slip
                  /\ Shows(<<>>) /\ foundFor' = Blank /\ searching' = FALSE
Empties == /\ query' = Blank /\ pausing' = NoTimer /\ requestId' = requestId + 1
           /\ Shows(<<>>) /\ foundFor' = Blank /\ searching' = FALSE
Waits(q) == /\ query' = q /\ requestId' = requestId + 1 /\ searching' = TRUE
            /\ pausing' = {[id |-> requestId + 1, of |-> q]}
            /\ UNCHANGED <<found, foundFor, activeHit>>
SetQuery(q) == /\ searchOpen /\ typed < MaxTyped /\ typed' = typed + 1 /\ failed' = FALSE
               /\ IF q = Blank THEN Empties ELSE Waits(q)
               /\ UNCHANGED <<searchOpen, opens, asked, recent, shownChat>>
PickRecent(q) == query = Blank /\ q \in ToSet(recent) /\ SetQuery(q)

Pause(t) == /\ t \in pausing /\ pausing' = NoTimer /\ asked' = asked \union {t}
            /\ UNCHANGED <<searchOpen, opens, query, found, foundFor, searching, failed,
                           requestId, activeHit, recent, shownChat, typed>>

(* The answers; only that of the latest request is looked at.              *)
AlwaysTheLatest(t) == TRUE                                            \* a slip
IsLatest(t) == t.id = requestId
StillSearching == UNCHANGED searching                                 \* a slip
StopsSearching == searching' = FALSE
Commits(t, hits) == IF IsLatest(t)
                      THEN /\ Shows(hits) /\ foundFor' = t.of /\ StopsSearching
                      ELSE UNCHANGED <<found, foundFor, searching, activeHit>>
Answer(t) == /\ t \in asked /\ asked' = asked \ {t}
             /\ \/ \E hits \in Hits : Commits(t, hits) /\ UNCHANGED failed
                \/ Commits(t, <<>>) /\ failed' = (IsLatest(t) \/ failed)
             /\ UNCHANGED <<searchOpen, opens, query, requestId, pausing, recent, shownChat, typed>>

-----------------------------------------------------------------------------
(* The list: walked with the keys and the mouse.  An empty list has its    *)
(* active row moved to -1 by the arrow down.                               *)
AtMost(n, m) == IF n < m THEN n ELSE m
Moves(i) == /\ searchOpen /\ activeHit' = i
            /\ UNCHANGED <<searchOpen, opens, query, found, foundFor, searching, failed,
                           requestId, pausing, asked, recent, shownChat, typed>>
Down == Moves(AtMost(activeHit + 1, Len(found) - 1))
Up == Moves(IF activeHit - 1 > 0 THEN activeHit - 1 ELSE 0)
Listed == IF query = Blank THEN {} ELSE DOMAIN found
Hover(i) == i \in Listed /\ Moves(i - 1)

(* addRecentSearch, and what choosing a message does with it.              *)
RemembersTwice(q) == IF q = Blank THEN recent ELSE <<q>> \o recent     \* a slip
Remembers(q) == IF q = Blank THEN recent
                ELSE LET rest == <<q>> \o SelectSeq(recent, LAMBDA r : r # q)
                     IN SubSeq(rest, 1, AtMost(Len(rest), MaxRecent))
Select(i) == /\ searchOpen /\ recent' = Remembers(query) /\ shownChat' = <<found[i]>> /\ Leave
Enter == /\ found # <<>> /\ activeHit + 1 \in DOMAIN found /\ Select(activeHit + 1)
Click(i) == i \in Listed /\ Select(i)
ClearRecent == /\ searchOpen /\ query = Blank /\ recent # <<>> /\ recent' = <<>>
               /\ UNCHANGED <<searchOpen, opens, query, found, foundFor, searching, failed,
                              requestId, pausing, asked, activeHit, shownChat, typed>>

Next == \/ OpenSearch \/ Dismiss \/ Down \/ Up \/ Enter \/ ClearRecent
        \/ \E q \in Queries \union {Blank} : SetQuery(q)
        \/ \E q \in Queries : PickRecent(q)
        \/ \E t \in pausing : Pause(t)
        \/ \E t \in asked : Answer(t)
        \/ \E i \in DOMAIN found : Hover(i) \/ Click(i)

Spec == Init /\ [][Next]_searchVars

(* The timer goes off, and the core answers every search.                  *)
Pauses == \E t \in pausing : Pause(t)
Answers == \E t \in asked : Answer(t)
FairSpec == Spec /\ WF_searchVars(Pauses) /\ WF_searchVars(Answers)

-----------------------------------------------------------------------------
Requests == [id : 1 .. MaxTyped, of : Queries]

(* Every variable has the shape its comment gives it; no search is         *)
(* remembered twice or beyond the limit.                                   *)
TypeOK == /\ searchOpen \in BOOLEAN /\ searching \in BOOLEAN /\ failed \in BOOLEAN
          /\ query \in Queries \union {Blank} /\ foundFor \in Queries \union {Blank}
          /\ found \in Hits \union {<<>>} /\ activeHit \in Int
          /\ requestId \in 0 .. MaxTyped /\ pausing \subseteq Requests /\ asked \subseteq Requests
          /\ recent \in Seq(Queries) /\ IsInjective(recent) /\ Len(recent) <= MaxRecent
          /\ opens \in 0 .. MaxOpens /\ typed \in 0 .. MaxTyped

(***************************************************************************)
(* Once nothing is being searched the list is the answer to what the field *)
(* says, or its failure, however the answers of older queries were late.   *)
(***************************************************************************)
FoundIsOfTheQuery == searchOpen /\ ~searching => foundFor = query

(* Enter never opens what the list does not hold: whenever there are       *)
(* results the active row is one of them.                                  *)
RowIsAResult == found # <<>> => activeHit + 1 \in DOMAIN found

(* Whatever is searched comes to an end.                                   *)
SearchingEnds == searching ~> ~searching
=============================================================================
