------------------------------ MODULE StepsProofs ------------------------------
(* Proofs about the parts that Steps has side by side: the address of the     *)
(* server, the search, the diagrams, the files of a project, the lists of the *)
(* models, the door to the backend, the keys, the selector of models, the     *)
(* gates of a push and the pulls; the titles, the views, the migrations, the  *)
(* sidebar and the dialogs are in ViewsProofs. Every theorem is about the     *)
(* Spec of one part alone, for all values of its constants. The parts that    *)
(* have a module of proofs of their own come last, and then what the runs     *)
(* check of several at once.                                                  *)

(* In the first five the hazard is an answer that is late: the invariant says *)
(* of everything on its way whose number, generation or subscription still    *)
(* counts that it is of what is asked for NOW, and every change of the        *)
(* question is shown to raise the number, or to unsubscribe.  What is asked   *)
(* once, and what the door tells and counts, need the set of those in flight  *)
(* next to what is remembered of them; the marked rows are bounded by the     *)
(* list they are of; the gates need that the tree of a clean commit has       *)
(* passed all of them; and a pull alone, that it is the only one of its       *)
(* model.                                                                     *)
EXTENDS ViewsProofs

HP == INSTANCE StorePersistenceProofs WITH
        MaxChanges <- MaxSaves, MaxFaults <- MaxLapses, disk <- file,
        faults <- lapses

-----------------------------------------------------------------------------
(* The address of the server. *)

\* Every check that somebody listens to is of the address that is set.
HeardOfAddress == \A c \in checks : c.url = address
AddressInv == A!ShownIsOfAddress /\ HeardOfAddress

\* A new address unsubscribes from the checks of the old one.
LEMMA BecomesKeeps ==
  ASSUME AddressInv, NEW u, A!Becomes(u)
  PROVE  AddressInv'
  <1>1. CASE u = address
    BY <1>1 DEF A!Becomes, AddressInv, HeardOfAddress, A!ShownIsOfAddress
  <1>2. CASE u # address
    <2>1. /\ address' = u /\ shownFor' = u
          /\ checks' = IF u \in Valid THEN {[n |-> checkCount, url |-> u]} ELSE {}
      BY <1>2 DEF A!Becomes, A!Unsubscribed
    <2>2. HeardOfAddress'
      BY <2>1 DEF HeardOfAddress
    <2> QED
      BY <2>1, <2>2 DEF AddressInv, A!ShownIsOfAddress
  <1> QED
    BY <1>1, <1>2

\* No step shows a connection of another address.
LEMMA AddressStep ==
  ASSUME AddressInv, [A!Next]_A!addressVars
  PROVE  AddressInv'
  <1>1. ASSUME NEW u \in Urls, A!Type(u) PROVE AddressInv'
    BY <1>1, BecomesKeeps DEF A!Type
  <1>2. CASE A!Blur
    BY <1>2, BecomesKeeps DEF A!Blur, A!Leaves
  <1>3. ASSUME NEW u \in Urls, A!Verified(u) PROVE AddressInv'
    <2>1. CASE \E v : A!Becomes(v)
      BY <2>1, BecomesKeeps
    <2>2. CASE UNCHANGED <<address, checks, conn, shownFor>>
      BY <2>2 DEF AddressInv, HeardOfAddress, A!ShownIsOfAddress
    <2> QED
      BY <1>3, <2>1, <2>2 DEF A!Verified
  <1>4. ASSUME NEW word, A!Check(word), word \in {"connecting", conn} PROVE AddressInv'
    <2>1. address' = address
      BY <1>4 DEF A!Check, A!CheckKeeps
    <2>2. CASE address \in Valid
      <3>1. /\ checks' = checks \union {[n |-> checkCount', url |-> address]}
            /\ conn' = word /\ shownFor' = shownFor
        BY <1>4, <2>2 DEF A!Check
      <3> QED
        BY <1>4, <2>1, <3>1 DEF AddressInv, HeardOfAddress, A!ShownIsOfAddress
    <2>3. CASE address \notin Valid
      BY <1>4, <2>1, <2>3 DEF A!Check, AddressInv, HeardOfAddress, A!ShownIsOfAddress
    <2> QED
      BY <2>2, <2>3
  <1>5. ASSUME NEW c \in checks, A!CheckAnswered(c) PROVE AddressInv'
    BY <1>5 DEF A!CheckAnswered, A!CheckKeeps, AddressInv, HeardOfAddress, A!ShownIsOfAddress
  <1>6. CASE UNCHANGED <<address, checks, conn, shownFor>>
    BY <1>6 DEF AddressInv, HeardOfAddress, A!ShownIsOfAddress
  <1>7. CASE \/ \E u \in Urls : A!ListAnswered(u)
             \/ \E c \in lost : A!LostAnswered(c)
             \/ \E u \in Valid : A!Turn(u)
             \/ UNCHANGED A!addressVars
    BY <1>6, <1>7 DEF A!ListAnswered, A!LostAnswered, A!Turn, A!addressVars
  <1> QED
    BY <1>1, <1>2, <1>3, <1>4, <1>5, <1>7 DEF A!Next, A!Reconnect, A!Interval, A!Answers

(* The connection that the window shows, and asked its lists for, is that of  *)
(* the address that is set: a check of an older address is not listened to    *)
(* any more (useOllamaConnection.ts).                                         *)
THEOREM ConnectionIsOfAddress ==
  A!Spec => []A!ShownIsOfAddress
  <1>1. A!Init => AddressInv
    BY DEF A!Init, AddressInv, HeardOfAddress, A!ShownIsOfAddress
  <1>2. AddressInv => A!ShownIsOfAddress
    BY DEF AddressInv
  <1> QED
    BY <1>1, <1>2, AddressStep, PTL DEF A!Spec

-----------------------------------------------------------------------------
(* The search. *)

\* The request that counts is for what the field says, and later ones will
\* have higher numbers.
Numbered(t) == t.id \in Nat /\ t.id <= requestId
SearchInv ==
  /\ requestId \in Nat
  /\ ~searching => foundFor = query
  /\ \A t \in searched \cup pausing : Numbered(t) /\ (t.id = requestId => t.of = query)

\* What is searched for under a new number is of the field as it stands.
LEMMA FreshFits ==
  ASSUME Q!Fresh
  PROVE  SearchInv'
  <1>1. requestId' = 0 /\ searched' = {} /\ pausing' = {} /\ foundFor' = Blank /\ query' = Blank
    BY DEF Q!Fresh, Q!NoTimer
  <1> QED
    BY <1>1 DEF SearchInv

\* Typing raises the number, so what is on its way does not count.
LEMMA SetQueryKeeps ==
  ASSUME SearchInv, NEW q, Q!SetQuery(q)
  PROVE  SearchInv'
  <1>1. searched' = searched /\ requestId' = requestId + 1 /\ requestId \in Nat /\ query' = q
    BY DEF Q!SetQuery, Q!Empties, Q!Waits, SearchInv
  <1>2. \A t \in searched : t.id \in Nat /\ t.id <= requestId' /\ t.id # requestId'
    BY <1>1 DEF SearchInv, Numbered
  <1>3. \A t \in pausing' : t.id = requestId' /\ t.of = query'
    BY <1>1 DEF Q!SetQuery, Q!Empties, Q!Waits, Q!NoTimer
  <1>4. ~searching' => foundFor' = query'
    BY DEF Q!SetQuery, Q!Empties, Q!Waits
  <1> QED
    BY <1>1, <1>2, <1>3, <1>4 DEF SearchInv, Numbered

\* Every step of the search keeps what counts to the query.
LEMMA SearchStep ==
  ASSUME SearchInv, [Q!Next]_Q!searchVars
  PROVE  SearchInv'
  <1> DEFINE kept == <<query, foundFor, searching, requestId, pausing, searched>>
  <1>1. CASE UNCHANGED kept
    BY <1>1 DEF SearchInv, Numbered
  <1>2. CASE Q!OpenSearch \/ Q!Dismiss
    BY <1>2, FreshFits DEF Q!OpenSearch, Q!Dismiss, Q!Leave
  <1>3. ASSUME NEW i, Q!Select(i) PROVE SearchInv'
    BY <1>3, FreshFits DEF Q!Select, Q!Leave
  <1>4. ASSUME NEW q, Q!SetQuery(q) PROVE SearchInv'
    BY <1>4, SetQueryKeeps
  <1>5. ASSUME NEW t \in pausing, Q!Pause(t) PROVE SearchInv'
    BY <1>5 DEF Q!Pause, Q!NoTimer, SearchInv, Numbered
  <1>6. ASSUME NEW t \in searched, Q!Answer(t) PROVE SearchInv'
    <2>1. UNCHANGED <<query, requestId, pausing>> /\ searched' \subseteq searched
      BY <1>6 DEF Q!Answer
    <2>2. PICK hits : Q!Commits(t, hits)
      BY <1>6 DEF Q!Answer
    <2>3. ~searching' => foundFor' = query
      BY <2>2 DEF Q!Commits, Q!IsLatest, Q!StopsSearching, SearchInv
    <2> QED
      BY <2>1, <2>3 DEF SearchInv, Numbered
  <1>7. ASSUME NEW i, Q!Moves(i) PROVE SearchInv'
    BY <1>1, <1>7 DEF Q!Moves
  <1>8. CASE Q!ClearRecent \/ UNCHANGED Q!searchVars
    BY <1>1, <1>8 DEF Q!ClearRecent, Q!searchVars
  <1> QED
    BY <1>2, <1>3, <1>4, <1>5, <1>6, <1>7, <1>8
       DEF Q!Next, Q!Down, Q!Up, Q!Enter, Q!PickRecent, Q!Hover, Q!Click

(* A search that is not running shows the hits of what stands in the field,   *)
(* whatever answers are late: only the request with the newest number is      *)
(* taken (useMessageSearch.ts).                                               *)
THEOREM HitsAreOfTheQuery ==
  Q!Spec => []Q!FoundIsOfTheQuery
  <1>1. Q!Init => SearchInv
    BY DEF Q!Init, Q!NoTimer, SearchInv
  <1>2. SearchInv => Q!FoundIsOfTheQuery
    BY DEF SearchInv, Q!FoundIsOfTheQuery
  <1> QED
    BY <1>1, <1>2, SearchStep, PTL DEF Q!Spec

-----------------------------------------------------------------------------
(* The diagrams. *)

Renders == [at : Diagrams, key : D!Keys, phase : {"deferred", "drawing"},
            drawn : D!Keys, generation : Nat]
DiagramTypes ==
  /\ fence \in [Diagrams -> Contents] /\ look \in Themes
  /\ onPage \in [Diagrams -> D!Keys] /\ rendering \in [Diagrams -> BOOLEAN]
  /\ generation \in [Diagrams -> Nat]
  /\ drawings \subseteq [key : D!Keys, drawn : D!Keys]
  /\ renders \subseteq Renders
  /\ caughtUp \in BOOLEAN

\* Mermaid has the theme of the settings, no render is of a later generation
\* than its renderer; and, unless a render was left to count, the ones that
\* count are of what the fence holds now, the cache has what its keys say, and
\* a renderer at rest shows its fence.
CountsForItsFence(r) ==
  /\ r.generation <= generation[r.at]
  /\ ~caughtUp /\ D!Current(r) =>
       /\ r.key = D!Key(fence[r.at], look)
       /\ r.phase = "drawing" => r.drawn = r.key
CacheInv == ~caughtUp => \A e \in drawings : e.drawn = e.key
DiagramInv ==
  /\ DiagramTypes
  /\ configured = look
  /\ \A r \in renders : CountsForItsFence(r)
  /\ CacheInv
  /\ D!ShowsItsFenceUnlessCaughtUp

\* What the effects of one renderer come to, read off its outcome.
OutcomeFits(d, content, theme, out) ==
  LET key == D!Key(content, theme)
  IN  /\ out.page \in D!Keys /\ out.busy \in BOOLEAN /\ out.next \in {0, 1}
      /\ out.render \subseteq Renders
      /\ \A r \in out.render : /\ r.at = d /\ r.key = key /\ r.phase = "deferred"
                               /\ r.generation = generation[d] + 1
      /\ out.next = 0 => out.render = {}
      /\ CacheInv /\ ~caughtUp /\ content # Empty /\ ~out.busy => out.page = key

\* The effects of one renderer, case by case: it is blank, it finds the drawing
\* in the cache, it cannot draw the fence, or it starts a render that counts.
LEMMA OutcomeIsFit ==
  ASSUME D!DiagramAssumption, DiagramTypes, CacheInv,
         NEW d \in Diagrams, NEW content \in Contents, NEW theme \in Themes
  PROVE  OutcomeFits(d, content, theme, D!Outcome(d, content, theme))
  <1> DEFINE key == D!Key(content, theme)
             out == D!Outcome(d, content, theme)
  <1>1. key \in D!Keys /\ D!Nothing \in D!Keys
    BY DEF D!Key, D!Keys, D!Nothing, D!DiagramAssumption
  <1>2. onPage[d] \in D!Keys /\ rendering[d] \in BOOLEAN /\ generation[d] \in Nat
    BY DEF DiagramTypes
  <1>3. CASE content = Empty
    <2>1. out = [page |-> onPage[d], busy |-> rendering[d], next |-> 0, render |-> {}]
      BY <1>3 DEF D!Outcome
    <2>2. /\ out.page = onPage[d] /\ out.busy = rendering[d] /\ out.next = 0 /\ out.render = {}
      BY <2>1
    <2> QED
      BY <1>2, <1>3, <2>2 DEF OutcomeFits
  <1>4. CASE content # Empty /\ D!Cached(key) # {}
    <2>1. PICK e \in D!Cached(key) : e = CHOOSE x \in D!Cached(key) : TRUE
      BY <1>4
    <2>2. out = [page |-> e.drawn, busy |-> FALSE, next |-> 0, render |-> {}]
      BY <1>4, <2>1 DEF D!Outcome
    <2>3. /\ out.page = e.drawn /\ out.busy = FALSE /\ out.next = 0 /\ out.render = {}
      BY <2>2
    <2>4. e \in drawings /\ e.key = key
      BY DEF D!Cached
    <2> QED
      BY <2>3, <2>4 DEF OutcomeFits, CacheInv, DiagramTypes
  <1>5. CASE content # Empty /\ D!Cached(key) = {} /\ content \in Unsupported
    <2>1. out = [page |-> key, busy |-> FALSE, next |-> 1, render |-> {}]
      BY <1>5 DEF D!Outcome
    <2>2. /\ out.page = key /\ out.busy = FALSE /\ out.next = 1 /\ out.render = {}
      BY <2>1
    <2> QED
      BY <1>1, <2>2 DEF OutcomeFits
  <1>6. CASE content # Empty /\ D!Cached(key) = {} /\ content \notin Unsupported
    <2> DEFINE r == [at |-> d, key |-> key, phase |-> "deferred",
                     drawn |-> D!Nothing, generation |-> generation[d] + 1]
    <2>1. out = [page |-> D!Nothing, busy |-> TRUE, next |-> 1, render |-> {r}]
      BY <1>6 DEF D!Outcome
    <2>2. /\ out.page = D!Nothing /\ out.busy = TRUE /\ out.next = 1 /\ out.render = {r}
      BY <2>1
    <2>3. r \in Renders
      BY <1>1, <1>2 DEF Renders
    <2>4. r.at = d /\ r.key = key /\ r.phase = "deferred" /\ r.generation = generation[d] + 1
      OBVIOUS
    <2> HIDE DEF r, out
    <2>5. out.page \in D!Keys /\ out.busy \in BOOLEAN /\ out.busy /\ out.next = 1
      BY <1>1, <2>2
    <2>6. out.render \subseteq Renders
      BY <2>2, <2>3
    <2>7. \A x \in out.render : /\ x.at = d /\ x.key = key /\ x.phase = "deferred"
                                /\ x.generation = generation[d] + 1
      BY <2>2, <2>4
    <2>8. OutcomeFits(d, content, theme, out)
      BY <2>5, <2>6, <2>7 DEF OutcomeFits
    <2> QED
      BY <2>8 DEF out
  <1> QED
    BY <1>3, <1>4, <1>5, <1>6

\* The effects of the renderers that have another key: given another fence, or
\* all of them another theme.
LEMMA EffectsKeep ==
  ASSUME D!DiagramAssumption, DiagramInv,
         NEW touched \in SUBSET Diagrams, NEW theme \in Themes,
         fence' \in [Diagrams -> Contents],
         D!Effects(touched, fence', theme), look' = theme, drawings' = drawings,
         \A d \in Diagrams \ touched : fence'[d] = fence[d] /\ theme = look
  PROVE  DiagramInv'
  <1> DEFINE out == [d \in touched |-> D!Outcome(d, fence'[d], theme)]
  <1>1. \A d \in touched : OutcomeFits(d, fence'[d], theme, out[d])
    BY OutcomeIsFit DEF DiagramInv
  <1>2. /\ onPage' = [d \in Diagrams |-> IF d \in touched THEN out[d].page ELSE onPage[d]]
        /\ rendering' = [d \in Diagrams |-> IF d \in touched THEN out[d].busy ELSE rendering[d]]
        /\ generation' = [d \in Diagrams |->
                            generation[d] + (IF d \in touched THEN out[d].next ELSE 0)]
        /\ renders' = renders \cup UNION {out[d].render : d \in touched}
        /\ caughtUp' = (caughtUp \/ \E d \in touched :
                              out[d].next = 0 /\ D!Pending(d) # {})
        /\ configured' = theme
    BY DEF D!Effects, D!InitOnce
  <1> HIDE DEF out
  <1>3. DiagramTypes /\ CacheInv /\ \A r \in renders : CountsForItsFence(r)
    BY DEF DiagramInv
  <1>4. \A r \in renders' : r \in renders \/ \E d \in touched : r \in out[d].render
    BY <1>2
  <1>5. /\ \A d \in touched : generation'[d] = generation[d] + out[d].next
        /\ \A d \in Diagrams \ touched : generation'[d] = generation[d]
    BY <1>2, <1>3 DEF DiagramTypes
  <1>6. caughtUp' \in BOOLEAN /\ (~caughtUp' => ~caughtUp)
    BY <1>2, <1>3 DEF DiagramTypes
  <1>7. DiagramTypes'
    <2>1. generation' \in [Diagrams -> Nat]
      BY <1>1, <1>2, <1>3 DEF DiagramTypes, OutcomeFits
    <2>2. onPage' \in [Diagrams -> D!Keys] /\ rendering' \in [Diagrams -> BOOLEAN]
      BY <1>1, <1>2, <1>3 DEF DiagramTypes, OutcomeFits
    <2>3. renders' \subseteq Renders
      BY <1>1, <1>3, <1>4 DEF DiagramTypes, OutcomeFits
    <2> QED
      BY <1>3, <1>6, <2>1, <2>2, <2>3 DEF DiagramTypes
  <1>8. ASSUME NEW r \in renders'
        PROVE  CountsForItsFence(r)'
    <2>1. CASE \E d \in touched : r \in out[d].render
      <3>1. PICK d \in touched : r \in out[d].render
        BY <2>1
      <3>2. /\ r.at = d /\ r.key = D!Key(fence'[d], theme) /\ r.phase = "deferred"
            /\ r.generation = generation[d] + 1 /\ out[d].next = 1
        BY <1>1, <3>1 DEF OutcomeFits
      <3>3. r.generation <= generation'[r.at]
        BY <1>3, <1>5, <3>2 DEF DiagramTypes
      <3> QED
        BY <3>2, <3>3 DEF CountsForItsFence
    <2>2. CASE r \in renders
      <3>1. /\ r.at \in Diagrams /\ r.generation \in Nat
            /\ generation[r.at] \in Nat /\ r.generation <= generation[r.at]
        BY <1>3, <2>2 DEF DiagramTypes, Renders, CountsForItsFence
      <3>2. CASE r.at \notin touched
        BY <1>3, <1>5, <1>6, <2>2, <3>1, <3>2 DEF CountsForItsFence, D!Current
      <3>3. CASE r.at \in touched
        <4>1. out[r.at].next \in {0, 1} /\ generation'[r.at] = generation[r.at] + out[r.at].next
          BY <1>1, <1>5, <3>3 DEF OutcomeFits
        <4>2. r.generation <= generation'[r.at]
          BY <3>1, <4>1
        <4>3. ~(~caughtUp' /\ r.generation = generation'[r.at])
          <5>1. SUFFICES ASSUME ~caughtUp', r.generation = generation'[r.at] PROVE FALSE
            OBVIOUS
          <5>2. out[r.at].next = 0 /\ r.generation = generation[r.at]
            BY <3>1, <4>1, <5>1
          <5>3. r \in D!Pending(r.at)
            BY <2>2, <5>2 DEF D!Pending
          <5> QED
            BY <1>2, <3>3, <5>1, <5>2, <5>3
        <4> QED
          BY <4>2, <4>3 DEF CountsForItsFence, D!Current
      <3> QED
        BY <3>2, <3>3
    <2> QED
      BY <1>4, <2>1, <2>2
  <1>9. CacheInv'
    BY <1>3, <1>6 DEF CacheInv
  <1>10. D!ShowsItsFenceUnlessCaughtUp'
    <2>1. SUFFICES ASSUME ~caughtUp', NEW d \in Diagrams, fence'[d] # Empty, ~rendering'[d]
                   PROVE  onPage'[d] = D!Key(fence'[d], look')
      BY DEF D!ShowsItsFenceUnlessCaughtUp, D!ShowsItsFence
    <2>2. CASE d \in touched
      BY <1>1, <1>2, <1>3, <1>6, <2>1, <2>2 DEF OutcomeFits
    <2>3. CASE d \notin touched
      <3>1. /\ onPage'[d] = onPage[d] /\ rendering'[d] = rendering[d]
            /\ fence'[d] = fence[d] /\ theme = look
        BY <1>2, <2>3
      <3> QED
        BY <1>6, <2>1, <3>1 DEF DiagramInv, D!ShowsItsFenceUnlessCaughtUp, D!ShowsItsFence
    <2> QED
      BY <2>2, <2>3
  <1> QED
    BY <1>2, <1>7, <1>8, <1>9, <1>10 DEF DiagramInv

\* A deferred render takes what its renderer has now, and only if it counts.
LEMMA StartsKeeps ==
  ASSUME DiagramInv, NEW r, D!Starts(r)
  PROVE  DiagramInv'
  <1> DEFINE started == [r EXCEPT !.phase = "drawing", !.drawn = D!Key(r.key.of, configured)]
  <1>1. /\ r \in renders /\ renders' = (renders \ {r}) \cup {started}
        /\ UNCHANGED <<fence, look, configured, drawings, onPage, rendering,
                       generation, changes, caughtUp>>
    BY DEF D!Starts
  <1>2. /\ DiagramTypes /\ configured = look /\ CacheInv /\ CountsForItsFence(r)
        /\ D!ShowsItsFenceUnlessCaughtUp /\ \A x \in renders : CountsForItsFence(x)
    BY <1>1 DEF DiagramInv
  <1>3. r \in Renders
    BY <1>1, <1>2 DEF DiagramTypes
  <1>4. PICK drawn \in D!Keys, phase \in {"deferred", "drawing"} :
          drawn = D!Key(r.key.of, configured) /\ phase = "drawing"
    BY <1>2, <1>3 DEF D!Key, D!Keys, Renders, DiagramTypes
  <1>5. started = [r EXCEPT !.phase = phase, !.drawn = drawn]
    BY <1>4
  <1>6. /\ started \in Renders /\ started.at = r.at /\ started.key = r.key
        /\ started.generation = r.generation /\ started.drawn = drawn
    BY <1>3, <1>5 DEF Renders
  <1> HIDE DEF started
  <1>7. ASSUME ~caughtUp, r.generation = generation[r.at] PROVE drawn = r.key
    BY <1>2, <1>4, <1>7 DEF CountsForItsFence, D!Current, D!Key
  <1>8. CountsForItsFence(started)
    BY <1>2, <1>6, <1>7 DEF CountsForItsFence, D!Current
  <1>9. \A x \in renders' : CountsForItsFence(x)'
    <2>1. \A x \in renders' : CountsForItsFence(x)
      BY <1>1, <1>2, <1>8
    <2> QED
      BY <1>1, <2>1 DEF CountsForItsFence, D!Current
  <1>10. DiagramTypes'
    BY <1>1, <1>2, <1>6 DEF DiagramTypes
  <1>11. configured' = look' /\ CacheInv' /\ D!ShowsItsFenceUnlessCaughtUp'
    BY <1>1, <1>2 DEF CacheInv, D!ShowsItsFenceUnlessCaughtUp, D!ShowsItsFence
  <1> QED
    BY <1>9, <1>10, <1>11 DEF DiagramInv

\* A drawing goes to the cache under the key it was drawn for.
LEMMA ResolvesKeeps ==
  ASSUME DiagramInv, NEW r, D!Resolves(r)
  PROVE  DiagramInv'
  <1>1. /\ r \in renders /\ r.phase = "drawing" /\ renders' = renders \ {r}
        /\ UNCHANGED <<fence, look, configured, generation, changes, caughtUp>>
    BY DEF D!Resolves
  <1>2. /\ DiagramTypes /\ configured = look /\ CacheInv /\ CountsForItsFence(r)
        /\ D!ShowsItsFenceUnlessCaughtUp /\ \A x \in renders : CountsForItsFence(x)
    BY <1>1 DEF DiagramInv
  <1>3. \A x \in renders' : CountsForItsFence(x)'
    BY <1>1, <1>2 DEF CountsForItsFence, D!Current
  <1>4. CASE D!Current(r)
    <2>1. /\ onPage' = [onPage EXCEPT ![r.at] = r.drawn]
          /\ drawings' = (drawings \ D!Cached(r.key)) \cup {[key |-> r.key, drawn |-> r.drawn]}
          /\ rendering' = [rendering EXCEPT ![r.at] = FALSE]
      BY <1>4 DEF D!Resolves, D!StopsRendering
    <2>2. r.at \in Diagrams /\ r.key \in D!Keys /\ r.drawn \in D!Keys
      BY <1>1, <1>2 DEF DiagramTypes, Renders
    <2>3. ASSUME ~caughtUp PROVE r.drawn = r.key /\ r.key = D!Key(fence[r.at], look)
      BY <1>1, <1>2, <1>4, <2>3 DEF CountsForItsFence
    <2>4. DiagramTypes'
      BY <1>1, <1>2, <2>1, <2>2 DEF DiagramTypes
    <2>5. CacheInv'
      BY <1>1, <1>2, <2>1, <2>3 DEF CacheInv
    <2>6. D!ShowsItsFenceUnlessCaughtUp'
      BY <1>1, <1>2, <2>1, <2>2, <2>3
         DEF D!ShowsItsFenceUnlessCaughtUp, D!ShowsItsFence, DiagramTypes
    <2> QED
      BY <1>1, <1>2, <1>3, <2>4, <2>5, <2>6 DEF DiagramInv
  <1>5. CASE ~D!Current(r)
    <2>1. UNCHANGED <<onPage, drawings, rendering>>
      BY <1>5 DEF D!Resolves
    <2>2. DiagramTypes' /\ CacheInv' /\ D!ShowsItsFenceUnlessCaughtUp'
      BY <1>1, <1>2, <2>1 DEF DiagramTypes, CacheInv, D!ShowsItsFenceUnlessCaughtUp, D!ShowsItsFence
    <2> QED
      BY <1>1, <1>2, <1>3, <2>2 DEF DiagramInv
  <1> QED
    BY <1>4, <1>5

\* Every step keeps the renders that count to their fences.
LEMMA DiagramStep ==
  ASSUME D!DiagramAssumption, DiagramInv, [D!Next]_D!diagramVars
  PROVE  DiagramInv'
  <1>1. ASSUME NEW d \in Diagrams, NEW c \in Contents, D!Given(d, c) PROVE DiagramInv'
    <2>1. /\ fence' = [fence EXCEPT ![d] = c] /\ look' = look /\ drawings' = drawings
          /\ D!Effects({d}, fence', look)
      BY <1>1 DEF D!Given
    <2>2. fence \in [Diagrams -> Contents] /\ look \in Themes
      BY DEF DiagramInv, DiagramTypes
    <2>3. fence' \in [Diagrams -> Contents] /\ \A x \in Diagrams \ {d} : fence'[x] = fence[x]
      BY <2>1, <2>2
    <2> QED
      BY <2>1, <2>2, <2>3, EffectsKeep
  <1>2. ASSUME NEW theme \in Themes, D!Restyled(theme) PROVE DiagramInv'
    <2>1. /\ fence' = fence /\ look' = theme /\ drawings' = drawings
          /\ D!Effects(Diagrams, fence', theme)
      BY <1>2 DEF D!Restyled
    <2>2. fence \in [Diagrams -> Contents]
      BY DEF DiagramInv, DiagramTypes
    <2> QED
      BY <2>1, <2>2, EffectsKeep
  <1>3. CASE UNCHANGED D!diagramVars
    BY <1>3 DEF D!diagramVars, DiagramInv, DiagramTypes, CountsForItsFence, D!Current, CacheInv,
                D!ShowsItsFenceUnlessCaughtUp, D!ShowsItsFence
  <1> QED
    BY <1>1, <1>2, <1>3, StartsKeeps, ResolvesKeeps DEF D!Next

\* Before the first effects no render is on its way.
LEMMA DiagramInit ==
  ASSUME D!DiagramAssumption, D!Init
  PROVE  DiagramInv
  <1>1. D!Nothing \in D!Keys
    BY DEF D!Nothing, D!Keys, D!DiagramAssumption
  <1>2. DiagramTypes
    BY <1>1 DEF D!Init, DiagramTypes, D!DiagramAssumption
  <1>3. D!ShowsItsFenceUnlessCaughtUp
    BY DEF D!Init, D!ShowsItsFenceUnlessCaughtUp, D!ShowsItsFence
  <1> QED
    BY <1>2, <1>3 DEF D!Init, DiagramInv, CacheInv

(* A diagram at rest shows its own fence in the theme of the settings,        *)
(* however renders overlap, unless one was left to count for a fence that had *)
(* changed (MermaidRenderer.tsx and mermaid-service.ts).                      *)
THEOREM DrawingIsOfTheFence ==
  ASSUME D!DiagramAssumption
  PROVE  D!Spec => []D!ShowsItsFenceUnlessCaughtUp
  <1>1. DiagramInv => D!ShowsItsFenceUnlessCaughtUp
    BY DEF DiagramInv
  <1> QED
    BY <1>1, DiagramInit, DiagramStep, PTL DEF D!Spec

-----------------------------------------------------------------------------
(* The files of a project. *)

\* The newest of the calls for the tree is of the project that is chosen, and
\* the newest of those for the chunks of the file that is viewed in it; when
\* none is on its way, what they brought is shown.
Newest(flying, c) == c \in flying /\ \A d \in flying : d.n <= c.n
CallNumbers ==
  /\ callsMade \in Nat
  /\ \A c \in listCalls \cup chunkCalls : c.n \in Nat /\ c.n < callsMade
TreeInv ==
  chosen # NoProject /\ ~overtaken /\ explorer =>
    /\ listCalls = {} => tree \in {chosen, NoProject}
    /\ \A c : Newest(listCalls, c) => c.of = chosen
ChunksInv ==
  chosen # NoProject /\ ~overtaken /\ viewed # F!NoView =>
    /\ chunkCalls = {} => chunks \in {[of |-> chosen, path |-> viewed.path], F!NoChunks}
    /\ \A c : Newest(chunkCalls, c) => c.of = chosen /\ c.path = viewed.path
ReadingInv == CallNumbers /\ TreeInv /\ ChunksInv

\* A new call is the newest.
LEMMA NewCallIsNewest ==
  ASSUME NEW flying, NEW n \in Nat, \A d \in flying : d.n \in Nat /\ d.n < n,
         NEW new, new.n = n, NEW c, Newest(flying \cup {new}, c)
  PROVE  c = new
  <1>1. new.n <= c.n
    BY DEF Newest
  <1>2. c \in flying \/ c = new
    BY DEF Newest
  <1> QED
    BY <1>1, <1>2

\* If none is older than the one that was answered, the newest is still that.
LEMMA AnswerKeepsNewest ==
  ASSUME NEW flying, \A d \in flying : d.n \in Nat,
         NEW c \in flying, ~F!Older(flying, c), NEW x, Newest(flying \ {c}, x)
  PROVE  Newest(flying, x)
  <1>1. x \in flying /\ \A d \in flying \ {c} : d.n <= x.n
    BY DEF Newest
  <1>2. c.n <= x.n
    BY <1>1 DEF F!Older
  <1> QED
    BY <1>1, <1>2 DEF Newest

\* If it was the last one, it was the newest.
LEMMA LastIsNewest ==
  ASSUME NEW flying, \A d \in flying : d.n \in Nat, NEW c \in flying, flying \ {c} = {}
  PROVE  Newest(flying, c)
  BY DEF Newest

\* What is asked for the tree now is of the project that is chosen.
LEMMA ListsOfKeeps ==
  ASSUME CallNumbers, NEW p, F!Call, F!ListsOf(p), chosen' = p
  PROVE  /\ \A c \in listCalls' : c.n \in Nat /\ c.n < callsMade'
         /\ explorer' /\ p # NoProject =>
              listCalls' # {} /\ \A c : Newest(listCalls', c) => c.of = p
  <1>1. callsMade \in Nat /\ callsMade' = callsMade + 1
    BY DEF F!Call, CallNumbers
  <1>2. CASE explorer' /\ p # NoProject
    <2> DEFINE new == [n |-> callsMade, of |-> p]
    <2>1. listCalls' = listCalls \cup {new} /\ new.n = callsMade /\ new.of = p
      BY <1>2 DEF F!ListsOf
    <2> HIDE DEF new
    <2>2. \A c : Newest(listCalls', c) => c = new
      BY <1>1, <2>1, NewCallIsNewest DEF CallNumbers
    <2>3. \A c \in listCalls' : c.n \in Nat /\ c.n < callsMade'
      BY <1>1, <2>1 DEF CallNumbers
    <2> QED
      BY <2>1, <2>2, <2>3
  <1>3. CASE ~(explorer' /\ p # NoProject)
    BY <1>1, <1>3 DEF F!ListsOf, CallNumbers
  <1> QED
    BY <1>2, <1>3

\* The same of the chunks, which are of the file as well.
LEMMA ChunksOfKeeps ==
  ASSUME CallNumbers, NEW p, NEW v, F!Call, F!ChunksOf(p, v)
  PROVE  /\ \A c \in chunkCalls' : c.n \in Nat /\ c.n < callsMade'
         /\ v # F!NoView /\ p # NoProject =>
              /\ chunkCalls' # {}
              /\ \A c : Newest(chunkCalls', c) => c.of = p /\ c.path = v.path
  <1>1. callsMade \in Nat /\ callsMade' = callsMade + 1
    BY DEF F!Call, CallNumbers
  <1>2. CASE v # F!NoView /\ p # NoProject
    <2> DEFINE new == [n |-> callsMade, of |-> p, path |-> v.path]
    <2>1. /\ chunkCalls' = chunkCalls \cup {new}
          /\ new.n = callsMade /\ new.of = p /\ new.path = v.path
      BY <1>2 DEF F!ChunksOf
    <2> HIDE DEF new
    <2>2. \A c : Newest(chunkCalls', c) => c = new
      BY <1>1, <2>1, NewCallIsNewest DEF CallNumbers
    <2>3. \A c \in chunkCalls' : c.n \in Nat /\ c.n < callsMade'
      BY <1>1, <2>1 DEF CallNumbers
    <2> QED
      BY <2>1, <2>2, <2>3
  <1>3. CASE ~(v # F!NoView /\ p # NoProject)
    BY <1>1, <1>3 DEF F!ChunksOf, CallNumbers
  <1> QED
    BY <1>2, <1>3

\* Opening a file asks for its chunks, and for nothing of another file.
LEMMA ViewsKeeps ==
  ASSUME ReadingInv, NEW v, F!Views(v), chunks' = chunks
  PROVE  ReadingInv'
  <1>1. /\ viewed' = v /\ F!Call /\ F!ChunksOf(chosen, v)
        /\ UNCHANGED <<chosen, explorer, listCalls, tree, overtaken>>
    BY DEF F!Views
  <1>2. /\ \A c \in chunkCalls' : c.n \in Nat /\ c.n < callsMade'
        /\ v # F!NoView /\ chosen # NoProject =>
             /\ chunkCalls' # {}
             /\ \A c : Newest(chunkCalls', c) => c.of = chosen /\ c.path = v.path
    BY <1>1, ChunksOfKeeps DEF ReadingInv
  <1>3. callsMade' \in Nat /\ callsMade' > callsMade
    BY <1>1 DEF F!Call, ReadingInv, CallNumbers
  <1>4. CallNumbers'
    BY <1>1, <1>2, <1>3 DEF ReadingInv, CallNumbers
  <1>5. TreeInv'
    BY <1>1 DEF ReadingInv, TreeInv, Newest
  <1>6. ChunksInv'
    BY <1>1, <1>2 DEF ChunksInv, F!NoView
  <1> QED
    BY <1>4, <1>5, <1>6 DEF ReadingInv

\* Every step of the explorer and the viewer keeps them to the project.
LEMMA ReadingStep ==
  ASSUME ReadingInv, [F!Next]_F!readingVars
  PROVE  ReadingInv'
  <1>1. CallNumbers /\ TreeInv /\ ChunksInv
    BY DEF ReadingInv
  <1>2. ASSUME NEW p, F!Choose(p) PROVE ReadingInv'
    <2>1. /\ F!Call /\ F!ListsOf(chosen') /\ F!ChunksOf(chosen', viewed)
          /\ UNCHANGED <<explorer, tree, viewed, chunks, overtaken>>
      BY <1>2 DEF F!Choose, F!AsksAgain
    <2>2. /\ \A c \in listCalls' : c.n \in Nat /\ c.n < callsMade'
          /\ explorer' /\ chosen' # NoProject =>
               listCalls' # {} /\ \A c : Newest(listCalls', c) => c.of = chosen'
      BY <1>1, <2>1, ListsOfKeeps
    <2>3. /\ \A c \in chunkCalls' : c.n \in Nat /\ c.n < callsMade'
          /\ viewed # F!NoView /\ chosen' # NoProject =>
               /\ chunkCalls' # {}
               /\ \A c : Newest(chunkCalls', c) => c.of = chosen' /\ c.path = viewed.path
      BY <1>1, <2>1, ChunksOfKeeps
    <2>4. CallNumbers'
      BY <1>1, <2>1, <2>2, <2>3 DEF F!Call, CallNumbers
    <2>5. TreeInv' /\ ChunksInv'
      BY <2>1, <2>2, <2>3 DEF TreeInv, ChunksInv, F!NoView
    <2> QED
      BY <2>4, <2>5 DEF ReadingInv
  <1>3. ASSUME F!Call, F!ListsOf(chosen), chosen' = chosen,
               UNCHANGED <<viewed, chunkCalls, chunks, overtaken>>
        PROVE  ReadingInv'
    <2>1. /\ \A c \in listCalls' : c.n \in Nat /\ c.n < callsMade'
          /\ explorer' /\ chosen # NoProject =>
               listCalls' # {} /\ \A c : Newest(listCalls', c) => c.of = chosen
      BY <1>1, <1>3, ListsOfKeeps
    <2>2. CallNumbers'
      BY <1>1, <1>3, <2>1 DEF F!Call, CallNumbers
    <2>3. TreeInv'
      BY <1>3, <2>1 DEF TreeInv
    <2>4. ChunksInv'
      BY <1>1, <1>3 DEF ChunksInv, Newest, F!NoView
    <2> QED
      BY <2>2, <2>3, <2>4 DEF ReadingInv
  <1>4. CASE F!Open \/ F!Refresh
    BY <1>3, <1>4 DEF F!Open, F!Refresh
  <1>5. CASE F!Assemble
    BY <1>1, <1>5
       DEF F!Assemble, F!Call, ReadingInv, CallNumbers, TreeInv, ChunksInv, Newest, F!NoView
  <1>6. CASE F!Close
    BY <1>1, <1>6 DEF F!Close, F!Shut, ReadingInv, CallNumbers, TreeInv, ChunksInv
  <1>7. ASSUME NEW c, F!Listed(c) PROVE ReadingInv'
    <2>1. /\ c \in listCalls /\ listCalls' = listCalls \ {c} /\ tree' \in {c.of, NoProject}
          /\ overtaken' = (overtaken \/ F!Older(listCalls, c))
          /\ UNCHANGED <<chosen, explorer, viewed, chunkCalls, chunks, callsMade>>
      BY <1>7 DEF F!Listed
    <2>2. ~overtaken' => ~overtaken /\ ~F!Older(listCalls, c)
      BY <2>1
    <2>3. CallNumbers'
      BY <1>1, <2>1 DEF CallNumbers
    <2>4. ASSUME chosen # NoProject, ~overtaken', explorer
          PROVE  /\ listCalls' = {} => tree' \in {chosen, NoProject}
                 /\ \A x : Newest(listCalls', x) => x.of = chosen
      <3>1. \A d \in listCalls : d.n \in Nat
        BY <1>1 DEF CallNumbers
      <3>2. \A x : Newest(listCalls, x) => x.of = chosen
        BY <1>1, <2>2, <2>4 DEF TreeInv
      <3>3. listCalls' = {} => c.of = chosen
        BY <2>1, <3>1, <3>2, LastIsNewest
      <3>4. \A x : Newest(listCalls', x) => Newest(listCalls, x)
        BY <2>1, <2>2, <2>4, <3>1, AnswerKeepsNewest
      <3> QED
        BY <2>1, <3>2, <3>3, <3>4
    <2>5. TreeInv'
      BY <2>1, <2>4 DEF TreeInv
    <2>6. ChunksInv'
      BY <1>1, <2>1, <2>2 DEF ChunksInv, Newest, F!NoView
    <2> QED
      BY <2>3, <2>5, <2>6 DEF ReadingInv
  <1>8. ASSUME NEW c, F!Viewed(c) PROVE ReadingInv'
    <2>1. /\ c \in chunkCalls /\ chunkCalls' = chunkCalls \ {c}
          /\ chunks' \in {[of |-> c.of, path |-> c.path], F!NoChunks}
          /\ overtaken' = (overtaken \/ F!Older(chunkCalls, c))
          /\ UNCHANGED <<chosen, explorer, listCalls, tree, viewed, callsMade>>
      BY <1>8 DEF F!Viewed
    <2>2. ~overtaken' => ~overtaken /\ ~F!Older(chunkCalls, c)
      BY <2>1
    <2>3. CallNumbers'
      BY <1>1, <2>1 DEF CallNumbers
    <2>4. ASSUME chosen # NoProject, ~overtaken', viewed # F!NoView
          PROVE  /\ chunkCalls' = {} =>
                      chunks' \in {[of |-> chosen, path |-> viewed.path], F!NoChunks}
                 /\ \A x : Newest(chunkCalls', x) => x.of = chosen /\ x.path = viewed.path
      <3>1. \A d \in chunkCalls : d.n \in Nat
        BY <1>1 DEF CallNumbers
      <3>2. \A x : Newest(chunkCalls, x) => x.of = chosen /\ x.path = viewed.path
        BY <1>1, <2>2, <2>4 DEF ChunksInv
      <3>3. chunkCalls' = {} => c.of = chosen /\ c.path = viewed.path
        BY <2>1, <3>1, <3>2, LastIsNewest
      <3>4. \A x : Newest(chunkCalls', x) => Newest(chunkCalls, x)
        BY <2>1, <2>2, <2>4, <3>1, AnswerKeepsNewest
      <3> QED
        BY <2>1, <3>2, <3>3, <3>4
    <2>5. ChunksInv'
      BY <2>1, <2>4 DEF ChunksInv, F!NoView, F!NoChunks
    <2>6. TreeInv'
      BY <1>1, <2>1, <2>2 DEF TreeInv, Newest
    <2> QED
      BY <2>3, <2>5, <2>6 DEF ReadingInv
  <1>9. ASSUME NEW v, F!Views(v), chunks' = chunks PROVE ReadingInv'
    BY <1>9, ViewsKeeps
  <1>10. CASE UNCHANGED <<chosen, explorer, listCalls, tree, viewed, chunkCalls, chunks,
                          callsMade, overtaken>>
    BY <1>1, <1>10 DEF ReadingInv, CallNumbers, TreeInv, ChunksInv, Newest, F!NoView
  <1>11. CASE (\E c : F!Assembled(c)) \/ UNCHANGED F!readingVars
    BY <1>10, <1>11 DEF F!Assembled, F!readingVars
  <1> QED
    BY <1>2, <1>4, <1>5, <1>6, <1>7, <1>8, <1>9, <1>11
       DEF F!Next, F!ListAnswers, F!Pick, F!OpenSource

(* Unless an older call is answered after a newer one, the tree and the       *)
(* chunks that are shown are of the active project and of the file named      *)
(* above them (RagExplorer.tsx, useRagFileBrowser.ts, FileChunkViewer.tsx).   *)
THEOREM FilesAreOfTheProject ==
  F!Spec => []F!ShownIsOfTheProject
  <1>1. F!Init => ReadingInv
    BY DEF F!Init, ReadingInv, CallNumbers, TreeInv, ChunksInv, Newest
  <1>2. ReadingInv => F!ShownIsOfTheProject
    BY DEF ReadingInv, TreeInv, ChunksInv, F!ShownIsOfTheProject
  <1> QED
    BY <1>1, <1>2, ReadingStep, PTL DEF F!Spec

-----------------------------------------------------------------------------
(* The lists of the models. *)

\* Unless an older list may overwrite: the lists on their way are of the server
\* of the address, what was read of it is still so, and when none is on its
\* way or due the window has its models. A deletion not yet done has changed
\* nothing, and one that is done will have the list asked for again.
DueAgain == moved \/ \E d \in deleting : d.done
Deletions == [of : Servers, model : Models, done : BOOLEAN]
DeletionsTyped == server \in Servers /\ deleting \subseteq Deletions
ListsInv ==
  ~crossedList =>
    /\ \A c \in modelCalls :
         c.of = server /\ (c.read # M!Unread => c.read = installed[server])
    /\ modelCalls = {} /\ ~listError /\ ~DueAgain => modelsListed = installed[server]

\* A list that is asked for now is of the server, and not read yet.
LEMMA AsksEffect ==
  ASSUME NEW kind, M!Asks(kind)
  PROVE  \E c : /\ modelCalls' = modelCalls \cup {c} /\ c.of = server /\ c.read = M!Unread
  <1>1. PICK n \in 1 .. MaxLists : modelCalls' = modelCalls \cup {M!ListCall(n, server, kind)}
    BY DEF M!Asks
  <1>2. M!ListCall(n, server, kind).of = server /\ M!ListCall(n, server, kind).read = M!Unread
    BY DEF M!ListCall
  <1> QED
    BY <1>1, <1>2

\* To ask for the list again does not disturb those that are on their way.
LEMMA AsksKeeps ==
  ASSUME NEW kind, M!Asks(kind), server' = server,
         ~crossedList' =>
           \A c \in modelCalls :
             c.of = server /\ (c.read # M!Unread => c.read = installed'[server])
  PROVE  ListsInv'
  <1>1. PICK c : modelCalls' = modelCalls \cup {c} /\ c.of = server /\ c.read = M!Unread
    BY AsksEffect
  <1> QED
    BY <1>1 DEF ListsInv, M!Unread

\* Deletions keep their types, and the server stays one of the servers.
LEMMA DeletionsStep ==
  ASSUME DeletionsTyped, [M!Next]_M!listVars
  PROVE  DeletionsTyped'
  <1>1. CASE UNCHANGED <<server, deleting>>
    BY <1>1 DEF DeletionsTyped
  <1>2. ASSUME NEW m \in Models, M!Delete(m) PROVE DeletionsTyped'
    <2>1. [of |-> server, model |-> m, done |-> FALSE] \in Deletions
      BY DEF DeletionsTyped, Deletions
    <2> QED
      BY <1>2, <2>1 DEF M!Delete, DeletionsTyped
  <1>3. ASSUME NEW d, M!Deletes(d) PROVE DeletionsTyped'
    BY <1>3 DEF M!Deletes, DeletionsTyped, Deletions
  <1>4. ASSUME NEW d, M!Deleted(d) PROVE DeletionsTyped'
    BY <1>4 DEF M!Deleted, DeletionsTyped
  <1>5. ASSUME NEW s \in Servers, M!Move(s) PROVE DeletionsTyped'
    BY <1>5 DEF M!Move, DeletionsTyped
  <1>6. CASE M!FetchModels \/ M!Verified \/ M!OpenPanel \/ M!SetParam \/ M!ResetParam
    BY <1>1, <1>6 DEF M!FetchModels, M!Verified, M!OpenPanel, M!SetParam, M!ResetParam
  <1>7. ASSUME NEW c, M!ListRead(c) \/ M!ListTaken(c) \/ M!ListFails(c) PROVE DeletionsTyped'
    BY <1>1, <1>7 DEF M!ListRead, M!ListTaken, M!ListFails
  <1>8. CASE \/ \E k \in M!Keys : M!CapsAnswered(k)
             \/ \E m \in Models : M!Pulled(m) \/ M!Select(m)
             \/ \E s \in Servers : M!Flips(s)
             \/ UNCHANGED M!listVars
    BY <1>1, <1>8 DEF M!CapsAnswered, M!Pulled, M!Select, M!Flips, M!listVars
  <1> QED
    BY <1>2, <1>3, <1>4, <1>5, <1>6, <1>7, <1>8 DEF M!Next

\* Every step keeps the lists to the server of the address.
LEMMA ListsStep ==
  ASSUME DeletionsTyped, ListsInv, [M!Next]_M!listVars
  PROVE  ListsInv'
  <1>1. CASE M!FetchModels
    <2>1. /\ M!Asks("list") /\ UNCHANGED <<installed, server>>
          /\ ~crossedList' => ~crossedList \/ modelCalls = {}
      BY <1>1 DEF M!FetchModels
    <2> QED
      BY <2>1, AsksKeeps DEF ListsInv
  <1>2. ASSUME NEW c, M!ListRead(c) PROVE ListsInv'
    <2> DEFINE read == [c EXCEPT !.read = installed[c.of]]
    <2>1. /\ c \in modelCalls /\ modelCalls' = (modelCalls \ {c}) \cup {read}
          /\ UNCHANGED <<installed, server, modelsListed, listError, moved, deleting, crossedList>>
      BY <1>2 DEF M!ListRead
    <2>2. read.of = c.of /\ (read.read = installed[c.of] \/ read.read = c.read)
      OBVIOUS
    <2> HIDE DEF read
    <2> QED
      BY <2>1, <2>2 DEF ListsInv, DueAgain, M!Unread
  <1>3. ASSUME NEW c, M!ListTaken(c) PROVE ListsInv'
    <2>1. /\ c \in modelCalls /\ c.read # M!Unread /\ modelsListed' = c.read
          /\ modelCalls' = modelCalls \ {c}
          /\ UNCHANGED <<installed, server, moved, deleting, crossedList>>
      BY <1>3 DEF M!ListTaken
    <2> QED
      BY <2>1 DEF ListsInv, DueAgain, M!Unread
  <1>4. ASSUME NEW c, M!ListFails(c) PROVE ListsInv'
    <2>1. /\ modelCalls' = modelCalls \ {c} /\ listError' = TRUE
          /\ UNCHANGED <<installed, server, modelsListed, moved, deleting, crossedList>>
      BY <1>4 DEF M!ListFails
    <2> QED
      BY <2>1 DEF ListsInv, DueAgain, M!Unread
  <1>5. ASSUME NEW m, M!Delete(m) PROVE ListsInv'
    <2>1. PICK d : deleting' = deleting \cup {d} /\ d = [of |-> server, model |-> m, done |-> FALSE]
      BY <1>5 DEF M!Delete
    <2>2. UNCHANGED <<installed, server, modelCalls, modelsListed, listError, moved, crossedList>>
      BY <1>5 DEF M!Delete
    <2> QED
      BY <2>1, <2>2 DEF ListsInv, DueAgain, M!Unread
  <1>6. ASSUME NEW d, M!Deletes(d) PROVE ListsInv'
    <2>1. /\ UNCHANGED <<server, modelCalls, modelsListed, listError, moved>>
          /\ d \in deleting /\ ~d.done
      BY <1>6 DEF M!Deletes
    <2>2. CASE deleting' = deleting \ {d} /\ UNCHANGED <<installed, crossedList>>
      BY <2>1, <2>2 DEF ListsInv, DueAgain, M!Unread
    <2>3. CASE /\ deleting' = (deleting \ {d}) \cup {[d EXCEPT !.done = TRUE]}
               /\ M!Changes(d.of, installed[d.of] \ {d.model})
      <3>1. crossedList' = (crossedList \/ \E c \in modelCalls : c.read # M!Unread)
        BY <2>3 DEF M!Changes
      <3>2. PICK x : x \in deleting' /\ x = [d EXCEPT !.done = TRUE]
        BY <2>3
      <3>3. x.done
        BY <2>1, <3>2 DEF DeletionsTyped, Deletions
      <3> QED
        BY <2>1, <3>1, <3>2, <3>3 DEF ListsInv, DueAgain, M!Unread
    <2> QED
      BY <1>6, <2>2, <2>3 DEF M!Deletes
  <1>7. ASSUME NEW d, M!Deleted(d) PROVE ListsInv'
    <2>1. M!Asks("list") /\ UNCHANGED <<installed, server, crossedList>>
      BY <1>7 DEF M!Deleted, M!ListsAgain
    <2> QED
      BY <2>1, AsksKeeps DEF ListsInv
  <1>8. ASSUME NEW m, M!Pulled(m) PROVE ListsInv'
    <2>1. /\ M!Asks("pull") /\ server' = server
          /\ crossedList' = (crossedList \/ \E c \in modelCalls : c.read # M!Unread)
      BY <1>8 DEF M!Pulled, M!Changes
    <2> QED
      BY <2>1, AsksKeeps DEF ListsInv
  <1>9. ASSUME NEW s, M!Move(s) PROVE ListsInv'
    <2>1. /\ moved' = TRUE /\ crossedList' = (crossedList \/ modelCalls # {})
          /\ modelCalls' = modelCalls
      BY <1>9 DEF M!Move
    <2> QED
      BY <2>1 DEF ListsInv, DueAgain
  <1>10. CASE M!Verified
    <2>1. CASE M!Asks("list") /\ UNCHANGED <<installed, server, crossedList>>
      BY <2>1, AsksKeeps DEF ListsInv
    <2>2. CASE crossedList' = TRUE
      BY <2>2 DEF ListsInv
    <2> QED
      BY <1>10, <2>1, <2>2 DEF M!Verified
  <1>11. CASE UNCHANGED <<installed, server, modelCalls, modelsListed, listError, moved, deleting,
                          crossedList>>
    BY <1>11 DEF ListsInv, DueAgain, M!Unread
  <1>12. CASE \/ M!OpenPanel \/ M!SetParam \/ M!ResetParam
              \/ \E k \in M!Keys : M!CapsAnswered(k)
              \/ \E m \in Models : M!Select(m)
              \/ \E s \in Servers : M!Flips(s)
              \/ UNCHANGED M!listVars
    BY <1>11, <1>12 DEF M!OpenPanel, M!SetParam, M!ResetParam, M!CapsAnswered, M!Select, M!Flips,
                        M!listVars
  <1> QED
    BY <1>1, <1>2, <1>3, <1>4, <1>5, <1>6, <1>7, <1>8, <1>9, <1>10, <1>12 DEF M!Next

(* At rest, and unless an older list came last, the window shows the models   *)
(* of the server at its address, across moves, failed lists and deletions     *)
(* (model-store.ts and useModelActions.ts).                                   *)
THEOREM ListIsOfTheServer ==
  M!Spec => []M!ListIsInstalled
  <1>1. ASSUME M!Init PROVE DeletionsTyped /\ ListsInv
    <2>1. M!ListCall(1, server, "boot").of = server /\ M!ListCall(1, server, "boot").read = M!Unread
      BY DEF M!ListCall
    <2> QED
      BY <1>1, <2>1 DEF M!Init, DeletionsTyped, ListsInv
  <1>2. ListsInv => M!ListIsInstalled
    BY DEF ListsInv, M!ListIsInstalled, M!AtRest, DueAgain
  <1> QED
    BY <1>1, <1>2, DeletionsStep, ListsStep, PTL DEF M!Spec

-----------------------------------------------------------------------------
(* What is asked once at a time: the capabilities of a model.              *)

CapsInv ==
  /\ known \in [M!Keys -> {"nothing", "window", "invalid", "unreached"}]
  /\ capsCalls \in [M!Keys -> Nat]
  /\ M!AskedOnce

\* To ask for the capabilities takes that they are neither known nor asked for.
LEMMA AsksOfModelKeeps ==
  ASSUME CapsInv, known' = known, NEW k, M!AsksOfModel(k)
  PROVE  CapsInv'
  <1>1. CASE capsCalls' = capsCalls
    BY <1>1 DEF CapsInv, M!AskedOnce
  <1>2. CASE /\ k \in M!Keys /\ known[k] = "nothing" /\ capsCalls[k] = 0
             /\ capsCalls' = [capsCalls EXCEPT ![k] = @ + 1]
    BY <1>2 DEF CapsInv, M!AskedOnce
  <1> QED
    BY <1>1, <1>2 DEF M!AsksOfModel

\* Every step keeps one question for each model at most.
LEMMA CapsStep ==
  ASSUME CapsInv, [M!Next]_M!listVars
  PROVE  CapsInv'
  <1>1. CASE UNCHANGED <<known, capsCalls>>
    BY <1>1 DEF CapsInv, M!AskedOnce
  <1>2. ASSUME known' = known, M!Watches PROVE CapsInv'
    <2>1. CASE M!Key' = M!Key
      BY <1>1, <1>2, <2>1 DEF M!Watches
    <2>2. CASE M!Key' # M!Key
      BY <1>2, <2>2, AsksOfModelKeeps DEF M!Watches
    <2> QED
      BY <2>1, <2>2
  <1>3. ASSUME NEW k \in M!Keys, M!CapsAnswered(k) PROVE CapsInv'
    <2>1. PICK o \in M!Outcomes(k) : known' = [known EXCEPT ![k] = o]
      BY <1>3 DEF M!CapsAnswered
    <2>2. o \in {"nothing", "window", "invalid", "unreached"}
      BY DEF M!Outcomes
    <2>3. capsCalls[k] > 0 /\ capsCalls' = [capsCalls EXCEPT ![k] = @ - 1]
      BY <1>3 DEF M!CapsAnswered
    <2>4. capsCalls[k] = 1
      BY <2>3 DEF CapsInv, M!AskedOnce
    <2>5. capsCalls' \in [M!Keys -> Nat]
      BY <2>3, <2>4 DEF CapsInv
    <2>6. M!AskedOnce'
      BY <2>1, <2>3, <2>4 DEF CapsInv, M!AskedOnce
    <2> QED
      BY <2>1, <2>2, <2>5, <2>6 DEF CapsInv
  <1>4. CASE M!FetchModels \/ M!Verified \/ M!SetParam \/ M!ResetParam
    BY <1>1, <1>4 DEF M!FetchModels, M!Verified, M!SetParam, M!ResetParam
  <1>5. CASE M!OpenPanel
    BY <1>5, AsksOfModelKeeps DEF M!OpenPanel
  <1>6. ASSUME NEW c, M!ListRead(c) \/ M!ListTaken(c) \/ M!ListFails(c) PROVE CapsInv'
    BY <1>1, <1>2, <1>6 DEF M!ListRead, M!ListTaken, M!ListFails
  <1>7. ASSUME NEW d, M!Deletes(d) \/ M!Deleted(d) PROVE CapsInv'
    BY <1>1, <1>7 DEF M!Deletes, M!Deleted
  <1>8. ASSUME NEW m, M!Delete(m) \/ M!Pulled(m) \/ M!Select(m) PROVE CapsInv'
    BY <1>1, <1>2, <1>8 DEF M!Delete, M!Pulled, M!Select
  <1>9. ASSUME NEW s, M!Move(s) \/ M!Flips(s) PROVE CapsInv'
    BY <1>1, <1>2, <1>9 DEF M!Move, M!Flips
  <1>10. CASE UNCHANGED M!listVars
    BY <1>1, <1>10 DEF M!listVars
  <1> QED
    BY <1>3, <1>4, <1>5, <1>6, <1>7, <1>8, <1>9, <1>10 DEF M!Next

(* The capabilities of a model are never asked for twice at a time, nor when  *)
(* an answer is kept already (model-capabilities-cache.ts).                   *)
THEOREM CapabilitiesAreAskedOnce ==
  M!Spec => []M!AskedOnce
  <1>1. M!Init => CapsInv
    BY DEF M!Init, CapsInv, M!AskedOnce
  <1>2. CapsInv => M!AskedOnce
    BY DEF CapsInv
  <1> QED
    BY <1>1, <1>2, CapsStep, PTL DEF M!Spec

(* The tuning of a model goes when the user resets it, or with the model      *)
(* itself, when the list that is taken does not have it any more: an answer   *)
(* of another server's list prunes by its own models only                     *)
(* (useModelActions.ts).                                                    *)
THEOREM TuningIsKept ==
  M!Spec => M!TuningStays
  <1>1. ASSUME [M!Next]_M!listVars, NEW m \in tuned \ tuned'
        PROVE  m = selectedModel \/ m \notin modelsListed'
    <2>1. CASE tuned \subseteq tuned'
      BY <1>1, <2>1
    <2>2. ASSUME NEW c \in modelCalls, M!ListTaken(c)
          PROVE  m \notin modelsListed' \/ tuned \subseteq tuned'
      BY <1>1, <2>2 DEF M!ListTaken, M!Pruned
    <2>3. CASE M!ResetParam
      BY <1>1, <2>3 DEF M!ResetParam
    <2> QED
      BY <1>1, <2>1, <2>2, <2>3
         DEF M!Next, M!FetchModels, M!Verified, M!OpenPanel, M!SetParam, M!ListRead,
             M!ListFails, M!CapsAnswered, M!Deletes, M!Deleted, M!Delete, M!Pulled, M!Select,
             M!Move, M!Flips, M!listVars
  <1>2. [M!Next]_M!listVars =>
          [\A m \in tuned \ tuned' : m = selectedModel \/ m \notin modelsListed']_M!listVars
    BY <1>1
  <1> QED
    BY <1>2, PTL DEF M!Spec, M!TuningStays

-----------------------------------------------------------------------------
(* The door to the commands of the backend. *)

CallRecord == [cmd : IpcCommands, quiet : BOOLEAN, throws : BOOLEAN, at : Nat,
               got : {"none", "value", "null", "thrown"}, toast : BOOLEAN, sent : BOOLEAN]
Told(c) == /\ c.got \in {"none", "thrown"} => ~c.toast
           /\ (c.got = "null" /\ c.sent /\ ~c.quiet) => c.toast
ToldCalls == {c \in CallRecord : Told(c)}
Traces == [cmd : IpcCommands, at : Nat]

\* A trace is older than the last one of its command.
CallsInv == calls \in Seq(ToldCalls)
ClockInv == /\ now \in Nat /\ hides \in Nat
            /\ lastTraceAt \in [IpcCommands -> Nat] /\ history \in Seq(Traces)
CountsInv == /\ callCount \in Nat /\ violationCount \in Nat
             /\ callCount >= Cardinality(T!Finished)
             /\ violationCount <= callCount
             /\ (violationCount > 0) <=> (history # <<>>)
             /\ \A c \in IpcCommands : lastTraceAt[c] > 0 => history # <<>>
PaceInv == hides = 0 =>
             \A j \in DOMAIN history : history[j].at < lastTraceAt[history[j].cmd]
DoorInv == CallsInv /\ ClockInv /\ CountsInv /\ PaceInv /\ T!TracesArePaced

\* The counts cover the calls when each count is of a call or a trace.
LEMMA StatsAreCovered ==
  ASSUME CountsInv
  PROVE  T!StatsCoverCalls
  <1>1. \A S : T!Cardinality(S) = Cardinality(S)
    BY DEF T!Cardinality, Cardinality
  <1> QED
    BY <1>1 DEF CountsInv, T!StatsCoverCalls

\* A call that ends is told as its options say.
LEMMA CallIsTold ==
  ASSUME T!TransportAssumption, ClockInv, NEW cmd \in IpcCommands, NEW options \in T!Options
  PROVE  T!Call(cmd, options) \in ToldCalls
  <1>1. PICK got \in {"none", "value", "null", "thrown"} : got = "none"
    OBVIOUS
  <1>2. PICK b \in BOOLEAN : ~b
    OBVIOUS
  <1>3. PICK t \in BOOLEAN : t
    OBVIOUS
  <1>4. options.quiet \in BOOLEAN /\ options.throws \in BOOLEAN
    BY DEF T!Options
  <1> DEFINE c == [cmd |-> cmd, quiet |-> options.quiet, throws |-> options.throws, at |-> now,
                   got |-> got, toast |-> b, sent |-> t]
  <1>5. T!Call(cmd, options) = c
    BY <1>1, <1>2, <1>3 DEF T!Call
  <1>6. c \in CallRecord
    BY <1>4 DEF CallRecord, ClockInv
  <1>7. Told(c)
    BY <1>1, <1>2 DEF Told
  <1> QED
    BY <1>5, <1>6, <1>7 DEF ToldCalls

\* A new call is not finished yet, and none that is finished changes.
LEMMA AskKeeps ==
  ASSUME T!TransportAssumption, DoorInv, NEW cmd \in IpcCommands, NEW options \in T!Options,
         NEW verdict \in T!Verdicts, T!Ask(cmd, options, verdict)
  PROVE  DoorInv'
  <1> DEFINE new == T!Answered(T!Call(cmd, options), verdict)
  <1>1. new \in ToldCalls /\ (new.got = "none" \/ ~new.sent)
    <2>1. PICK c \in ToldCalls : c = T!Call(cmd, options)
      BY CallIsTold DEF DoorInv
    <2>2. c.got = "none" 
      BY <2>1 DEF T!Call
    <2>3. CASE verdict = "pass"
      BY <2>1, <2>2, <2>3 DEF T!Answered
    <2>4. CASE verdict # "pass"
      <3>1. PICK got \in {"none", "value", "null", "thrown"} : got = "null"
        OBVIOUS
      <3>2. PICK b \in BOOLEAN : ~b
        OBVIOUS
      <3>3. PICK t \in BOOLEAN : t <=> ~c.quiet
        OBVIOUS
      <3> DEFINE d == [c EXCEPT !.got = got, !.sent = b, !.toast = t]
      <3>4. c \in CallRecord
        BY DEF ToldCalls
      <3>5. d \in CallRecord /\ d.got = got /\ d.sent = b
        BY <3>4 DEF CallRecord
      <3>6. Told(d)
        BY <3>1, <3>2, <3>5 DEF Told
      <3>7. c.quiet \in BOOLEAN
        BY <3>4 DEF CallRecord
      <3>8. new = d
        BY <2>1, <2>4, <3>1, <3>2, <3>3, <3>7 DEF T!Answered
      <3> QED
        BY <3>2, <3>5, <3>6, <3>8 DEF ToldCalls
    <2> QED
      BY <2>3, <2>4
  <1>2. calls' = Append(calls, new) /\ calls \in Seq(ToldCalls)
    BY DEF T!Ask, DoorInv, CallsInv
  <1> HIDE DEF new
  <1>3. CallsInv'
    BY <1>1, <1>2 DEF CallsInv
  <1>4. T!Finished' = T!Finished
    <2>1. /\ Len(calls) \in Nat /\ DOMAIN calls = 1 .. Len(calls)
          /\ DOMAIN calls' = 1 .. Len(calls) + 1 /\ calls'[Len(calls) + 1] = new
          /\ \A i \in DOMAIN calls : calls'[i] = calls[i]
      BY <1>1, <1>2
    <2> QED
      BY <1>1, <2>1 DEF T!Finished
  <1>5. ClockInv' /\ CountsInv' /\ PaceInv' /\ T!TracesArePaced'
    <2>1. UNCHANGED <<now, callCount, violationCount, lastTraceAt, history, hides>>
      BY DEF T!Ask
    <2> QED
      BY <1>4, <2>1
         DEF DoorInv, ClockInv, CountsInv, PaceInv, T!TracesArePaced
  <1> QED
    BY <1>3, <1>5 DEF DoorInv

\* The history after a trace, or without one.
LEMMA HistoryGrows ==
  ASSUME T!TransportAssumption, ClockInv, NEW v \in Traces
  PROVE  LET h == T!Shortened(Append(history, v))
         IN  /\ h \in Seq(Traces) /\ h # <<>>
             /\ \E d \in {0, 1} :
                  /\ Len(h) = Len(history) + 1 - d
                  /\ h[Len(h)] = v
                  /\ \A k \in 1 .. Len(h) - 1 : h[k] = history[k + d]
  <1> DEFINE g == Append(history, v)
             h == T!Shortened(g)
  <1>1. /\ g \in Seq(Traces) /\ Len(g) = Len(history) + 1 /\ Len(history) \in Nat
        /\ g[Len(g)] = v /\ \A k \in 1 .. Len(history) : g[k] = history[k]
    BY DEF ClockInv
  <1>2. HistoryMax \in Nat /\ HistoryMax # 0
    BY DEF T!TransportAssumption
  <1>3. CASE Len(g) > HistoryMax
    <2>1. h = Tail(g) /\ Len(history) > 0
      BY <1>1, <1>2, <1>3 DEF T!Shortened
    <2> HIDE DEF g, h
    <2>2. /\ h \in Seq(Traces) /\ Len(h) = Len(history)
          /\ \A k \in 1 .. Len(h) : h[k] = g[k + 1]
      BY <1>1, <2>1
    <2>3. h # <<>>
      BY <1>1, <2>1, <2>2
    <2>4. h[Len(h)] = v /\ \A k \in 1 .. Len(h) - 1 : h[k] = history[k + 1]
      BY <1>1, <2>1, <2>2
    <2> QED
      BY <1>1, <2>2, <2>3, <2>4 DEF h, g
  <1>4. CASE ~(Len(g) > HistoryMax)
    <2>1. h = g
      BY <1>4 DEF T!Shortened
    <2> HIDE DEF g, h
    <2>2. h # <<>>
      BY <1>1, <2>1
    <2> QED
      BY <1>1, <2>1, <2>2 DEF h, g
  <1> QED
    BY <1>3, <1>4

\* A call that ends is counted, and a slow one leaves a trace.
LEMMA CountsKeep ==
  ASSUME T!TransportAssumption, CallsInv, ClockInv, CountsInv, NEW i \in DOMAIN calls,
         NEW n \in {1, 2}, NEW s \in ToldCalls, T!Record(i, n, s), UNCHANGED <<now, hides>>
  PROVE  CallsInv' /\ CountsInv' /\ ClockInv'
  <1> DEFINE traced == T!OverBudget(i) /\ ~T!Throttled(calls[i].cmd)
             more == IF traced THEN <<T!Call(Trace, T!TraceOptions)>> ELSE <<>>
  <1>1. /\ calls \in Seq(ToldCalls) /\ Len(calls) \in Nat /\ DOMAIN calls = 1 .. Len(calls)
        /\ calls[i].cmd \in IpcCommands
    BY DEF CallsInv, ToldCalls, CallRecord
  <1>2. more \in Seq(ToldCalls)
    <2>1. CASE traced
      <3>1. PICK b \in BOOLEAN : ~b
        OBVIOUS
      <3>2. Trace \in IpcCommands /\ [quiet |-> b, throws |-> b] \in T!Options
        BY DEF T!TransportAssumption, T!Options
      <3>3. T!TraceOptions = [quiet |-> b, throws |-> b]
        BY <3>1 DEF T!TraceOptions
      <3>4. T!Call(Trace, T!TraceOptions) \in ToldCalls
        BY <3>2, <3>3, CallIsTold
      <3> QED
        BY <2>1, <3>4
    <2>2. CASE ~traced
      BY <2>2
    <2> QED
      BY <2>1, <2>2
  <1>3. \A k \in DOMAIN more : more[k].got = "none"
    <2>1. CASE traced
      <3>1. more = <<T!Call(Trace, T!TraceOptions)>>
        BY <2>1
      <3>2. T!Call(Trace, T!TraceOptions).got = "none"
        BY DEF T!Call
      <3> HIDE DEF more
      <3>3. DOMAIN more = {1} /\ more[1] = T!Call(Trace, T!TraceOptions)
        BY <3>1
      <3> QED
        BY <3>2, <3>3
    <2>2. CASE ~traced
      <3>1. more = <<>>
        BY <2>2
      <3> QED
        BY <3>1
    <2> QED
      BY <2>1, <2>2
  <1>4. calls' = [calls EXCEPT ![i] = s] \o more
    BY DEF T!Record
  <1>5. /\ callCount' = callCount + n
        /\ violationCount' = violationCount + (IF T!OverBudget(i) THEN n ELSE 0)
        /\ lastTraceAt' = IF traced THEN [lastTraceAt EXCEPT ![calls[i].cmd] = now + 1]
                          ELSE lastTraceAt
        /\ history' = IF traced THEN T!Shortened(Append(history, T!Violation(calls[i].cmd)))
                      ELSE history
    BY DEF T!Record
  <1>6. T!Violation(calls[i].cmd) \in Traces
    BY <1>1 DEF T!Violation, Traces, ClockInv
  <1>7. /\ history' \in Seq(Traces) /\ (traced => history' # <<>>)
        /\ (history # <<>> => history' # <<>>)
    BY <1>5, <1>6, HistoryGrows DEF ClockInv
  <1> HIDE DEF more, traced
  <1>8. /\ Len(calls') = Len(calls) + Len(more) /\ Len(more) \in Nat
        /\ DOMAIN calls' = 1 .. Len(calls) + Len(more)
        /\ calls' \in Seq(ToldCalls)
        /\ \A k \in 1 .. Len(calls) : k # i => calls'[k] = calls[k]
        /\ \A k \in 1 .. Len(more) : calls'[Len(calls) + k] = more[k]
    BY <1>1, <1>2, <1>4
  <1>9. CallsInv'
    BY <1>8 DEF CallsInv
  <1>10. T!Finished' \subseteq T!Finished \union {i}
    <2> SUFFICES ASSUME NEW k \in DOMAIN calls', calls'[k].sent, calls'[k].got # "none", k # i
                 PROVE  k \in T!Finished
      BY DEF T!Finished
    <2>1. k \in 1 .. Len(calls)
      <3>1. CASE k > Len(calls)
        <4>1. k - Len(calls) \in 1 .. Len(more) /\ k = Len(calls) + (k - Len(calls))
          BY <1>1, <1>8, <3>1
        <4>2. calls'[k] = more[k - Len(calls)]
          BY <1>8, <4>1
        <4>3. DOMAIN more = 1 .. Len(more)
          BY <1>2
        <4> QED
          BY <1>3, <4>1, <4>2, <4>3
      <3> QED
        BY <1>1, <1>8, <3>1
    <2> QED
      BY <1>1, <1>8, <2>1 DEF T!Finished
  <1>11. Cardinality(T!Finished') <= Cardinality(T!Finished) + 1
    <2>1. IsFiniteSet(1 .. Len(calls)) /\ T!Finished \subseteq 1 .. Len(calls)
      BY <1>1, FS_Interval DEF T!Finished
    <2>2. IsFiniteSet(T!Finished) /\ Cardinality(T!Finished) \in Nat
      BY <2>1, FS_Subset, FS_CardinalityType
    <2>3. /\ IsFiniteSet(T!Finished \union {i})
          /\ Cardinality(T!Finished \union {i}) <= Cardinality(T!Finished) + 1
      <3>1. PICK S : S = T!Finished
        OBVIOUS
      <3>2. /\ IsFiniteSet(S \union {i})
            /\ \/ Cardinality(S \union {i}) = Cardinality(S)
               \/ Cardinality(S \union {i}) = Cardinality(S) + 1
        BY <2>2, <3>1, FS_AddElement
      <3> QED
        BY <2>2, <3>1, <3>2
    <2>4. /\ IsFiniteSet(T!Finished') /\ Cardinality(T!Finished') \in Nat
          /\ Cardinality(T!Finished') <= Cardinality(T!Finished \union {i})
      BY <1>10, <2>3, FS_Subset, FS_CardinalityType
    <2>5. Cardinality(T!Finished \union {i}) \in Nat
      BY <2>3, FS_CardinalityType
    <2> QED
      BY <2>2, <2>3, <2>4, <2>5
  <1>12. Cardinality(T!Finished) \in Nat /\ Cardinality(T!Finished') \in Nat
    <2>1. IsFiniteSet(1 .. Len(calls)) /\ T!Finished \subseteq 1 .. Len(calls)
      BY <1>1, FS_Interval DEF T!Finished
    <2>2. IsFiniteSet(1 .. Len(calls')) /\ T!Finished' \subseteq 1 .. Len(calls')
      BY <1>1, <1>8, FS_Interval DEF T!Finished
    <2> QED
      BY <2>1, <2>2, FS_Subset, FS_CardinalityType
  <1>13. ClockInv'
    BY <1>1, <1>5, <1>7 DEF ClockInv
  <1>14. /\ callCount' >= Cardinality(T!Finished')
         /\ violationCount' <= callCount'
         /\ (violationCount' > 0) <=> (history' # <<>>)
    <2>1. traced => T!OverBudget(i)
      BY DEF traced
    <2>2. T!OverBudget(i) /\ ~traced => lastTraceAt[calls[i].cmd] > 0
      BY DEF traced, T!Throttled
    <2>3. T!OverBudget(i) => history' # <<>>
      BY <1>1, <1>7, <2>2 DEF CountsInv
    <2>4. ~T!OverBudget(i) => history' = history /\ violationCount' = violationCount
      BY <1>5, <2>1 DEF CountsInv
    <2>5. callCount' >= Cardinality(T!Finished')
      BY <1>5, <1>11, <1>12 DEF CountsInv
    <2>6. violationCount' <= callCount'
      BY <1>5 DEF CountsInv
    <2>7. T!OverBudget(i) => violationCount' > 0
      BY <1>5 DEF CountsInv
    <2> QED
      BY <2>3, <2>4, <2>5, <2>6, <2>7 DEF CountsInv
  <1>15. \A c \in IpcCommands : lastTraceAt'[c] > 0 => history' # <<>>
    BY <1>1, <1>5, <1>7 DEF CountsInv, ClockInv
  <1>16. callCount' \in Nat /\ violationCount' \in Nat
    BY <1>5 DEF CountsInv
  <1> QED
    BY <1>9, <1>13, <1>14, <1>15, <1>16 DEF CountsInv

\* A trace is taken only a throttle after the last one of its command.
LEMMA PaceKeeps ==
  ASSUME T!TransportAssumption, DoorInv, NEW i \in DOMAIN calls, NEW n, NEW s,
         T!Record(i, n, s), UNCHANGED <<now, hides>>
  PROVE  PaceInv' /\ T!TracesArePaced'
  <1> DEFINE cmd == calls[i].cmd
             h == T!Shortened(Append(history, T!Violation(cmd)))
             traced == T!OverBudget(i) /\ ~T!Throttled(cmd)
  <1>1. cmd \in IpcCommands /\ now \in Nat /\ lastTraceAt \in [IpcCommands -> Nat]
    BY DEF DoorInv, CallsInv, ClockInv, ToldCalls, CallRecord
  <1>2. CASE ~traced
    <2>1. UNCHANGED <<lastTraceAt, history>>
      BY <1>2 DEF T!Record
    <2> QED
      BY <2>1 DEF DoorInv, PaceInv, T!TracesArePaced
  <1>3. CASE traced
    <2> SUFFICES ASSUME hides' = 0
                 PROVE  PaceInv' /\ T!TracesArePaced'
      BY DEF PaceInv, T!TracesArePaced
    <2>1. lastTraceAt' = [lastTraceAt EXCEPT ![cmd] = now + 1] /\ history' = h
      BY <1>3 DEF T!Record
    <2>2. T!Violation(cmd) \in Traces /\ T!Violation(cmd).cmd = cmd /\ T!Violation(cmd).at = now
      BY <1>1 DEF T!Violation, Traces
    <2>3. PICK d \in {0, 1} : /\ h \in Seq(Traces)
                              /\ Len(h) = Len(history) + 1 - d
                              /\ h[Len(h)] = T!Violation(cmd)
                              /\ \A k \in 1 .. Len(h) - 1 : h[k] = history[k + d]
      BY <2>2, HistoryGrows DEF DoorInv
    <2>4. /\ Throttle \in Nat /\ Throttle # 0
          /\ lastTraceAt[cmd] = 0 \/ now + 1 - lastTraceAt[cmd] >= Throttle
      BY <1>1, <1>3 DEF T!Throttled, T!TransportAssumption
    <2> HIDE DEF h, traced, cmd
    <2>5. /\ Len(history) \in Nat /\ DOMAIN history = 1 .. Len(history)
          /\ \A k \in 1 .. Len(history) : history[k].at \in Nat /\ history[k].cmd \in IpcCommands
      <3>1. history \in Seq(Traces)
        BY DEF DoorInv, ClockInv
      <3>2. \A v \in Traces : v.at \in Nat /\ v.cmd \in IpcCommands
        BY DEF Traces
      <3> QED
        BY <3>1, <3>2
    <2>6. /\ \A k \in 1 .. Len(history) : history[k].at < lastTraceAt[history[k].cmd]
          /\ \A j, k \in 1 .. Len(history) :
               (j < k /\ history[j].cmd = history[k].cmd)
                  => history[k].at - history[j].at >= Throttle
      BY <2>5 DEF DoorInv, PaceInv, T!TracesArePaced
    <2>7. \A k \in 1 .. Len(history) : history[k].cmd = cmd => now - history[k].at >= Throttle
      BY <1>1, <2>4, <2>5, <2>6
    <2>8. DOMAIN h = 1 .. Len(h) /\ Len(h) \in Nat
      BY <2>3
    <2>9. ASSUME NEW k \in 1 .. Len(h) - 1
           PROVE  k \in Nat /\ k + d \in 1 .. Len(history) /\ h[k] = history[k + d]
      <3>1. Len(h) = Len(history) + 1 - d /\ d \in {0, 1}
        BY <2>3
      <3>2. k \in Nat /\ k + d \in 1 .. Len(history)
        BY <2>5, <2>8, <3>1
      <3> QED
        BY <2>3, <3>2
    <2>10. \A m \in Nat : \A k \in 1 .. m : k # m => k \in 1 .. m - 1
      OBVIOUS
    <2>11. PaceInv'
      <3> SUFFICES ASSUME NEW k \in 1 .. Len(h)
                   PROVE  h[k].at < lastTraceAt'[h[k].cmd]
        BY <2>1, <2>8 DEF PaceInv
      <3>1. CASE k = Len(h)
        BY <1>1, <2>1, <2>2, <2>3, <3>1
      <3>2. CASE k # Len(h)
        <4>1. k + d \in 1 .. Len(history) /\ h[k] = history[k + d]
          <5>1. k \in 1 .. Len(h) - 1
            BY <2>10, <2>8, <3>2
          <5> QED
            BY <2>9, <5>1
        <4>2. /\ h[k].at \in Nat /\ h[k].cmd \in IpcCommands /\ h[k].at < lastTraceAt[h[k].cmd]
              /\ h[k].cmd = cmd => now - h[k].at >= Throttle
          BY <2>5, <2>6, <2>7, <4>1
        <4> QED
          BY <1>1, <2>1, <2>4, <4>2
      <3> QED
        BY <3>1, <3>2
    <2>12. T!TracesArePaced'
      <3> SUFFICES ASSUME NEW j \in 1 .. Len(h), NEW k \in 1 .. Len(h), j < k, h[j].cmd = h[k].cmd
                   PROVE  h[k].at - h[j].at >= Throttle
        BY <2>1, <2>8 DEF T!TracesArePaced
      <3>1. j \in Nat /\ j \in 1 .. Len(h) - 1
        BY <2>8
      <3>2. j + d \in 1 .. Len(history) /\ h[j] = history[j + d]
        BY <2>9, <3>1
      <3>3. CASE k = Len(h)
        BY <2>2, <2>3, <2>7, <3>1, <3>2, <3>3
      <3>4. CASE k # Len(h)
        <4>1. k \in 1 .. Len(h) - 1
          BY <2>10, <2>8, <3>4
        <4>2. k \in Nat /\ k + d \in 1 .. Len(history) /\ h[k] = history[k + d]
          BY <2>9, <4>1
        <4>3. j + d < k + d
          BY <3>1, <4>2
        <4> QED
          BY <2>6, <3>2, <4>2, <4>3
      <3> QED
        BY <3>3, <3>4
    <2> QED
      BY <2>11, <2>12
  <1> QED
    BY <1>2, <1>3

\* The calls after one of them has been settled.
LEMMA SettledIsTold ==
  ASSUME CallsInv, NEW i \in DOMAIN calls, T!Waiting(i)
  PROVE  /\ \A got \in {"value", "thrown"} :
              T!Settled(i, got) \in ToldCalls /\ T!Settled(i, got).got = got
         /\ [T!Settled(i, "null") EXCEPT !.toast = ~calls[i].quiet] \in ToldCalls
  <1>1. PICK c \in ToldCalls : c = calls[i]
    BY DEF CallsInv
  <1>2. c \in CallRecord /\ Told(c) /\ c.got = "none"
    BY <1>1 DEF ToldCalls, T!Waiting
  <1>3. ASSUME NEW got \in {"value", "thrown"}
        PROVE  T!Settled(i, got) \in ToldCalls /\ T!Settled(i, got).got = got
    <2> DEFINE d == [c EXCEPT !.got = got]
    <2>1. d \in CallRecord /\ d.got = got /\ d.toast = c.toast
      BY <1>2 DEF CallRecord
    <2>2. d = T!Settled(i, got)
      BY <1>1 DEF T!Settled
    <2> HIDE DEF d
    <2>3. Told(d)
      BY <1>2, <1>3, <2>1 DEF Told
    <2> QED
      BY <2>1, <2>2, <2>3 DEF ToldCalls
  <1>4. [T!Settled(i, "null") EXCEPT !.toast = ~calls[i].quiet] \in ToldCalls
    <2>1. PICK got \in {"none", "value", "null", "thrown"} : got = "null"
      OBVIOUS
    <2>2. c.quiet \in BOOLEAN
      BY <1>2 DEF CallRecord
    <2>3. PICK t \in BOOLEAN : t = ~c.quiet
      BY <2>2
    <2> DEFINE d == [[c EXCEPT !.got = got] EXCEPT !.toast = t]
    <2>4. /\ d \in CallRecord /\ d.got = got /\ d.toast = t
          /\ d.quiet = c.quiet
      BY <1>2 DEF CallRecord
    <2>5. d = [T!Settled(i, "null") EXCEPT !.toast = ~calls[i].quiet]
      BY <1>1, <2>1, <2>3 DEF T!Settled
    <2> HIDE DEF d
    <2>6. Told(d)
      BY <2>1, <2>2, <2>3, <2>4 DEF Told
    <2> QED
      BY <2>4, <2>5, <2>6 DEF ToldCalls
  <1> QED
    BY <1>3, <1>4

\* The statistics alone do not change the calls.
LEMMA RecordKeeps ==
  ASSUME T!TransportAssumption, DoorInv, NEW i \in DOMAIN calls, NEW n \in {1, 2},
         NEW s \in ToldCalls, T!Record(i, n, s), UNCHANGED <<now, hides>>
  PROVE  DoorInv'
  <1>1. CallsInv' /\ CountsInv' /\ ClockInv'
    BY CountsKeep DEF DoorInv
  <1>2. PaceInv' /\ T!TracesArePaced'
    BY PaceKeeps
  <1> QED
    BY <1>1, <1>2 DEF DoorInv

\* Every step of the door tells once, counts all and keeps the pace.
LEMMA DoorStep ==
  ASSUME T!TransportAssumption, DoorInv, [T!Next]_T!vars
  PROVE  DoorInv'
  <1>1. ASSUME NEW i \in DOMAIN calls, NEW answer \in T!Answers, T!Respond(i, answer)
        PROVE  DoorInv'
    <2>1. T!Waiting(i) /\ UNCHANGED <<now, hides>> /\ CallsInv
      BY <1>1 DEF T!Respond, DoorInv
    <2>2. \E n \in {1, 2}, s \in ToldCalls : T!Record(i, n, s)
      <3>1. CASE \E n \in {1, 2}, got \in {"value", "thrown"} :
                   T!Record(i, n, T!Settled(i, got))
        BY <2>1, <3>1, SettledIsTold
      <3>2. CASE T!Record(i, 1, [T!Settled(i, "null") EXCEPT !.toast = ~calls[i].quiet])
        BY <2>1, <3>2, SettledIsTold
      <3> QED
        BY <1>1, <3>1, <3>2 DEF T!Respond
    <2> QED
      BY <2>1, <2>2, RecordKeeps
  <1>2. ASSUME NEW i \in DOMAIN calls, T!GiveUp(i)
        PROVE  DoorInv'
    <2>1. T!Waiting(i) /\ UNCHANGED <<now, hides>> /\ CallsInv
      BY <1>2 DEF T!GiveUp, T!TimedOut, DoorInv
    <2>2. T!Settled(i, "thrown") \in ToldCalls /\ T!Record(i, 1, T!Settled(i, "thrown"))
      BY <1>2, <2>1, SettledIsTold DEF T!GiveUp
    <2> QED
      BY <2>1, <2>2, RecordKeeps
  <1>3. CASE T!PageHide
    <2>1. /\ UNCHANGED <<now, calls, callCount, violationCount, history>>
          /\ lastTraceAt' = [c \in IpcCommands |-> 0] /\ hides' = hides + 1
      BY <1>3 DEF T!PageHide
    <2>2. ClockInv' /\ hides' # 0
      BY <2>1 DEF DoorInv, ClockInv
    <2>3. CallsInv' /\ CountsInv'
      BY <2>1 DEF DoorInv, CallsInv, CountsInv, T!Finished
    <2> QED
      BY <2>2, <2>3 DEF DoorInv, PaceInv, T!TracesArePaced
  <1>4. CASE T!Tick \/ UNCHANGED T!vars
    <2>1. /\ UNCHANGED <<calls, callCount, violationCount, lastTraceAt, history, hides>>
          /\ now' = now + 1 \/ now' = now
      BY <1>4 DEF T!Tick, T!vars
    <2>2. ClockInv'
      BY <2>1 DEF DoorInv, ClockInv
    <2>3. CallsInv' /\ CountsInv' /\ PaceInv' /\ T!TracesArePaced'
      BY <2>1 DEF DoorInv, CallsInv, CountsInv, PaceInv, T!TracesArePaced, T!Finished
    <2> QED
      BY <2>2, <2>3 DEF DoorInv
  <1> QED
    BY <1>1, <1>2, <1>3, <1>4, AskKeeps DEF T!Next

(* A failed call is told to the user once, a command is traced at most once   *)
(* in a throttle window while the page is shown, and no call that ended is    *)
(* missing from the counts, for any budgets, timeouts and orders of the       *)
(* answers (transport.ts).                                                    *)
THEOREM DoorReportsAndCounts ==
  ASSUME T!TransportAssumption
  PROVE  T!Spec => [](T!ReportedOnce /\ T!TracesArePaced /\ T!StatsCoverCalls)
  <1>1. T!Init => DoorInv
    <2> SUFFICES ASSUME T!Init
                 PROVE  DoorInv
      OBVIOUS
    <2>1. /\ now = 0 /\ calls = <<>> /\ callCount = 0 /\ violationCount = 0
          /\ lastTraceAt = [c \in IpcCommands |-> 0] /\ history = <<>> /\ hides = 0
      BY DEF T!Init
    <2>2. PICK e \in Seq(ToldCalls) : e = <<>>
      <3>1. <<>> \in Seq(ToldCalls)
        OBVIOUS
      <3> QED
        BY <3>1
    <2>3. PICK g \in Seq(Traces) : g = <<>>
      <3>1. <<>> \in Seq(Traces)
        OBVIOUS
      <3> QED
        BY <3>1
    <2>4. CallsInv /\ ClockInv /\ DOMAIN calls = {} /\ DOMAIN history = {}
      BY <2>1, <2>2, <2>3 DEF CallsInv, ClockInv
    <2>5. T!Finished = {}
      BY <2>4 DEF T!Finished
    <2>6. CountsInv
      BY <2>1, <2>5, FS_EmptySet DEF CountsInv
    <2>7. PaceInv /\ T!TracesArePaced
      BY <2>4 DEF PaceInv, T!TracesArePaced
    <2> QED
      BY <2>4, <2>6, <2>7 DEF DoorInv
  <1>2. DoorInv => T!ReportedOnce /\ T!TracesArePaced /\ T!StatsCoverCalls
    <2>1. ASSUME CallsInv PROVE T!ReportedOnce
      <3>1. \A i \in DOMAIN calls : Told(calls[i])
        BY <2>1 DEF CallsInv, ToldCalls
      <3> QED
        BY <3>1 DEF Told, T!ReportedOnce
    <2> QED
      BY <2>1, StatsAreCovered DEF DoorInv
  <1> QED
    BY <1>1, <1>2, DoorStep, PTL DEF T!Spec

-----------------------------------------------------------------------------
(* The rows that the keys act on. *)

HitInv(Found) == /\ found \in Seq(Found)
                 /\ found # <<>> => activeHit \in Nat /\ activeHit < Len(found)

\* A new list marks its first row.
LEMMA ShowsAtTheTop ==
  ASSUME NEW Found, NEW hits \in Seq(Found), Q!Shows(hits)
  PROVE  HitInv(Found)'
  BY DEF Q!Shows, HitInv

\* Every step keeps the marked hit within the results.
LEMMA HitStep ==
  ASSUME NEW Found, Hits \subseteq Seq(Found), HitInv(Found), [Q!Next]_Q!searchVars
  PROVE  HitInv(Found)'
  <1> DEFINE none == <<>>
  <1>1. none \in Seq(Found)
    OBVIOUS
  <1>2. CASE Q!Shows(none)
    BY <1>1, <1>2, ShowsAtTheTop
  <1>3. ASSUME Q!Fresh PROVE HitInv(Found)'
    <2>1. found' = none /\ activeHit' = 0
      BY <1>3 DEF Q!Fresh
    <2> QED
      BY <1>1, <2>1 DEF HitInv
  <1>4. CASE UNCHANGED <<found, activeHit>>
    BY <1>4 DEF HitInv
  <1> HIDE DEF none
  <1>5. ASSUME NEW q, Q!SetQuery(q) PROVE HitInv(Found)'
    <2>1. Q!Shows(none) \/ UNCHANGED <<found, activeHit>>
      BY <1>5 DEF Q!SetQuery, Q!Empties, Q!Waits, none
    <2> QED
      BY <1>2, <1>4, <2>1
  <1>6. ASSUME NEW t, Q!Answer(t) PROVE HitInv(Found)'
    <2>1. \/ \E hits \in Hits : Q!Shows(hits)
          \/ Q!Shows(none)
          \/ UNCHANGED <<found, activeHit>>
      BY <1>6 DEF Q!Answer, Q!Commits, none
    <2> QED
      BY <1>2, <1>4, <2>1, ShowsAtTheTop
  <1>7. ASSUME NEW i \in Int, Q!Moves(i), found # <<>> => i \in Nat /\ i < Len(found)
        PROVE  HitInv(Found)'
    BY <1>7 DEF Q!Moves, HitInv
  <1>8. CASE Q!Down \/ Q!Up
    <2>1. CASE found = <<>>
      <3>1. UNCHANGED found
        BY <1>8 DEF Q!Down, Q!Up, Q!Moves
      <3> QED
        BY <2>1, <3>1 DEF HitInv
    <2>2. CASE found # <<>>
      <3>1. activeHit \in Nat /\ activeHit < Len(found) /\ Len(found) \in Nat
        BY <2>2 DEF HitInv
      <3>2. CASE Q!Down
        <4>1. /\ Q!AtMost(activeHit + 1, Len(found) - 1) \in Nat
              /\ Q!AtMost(activeHit + 1, Len(found) - 1) < Len(found)
          BY <3>1 DEF Q!AtMost
        <4> QED
          BY <1>7, <3>2, <4>1 DEF Q!Down
      <3>3. CASE Q!Up
        BY <1>7, <3>1, <3>3 DEF Q!Up
      <3> QED
        BY <1>8, <3>2, <3>3
    <2> QED
      BY <2>1, <2>2
  <1>9. ASSUME NEW i \in DOMAIN found, Q!Hover(i) PROVE HitInv(Found)'
    <2>1. i \in 1 .. Len(found) /\ Len(found) \in Nat
      BY DEF HitInv
    <2> QED
      BY <1>7, <1>9, <2>1 DEF Q!Hover
  <1>10. CASE Q!OpenSearch \/ Q!Dismiss \/ Q!Enter \/ \E i \in DOMAIN found : Q!Click(i)
    BY <1>3, <1>10
       DEF Q!OpenSearch, Q!Dismiss, Q!Leave, Q!Enter, Q!Click, Q!Select
  <1>11. CASE \/ Q!ClearRecent \/ UNCHANGED Q!searchVars
              \/ \E t \in pausing : Q!Pause(t)
    BY <1>4, <1>11 DEF Q!ClearRecent, Q!searchVars, Q!Pause
  <1> QED
    BY <1>5, <1>6, <1>8, <1>9, <1>10, <1>11 DEF Q!Next, Q!PickRecent

(* While there are results the row that Enter opens is one of them, whatever  *)
(* list came in and whatever was pressed before.  It takes only that the      *)
(* answers are lists.                                                         *)
THEOREM EnterOpensAResult ==
  ASSUME NEW Found, Hits \subseteq Seq(Found)
  PROVE  Q!Spec => []Q!RowIsAResult
  <1>1. Q!Init => HitInv(Found)
    <2> DEFINE none == <<>>
    <2>1. none \in Seq(Found)
      OBVIOUS
    <2>2. ASSUME Q!Init PROVE found = none
      BY <2>2 DEF Q!Init
    <2> QED
      BY <2>1, <2>2 DEF HitInv
  <1>2. HitInv(Found) => Q!RowIsAResult
    BY DEF HitInv, Q!RowIsAResult
  <1> QED
    BY <1>1, <1>2, HitStep, PTL DEF Q!Spec

-----------------------------------------------------------------------------
(* The selector of models. *)

PickerInv == /\ pickerList \in Seq(Offered) /\ pickerOpen \in BOOLEAN /\ row \in Int
             /\ K!RowIsOfTheList

\* The row that a list opens at is one of its rows.
LEMMA RowOfIsARow ==
  ASSUME NEW list \in Seq(Offered), NEW m
  PROVE  K!RowOf(list, m) \in 0 .. Len(list) - 1
         \/ (K!RowOf(list, m) = -1 /\ list = <<>>)
  <1>1. Len(list) \in Nat /\ DOMAIN list = 1 .. Len(list)
    OBVIOUS
  <1>2. CASE \E i \in DOMAIN list : list[i] = m
    <2>1. PICK i \in DOMAIN list : i = CHOOSE j \in DOMAIN list : list[j] = m
      BY <1>2
    <2> QED
      BY <1>1, <1>2, <2>1 DEF K!RowOf
  <1>3. CASE ~\E i \in DOMAIN list : list[i] = m
    <2>1. CASE list = <<>>
      BY <1>3, <2>1 DEF K!RowOf
    <2>2. CASE list # <<>>
      <3>1. Len(list) # 0
        BY <2>2
      <3> QED
        BY <1>1, <1>3, <2>2, <3>1 DEF K!RowOf
    <2> QED
      BY <2>1, <2>2
  <1> QED
    BY <1>2, <1>3

\* A new list moves the marked row into it.
LEMMA SettlesKeeps ==
  ASSUME pickerList' \in Seq(Offered), pickerOpen' \in BOOLEAN, K!Settles
  PROVE  PickerInv'
  <1> DEFINE r == K!RowOf(pickerList', picked')
  <1>1. r \in 0 .. Len(pickerList') - 1 \/ (r = -1 /\ pickerList' = <<>>)
    BY RowOfIsARow
  <1>2. Len(pickerList') \in Nat
    OBVIOUS
  <1>3. r \in Int
    BY <1>1, <1>2
  <1>4. row' = (IF pickerOpen' THEN r ELSE -1) /\ matching' = Offered
    BY DEF K!Settles
  <1> HIDE DEF r
  <1>5. row' \in Int
    BY <1>3, <1>4
  <1>6. K!RowIsOfTheList'
    BY <1>1, <1>4 DEF K!RowIsOfTheList, K!Rows
  <1> QED
    BY <1>5, <1>6 DEF PickerInv

\* The arrows stay within the list.
LEMMA MovesKeeps ==
  ASSUME PickerInv, pickerOpen, NEW i \in Int, UNCHANGED pickerList,
         row' = i, UNCHANGED pickerOpen,
         i \in K!Rows \/ (i = -1 /\ pickerList = <<>>)
  PROVE  PickerInv'
  BY DEF PickerInv, K!RowIsOfTheList, K!Rows

\* Every step of the selector keeps the marked row in the list.
LEMMA PickerStep ==
  ASSUME K!PickerAssumption, PickerInv, [K!Next]_K!pickerVars
  PROVE  PickerInv'
  <1>1. /\ Len(pickerList) \in Nat /\ DOMAIN pickerList = 1 .. Len(pickerList)
        /\ (pickerList = <<>> <=> Len(pickerList) = 0)
    BY DEF PickerInv
  <1>2. pickerOpen => row \in K!Rows \/ (row = -1 /\ pickerList = <<>>)
    BY DEF PickerInv, K!RowIsOfTheList
  <1>3. CASE K!Opens /\ UNCHANGED pickerList
    BY <1>3, SettlesKeeps DEF K!Opens, PickerInv
  <1>4. CASE K!Closes /\ UNCHANGED pickerList
    BY <1>4, SettlesKeeps DEF K!Closes, PickerInv
  <1>5. ASSUME NEW delta \in {-1, 1}
        PROVE  /\ K!NextRow(row, delta) \in Int
               /\ \/ K!NextRow(row, delta) \in K!Rows
                  \/ K!NextRow(row, delta) = -1 /\ pickerList = <<>>
    <2>1. row \in Int
      BY DEF PickerInv
    <2>2. CASE pickerList = <<>>
      BY <1>1, <2>2 DEF K!NextRow
    <2>3. CASE pickerList # <<>>
      <3> DEFINE n == Len(pickerList)
                 base == IF row < 0 THEN IF delta > 0 THEN -1 ELSE n ELSE row
      <3>1. n \in Nat /\ n # 0
        BY <1>1, <2>3
      <3>2. K!NextRow(row, delta) = (base + delta + n) % n
        BY <3>1 DEF K!NextRow
      <3>3. base + delta + n \in Int
        BY <2>1, <3>1
      <3>4. \A x \in Int, m \in Nat \ {0} : x % m \in 0 .. m - 1
        OBVIOUS
      <3> HIDE DEF base
      <3>5. K!NextRow(row, delta) \in 0 .. n - 1
        BY <3>1, <3>2, <3>3, <3>4
      <3> QED
        BY <3>1, <3>5 DEF K!Rows
    <2> QED
      BY <2>2, <2>3
  <1>6. CASE K!Arrow
    BY <1>3, <1>5, <1>6, MovesKeeps DEF K!Arrow, K!Key, K!MovesTo
  <1>7. CASE K!Jump
    <2>1. CASE pickerOpen
      <3>1. \E i \in {row, 0, Len(pickerList) - 1} :
              /\ K!MovesTo(i)
              /\ i \in K!Rows \/ (i = -1 /\ pickerList = <<>>)
        BY <1>1, <1>2, <1>7, <2>1 DEF K!Jump, K!Rows
      <3>2. \A i \in {row, 0, Len(pickerList) - 1} : i \in Int
        <4>1. row \in Int /\ 0 \in Int /\ Len(pickerList) - 1 \in Int
          BY <1>1 DEF PickerInv
        <4> QED
          BY <4>1
      <3>3. UNCHANGED pickerList
        BY <1>7 DEF K!Jump, K!Key
      <3> QED
        BY <2>1, <3>1, <3>2, <3>3, MovesKeeps DEF K!MovesTo
    <2>2. CASE ~pickerOpen
      BY <1>3, <1>7, <2>2 DEF K!Jump, K!Key
    <2> QED
      BY <2>1, <2>2
  <1>8. CASE K!TypeAhead
    <2>1. CASE pickerOpen
      <3>1. PICK i \in K!Rows \union {row} : K!MovesTo(i)
        BY <1>8, <2>1 DEF K!TypeAhead
      <3>2. i \in Int /\ (i \in K!Rows \/ (i = -1 /\ pickerList = <<>>))
        BY <1>1, <1>2, <2>1 DEF K!Rows, PickerInv
      <3> QED
        BY <1>8, <2>1, <3>1, <3>2, MovesKeeps DEF K!MovesTo, K!TypeAhead, K!Key
    <2>2. CASE ~pickerOpen
      BY <1>3, <1>8, <2>2 DEF K!TypeAhead, K!Key
    <2> QED
      BY <2>1, <2>2
  <1>9. CASE K!Enter
    BY <1>9, SettlesKeeps DEF K!Enter, K!Key, PickerInv
  <1>10. CASE K!Escape \/ K!Tab \/ K!Click \/ K!ClickOutside
    BY <1>3, <1>4, <1>10 DEF K!Escape, K!Key, K!Tab, K!Click, K!ClickOutside
  <1>11. ASSUME NEW i \in K!Rows, K!Hover(i) PROVE PickerInv'
    <2>1. i \in Int
      BY <1>1 DEF K!Rows
    <2> QED
      BY <1>11, <2>1, MovesKeeps DEF K!Hover, K!MovesTo
  <1>12. ASSUME NEW i \in K!Rows, K!ClickRow(i) PROVE PickerInv'
    BY <1>12, SettlesKeeps DEF K!ClickRow, PickerInv
  <1>13. ASSUME NEW list \in PickerLists, K!ListComes(list) PROVE PickerInv'
    BY <1>13, SettlesKeeps DEF K!ListComes, PickerInv, K!PickerAssumption
  <1>14. ASSUME NEW set, K!Search(set) PROVE PickerInv'
    BY <1>14 DEF K!Search, PickerInv, K!RowIsOfTheList, K!Rows
  <1>15. CASE K!Return \/ UNCHANGED K!pickerVars
    BY <1>15 DEF K!Return, K!pickerVars, PickerInv, K!RowIsOfTheList, K!Rows
  <1> QED
    BY <1>6, <1>7, <1>8, <1>9, <1>10, <1>11, <1>12, <1>13, <1>14, <1>15 DEF K!Next

(* The marked row of the selector of models is one of the list on the screen  *)
(* whatever list has come; a closed selector has none and no search.          *)
THEOREM ActiveRowIsOfTheList ==
  ASSUME K!PickerAssumption
  PROVE  K!Spec => []K!RowIsOfTheList
  <1>1. K!Init => PickerInv
    <2> SUFFICES ASSUME K!Init
                 PROVE  PickerInv
      OBVIOUS
    <2>1. pickerList \in Seq(Offered)
      BY DEF K!Init, K!PickerAssumption
    <2>2. pickerOpen = FALSE /\ row = -1 /\ matching = Offered
      BY DEF K!Init
    <2>3. pickerOpen \in BOOLEAN /\ ~pickerOpen
      BY <2>2
    <2>4. row \in Int
      BY <2>2
    <2>5. K!RowIsOfTheList
      BY <2>2, <2>3 DEF K!RowIsOfTheList
    <2> QED
      BY <2>1, <2>3, <2>4, <2>5 DEF PickerInv
  <1>2. PickerInv => K!RowIsOfTheList
    BY DEF PickerInv
  <1> QED
    BY <1>1, <1>2, PickerStep, PTL DEF K!Spec

-----------------------------------------------------------------------------
(* What passed the gates of a push. *)

\* What the shape of the tree has to do with what the gates say.
Tree(r) == /\ {"uses", "code"} \subseteq DOMAIN r
           /\ r.uses \in [Features -> SUBSET G!Methods]
           /\ \A x \in r.code : x.kind \in G!Kinds
GatesInv == Tree(repo) /\ (clean => G!Gates)

\* The tree of the repository, and every tree that is wired like it, passes.
LEMMA WiredPasses ==
  ASSUME NEW S \in SUBSET Cmds, repo = G!Wired(S)
  PROVE  Tree(repo) /\ G!Gates
  <1> DEFINE rustDef == G!RustDef({G!Arg("base_url", G!Plain("String"))}, G!Plain("RagProject"),
                                  TRUE, "RagService")
             tsDef == G!TsDef({G!Arg("baseUrl", G!Plain("string"))}, G!Plain("RagProject"))
  <1>1. /\ \A c \in Cmds : repo.rust[c] = IF c \in S THEN rustDef ELSE G!Absent
        /\ \A c \in Cmds : repo.tsMap[c] = IF c \in S THEN tsDef ELSE G!Absent
    BY DEF G!Wired
  <1>2. /\ repo.versions = S /\ repo.budgets = S /\ repo.registered = S
        /\ repo.managed = {"RagService"} /\ repo.capability = {"allow-rag"}
    BY DEF G!Wired
  <1>3. /\ repo.imports = {} /\ repo.code = {} /\ repo.en = {} /\ repo.ar = {}
        /\ repo.deps = repo.generated
        /\ \A f \in Features : /\ repo.uses[f] = {"ragApi.search"} /\ repo.endpoints[f] = S
                               /\ repo.publicApi[f] = {} /\ repo.schemas[f] = repo.stores[f]
    BY DEF G!Wired
  <1>4. /\ repo.uses = [f \in Features |-> {"ragApi.search"}]
        /\ repo.api = [m \in G!Methods |-> IF m = "ragApi.search" THEN S ELSE {}]
    BY DEF G!Wired
  <1>5. /\ repo.permits["rag.toml"] = [id |-> "allow-rag", cmds |-> S]
        /\ repo.permits["chat.toml"] = [id |-> "allow-chat", cmds |-> {}]
    BY DEF G!Wired, G!PermitFiles
  <1>6. /\ \A n \in G!GeneratedLimits : repo.limits[n] = "0"
        /\ repo.rustLimits = [n \in G!GeneratedLimits |-> "0"]
    BY DEF G!Wired, G!Limits, G!GeneratedLimits
  <1>7. rustDef.present /\ tsDef.present /\ ~G!Absent.present
    BY DEF G!RustDef, G!TsDef, G!Absent
  <1>8. Tree(repo)
    <2>1. {"uses", "code"} \subseteq DOMAIN repo
      BY DEF G!Wired
    <2> QED
      BY <1>3, <1>4, <2>1 DEF Tree, G!Methods
  <1>9. G!InRust = S /\ G!InTs = S
    BY <1>1, <1>7 DEF G!InRust, G!InTs
  <1>10. G!StrictContracts
    <2> DEFINE a == G!Arg("base_url", G!Plain("String"))
               b == G!Arg("baseUrl", G!Plain("string"))
    <2>1. /\ rustDef.args = {a} /\ rustDef.wrapped /\ rustDef.state = "RagService"
          /\ rustDef.ret = G!Plain("RagProject")
          /\ tsDef.args = {b} /\ tsDef.ret = G!Plain("RagProject")
      BY DEF G!RustDef, G!TsDef
    <2>2. a.name = "base_url" /\ b.name = "baseUrl" /\ G!Camel["base_url"] = "baseUrl"
      BY DEF G!Arg, G!Camel
    <2>3. G!EquivalentType(a.type, b.type)
      BY DEF G!Arg, G!EquivalentType, G!Plain, G!AtomicInRust, G!AtomicInTs, G!RustAtomicToTs
    <2>4. G!EquivalentType(G!Plain("RagProject"), G!Plain("RagProject"))
      BY DEF G!EquivalentType, G!Plain, G!AtomicInRust, G!AtomicInTs
    <2>5. G!Cardinality({a}) = G!Cardinality({b})
      <3>1. \A X : G!Cardinality(X) = Cardinality(X)
        BY DEF G!Cardinality, Cardinality
      <3> HIDE DEF a, b
      <3>2. Cardinality({a}) = 1 /\ Cardinality({b}) = 1
        BY FS_Singleton
      <3> QED
        BY <3>1, <3>2
    <2> HIDE DEF a, b, rustDef, tsDef
    <2>6. G!Counterpart(a, {b}) = b
      BY <2>2 DEF G!Counterpart, G!Names
    <2>7. G!StrictCommand(rustDef, tsDef)
      BY <2>1, <2>2, <2>3, <2>4, <2>6 DEF G!StrictCommand, G!SameName
    <2>8. G!BaselineContracts
      BY <1>1, <1>2, <1>9, <2>1, <2>5 DEF G!BaselineContracts, G!StatesAreManaged
    <2> QED
      BY <1>1, <1>9, <2>7, <2>8 DEF G!StrictContracts
  <1>11. G!AclGate
    BY <1>2, <1>5 DEF G!AclGate, G!PermitFiles, G!IsIdentified
  <1>12. G!ManifestGate
    <2>1. \A f \in Features : G!Used(f) = S
      BY <1>3, <1>4 DEF G!Used, G!Methods
    <2> QED
      BY <1>3, <2>1 DEF G!ManifestGate, G!VersionsMatch, G!PublicApiHolds, G!IpcDrift
  <1>13. G!LimitsGate /\ G!DepsGate /\ G!LocaleGate /\ G!ArchitectureGate /\ G!LintGate
    <2>1. G!CanGenerate
      BY <1>6 DEF G!CanGenerate, G!Undefined
    <2>2. repo.rustLimits = G!GenerateLimits
      BY <1>6 DEF G!GenerateLimits
    <2> QED
      BY <1>3, <2>1, <2>2 DEF G!LimitsGate, G!DepsGate, G!GenerateDeps, G!LocaleGate, G!KeyParity,
         G!KeyNaming, G!ArchitectureGate, G!LintGate
  <1>14. G!CompilersGate
    BY <1>2, <1>4, <1>9 DEF G!CompilersGate, G!Methods
  <1> QED
    BY <1>8, <1>10, <1>11, <1>12, <1>13, <1>14 DEF G!Gates

\* A tree of the right shape that passes every gate is consistent.
LEMMA GatesAreEnough ==
  ASSUME G!GatesAssumption, Tree(repo), G!Gates
  PROVE  GatesLetNothingThrough
  <1>1. /\ G!InRust = G!InTs /\ \A c \in G!InRust : repo.rust[c].state \in repo.managed
        /\ \A c \in G!InRust : G!StrictCommand(repo.rust[c], repo.tsMap[c])
    BY DEF G!Gates, G!StrictContracts, G!BaselineContracts, G!StatesAreManaged
  <1>2. /\ repo.registered \subseteq G!InRust /\ repo.versions = G!InTs
        /\ UNION {repo.api[m] : m \in G!Methods} \subseteq G!InTs
        /\ repo.versions \subseteq repo.budgets
    BY DEF G!Gates, G!CompilersGate
  <1>3. G!RegisteredIsReachable
    <2> SUFFICES ASSUME NEW c \in repo.registered
                 PROVE  /\ repo.rust[c].present /\ repo.rust[c].wrapped
                        /\ repo.rust[c].state \in repo.managed
                        /\ \E p \in G!PermitFiles : G!IsIdentified(p) /\ c \in repo.permits[p].cmds
                        /\ repo.tsMap[c].present /\ G!SameArguments(repo.rust[c], repo.tsMap[c])
                        /\ c \in repo.versions \intersect repo.budgets
      BY DEF G!RegisteredIsReachable
    <2>1. c \in G!InRust /\ c \in G!InTs /\ repo.rust[c].present /\ repo.tsMap[c].present
      BY <1>1, <1>2 DEF G!InRust, G!InTs
    <2>2. \E p \in G!PermitFiles : G!IsIdentified(p) /\ c \in repo.permits[p].cmds
      BY DEF G!Gates, G!AclGate
    <2>3. G!StrictCommand(repo.rust[c], repo.tsMap[c])
      BY <1>1, <2>1
    <2>4. G!SameArguments(repo.rust[c], repo.tsMap[c])
      <3> SUFFICES ASSUME NEW a \in repo.rust[c].args
                   PROVE  \E b \in repo.tsMap[c].args :
                            /\ G!SameName(a.name, b.name)
                            /\ G!AtomicInRust(a.type) <=> G!AtomicInTs(b.type)
        BY DEF G!SameArguments
      <3> DEFINE args == repo.tsMap[c].args
                 b == G!Counterpart(a, args)
      <3>1. /\ \E d \in args : G!SameName(a.name, d.name)
            /\ G!EquivalentType(a.type, b.type)
        BY <2>3 DEF G!StrictCommand
      <3>2. b \in args /\ G!SameName(a.name, b.name)
        <4>1. CASE G!Camel[a.name] \in G!Names(args)
          <5>1. b = CHOOSE d \in args : d.name = G!Camel[a.name]
            BY <4>1 DEF G!Counterpart
          <5>2. \E d \in args : d.name = G!Camel[a.name]
            BY <4>1 DEF G!Names
          <5> QED
            BY <5>1, <5>2 DEF G!SameName
        <4>2. CASE G!Camel[a.name] \notin G!Names(args)
          <5>1. b = CHOOSE d \in args : d.name = a.name
            BY <4>2 DEF G!Counterpart
          <5>2. \E d \in args : d.name = a.name
            BY <3>1, <4>2 DEF G!Names, G!SameName
          <5> QED
            BY <5>1, <5>2 DEF G!SameName
        <4> QED
          BY <4>1, <4>2
      <3> HIDE DEF b
      <3>3. G!AtomicInRust(a.type) <=> G!AtomicInTs(b.type)
        BY <3>1 DEF G!EquivalentType
      <3> QED
        BY <3>2, <3>3
    <2> QED
      BY <1>1, <1>2, <2>1, <2>2, <2>3, <2>4 DEF G!StrictCommand
  <1>4. G!ManifestsTellTheTruth
    <2>1. ASSUME NEW f \in Features
          PROVE  /\ \A item \in repo.publicApi[f] :
                      \E e \in repo.exports[f] : e.name = item.name /\ e.from # "type"
                 /\ G!Used(f) \subseteq repo.endpoints[f] \union Shared
                 /\ repo.endpoints[f] \ Shared \subseteq G!Used(f) \intersect G!InRust
      <3>1. G!PublicApiHolds(f) /\ G!Used(f) \ Shared = repo.endpoints[f] \ Shared
        BY DEF G!Gates, G!ManifestGate, G!IpcDrift
      <3>2. G!Used(f) \subseteq G!InRust
        <4>1. repo.uses[f] \subseteq G!Methods
          BY DEF Tree
        <4> QED
          BY <1>1, <1>2, <4>1 DEF G!Used
      <3>3. \A item \in repo.publicApi[f] :
              \E e \in repo.exports[f] : e.name = item.name /\ e.from # "type"
        BY <3>1 DEF G!PublicApiHolds, G!IsExported, G!ExtractExports
      <3> QED
        BY <3>1, <3>2, <3>3
    <2>2. ASSUME NEW i \in repo.imports, i.from \in Features
          PROVE  i.to \in repo.deps[i.from]
      <3>1. G!AllowedImport(i) /\ repo.generated = repo.deps
        BY DEF G!Gates, G!ArchitectureGate, G!DepsGate, G!GenerateDeps
      <3>2. i.from # "layout"
        BY <2>2 DEF G!GatesAssumption, G!OtherPlaces
      <3>3. G!AllowedImport(i) => i.to \in repo.generated[i.from]
        BY <2>2, <3>2 DEF G!AllowedImport
      <3> QED
        BY <3>1, <3>3
    <2> QED
      BY <2>1, <2>2 DEF G!ManifestsTellTheTruth
  <1>5. G!CopiesAgree
    <2>1. /\ repo.rustLimits = [n \in G!GeneratedLimits |-> repo.limits[n]]
          /\ repo.en = repo.ar /\ repo.en \intersect G!BadKeys = {}
          /\ \A f \in Features : repo.schemas[f] # 0 => repo.schemas[f] = repo.stores[f]
      BY DEF G!Gates, G!LimitsGate, G!GenerateLimits, G!LocaleGate, G!KeyParity, G!KeyNaming,
             G!ManifestGate, G!VersionsMatch
    <2> QED
      BY <2>1 DEF G!CopiesAgree
  <1>6. G!OneDoor
    <2> SUFFICES ASSUME NEW x \in repo.code
                 PROVE  /\ x.what \in G!Restricted => x.kind # "source"
                        /\ x.what = G!ToastText => x.kind \in {"config", "test"}
      BY DEF G!OneDoor
    <2>1. x.kind \in G!Kinds /\ x.what \notin G!Banned(x.kind)
      BY DEF Tree, G!Gates, G!LintGate
    <2>2. /\ G!Restricted \union {G!ToastText} \subseteq G!Banned("source")
          /\ {G!ToastText} \subseteq G!Banned("ipcBarrel")
      BY DEF G!Banned
    <2> QED
      BY <2>1, <2>2 DEF G!Kinds
  <1> QED
    BY <1>3, <1>4, <1>5, <1>6 DEF GatesLetNothingThrough

\* An edit of any other artefact leaves these two as they are.
LEMMA EditKeeps ==
  ASSUME NEW r, Tree(r), G!Edit(r)
  PROVE  GatesInv'
  BY DEF G!Edit, GatesInv

\* Every edit and every push: clean is a commit whose tree passes the gates.
LEMMA GatesStep ==
  ASSUME GatesInv, [G!Next]_G!vars
  PROVE  GatesInv'
  <1>1. Tree(repo)
    BY DEF GatesInv
  <1>2. ASSUME NEW c, G!EditRust(c) \/ G!RemoveRust(c) PROVE GatesInv'
    <2>1. \E v : \/ G!Edit([repo EXCEPT !.rust[c] = v])
                 \/ G!Edit([repo EXCEPT !.rust[c].args = v])
                 \/ G!Edit([repo EXCEPT !.rust[c].ret = v])
                 \/ G!Edit([repo EXCEPT !.rust[c].wrapped = ~@])
                 \/ G!Edit([repo EXCEPT !.rust[c].state = v])
      BY <1>2 DEF G!EditRust, G!RemoveRust
    <2>2. ASSUME NEW v
          PROVE  /\ Tree([repo EXCEPT !.rust[c] = v])
                 /\ Tree([repo EXCEPT !.rust[c].args = v])
                 /\ Tree([repo EXCEPT !.rust[c].ret = v])
                 /\ Tree([repo EXCEPT !.rust[c].wrapped = ~@])
                 /\ Tree([repo EXCEPT !.rust[c].state = v])
      BY <1>1 DEF Tree
    <2> QED
      BY <2>1, <2>2, EditKeeps
  <1>3. ASSUME NEW c, G!EditCommandMap(c) \/ G!RemoveFromMap(c) PROVE GatesInv'
    <2>1. \E v : \/ G!Edit([repo EXCEPT !.tsMap[c] = v])
                 \/ G!Edit([repo EXCEPT !.tsMap[c].args = v])
                 \/ G!Edit([repo EXCEPT !.tsMap[c].ret = v])
      BY <1>3 DEF G!EditCommandMap, G!RemoveFromMap
    <2>2. ASSUME NEW v
          PROVE  /\ Tree([repo EXCEPT !.tsMap[c] = v])
                 /\ Tree([repo EXCEPT !.tsMap[c].args = v])
                 /\ Tree([repo EXCEPT !.tsMap[c].ret = v])
      BY <1>1 DEF Tree
    <2> QED
      BY <2>1, <2>2, EditKeeps
  <1>4. ASSUME NEW c, G!EditVersions(c) \/ G!EditHandler(c) \/ G!EditManaged(c)
                      \/ G!EditCapability(c) \/ G!EditLocale(c)
        PROVE  GatesInv'
    <2>1. \E v : \/ G!Edit([repo EXCEPT !.versions = v]) \/ G!Edit([repo EXCEPT !.budgets = v])
                 \/ G!Edit([repo EXCEPT !.registered = v]) \/ G!Edit([repo EXCEPT !.managed = v])
                 \/ G!Edit([repo EXCEPT !.capability = v])
                 \/ G!Edit([repo EXCEPT !.en = v]) \/ G!Edit([repo EXCEPT !.ar = v])
      BY <1>4 DEF G!EditVersions, G!EditHandler, G!EditManaged, G!EditCapability, G!EditLocale
    <2>2. ASSUME NEW v
          PROVE  /\ Tree([repo EXCEPT !.versions = v]) /\ Tree([repo EXCEPT !.budgets = v])
                 /\ Tree([repo EXCEPT !.registered = v]) /\ Tree([repo EXCEPT !.managed = v])
                 /\ Tree([repo EXCEPT !.capability = v])
                 /\ Tree([repo EXCEPT !.en = v]) /\ Tree([repo EXCEPT !.ar = v])
      BY <1>1 DEF Tree
    <2> QED
      BY <2>1, <2>2, EditKeeps
  <1>5. ASSUME NEW p, NEW c, G!EditPermits(p, c) PROVE GatesInv'
    <2>1. \E v : \/ G!Edit([repo EXCEPT !.permits[p].cmds = v])
                 \/ G!Edit([repo EXCEPT !.permits[p].id = v])
      BY <1>5 DEF G!EditPermits
    <2>2. ASSUME NEW v
          PROVE  /\ Tree([repo EXCEPT !.permits[p].cmds = v])
                 /\ Tree([repo EXCEPT !.permits[p].id = v])
      BY <1>1 DEF Tree
    <2> QED
      BY <2>1, <2>2, EditKeeps
  <1>6. ASSUME NEW x, NEW y, \/ G!EditApi(x, y) \/ G!EditEndpoints(x, y)
                             \/ G!EditDependencies(x, y) \/ G!EditPublicApi(x, y)
        PROVE  GatesInv'
    <2>1. \E v : \/ G!Edit([repo EXCEPT !.api[x] = v]) \/ G!Edit([repo EXCEPT !.endpoints[x] = v])
                 \/ G!Edit([repo EXCEPT !.deps[x] = v])
                 \/ G!Edit([repo EXCEPT !.publicApi[x] = v])
                 \/ G!Edit([repo EXCEPT !.exports[x] = v])
      BY <1>6 DEF G!EditApi, G!EditEndpoints, G!EditDependencies, G!EditPublicApi
    <2>2. ASSUME NEW v
          PROVE  /\ Tree([repo EXCEPT !.api[x] = v]) /\ Tree([repo EXCEPT !.endpoints[x] = v])
                 /\ Tree([repo EXCEPT !.deps[x] = v]) /\ Tree([repo EXCEPT !.publicApi[x] = v])
                 /\ Tree([repo EXCEPT !.exports[x] = v])
      BY <1>1 DEF Tree
    <2> QED
      BY <2>1, <2>2, EditKeeps
  <1>7. ASSUME NEW f \in Features, NEW m \in G!Methods, G!EditFeature(f, m) PROVE GatesInv'
    <2>1. G!Toggle(repo.uses[f], m) \in SUBSET G!Methods
      BY <1>1 DEF Tree, G!Toggle
    <2>2. Tree([repo EXCEPT !.uses[f] = G!Toggle(repo.uses[f], m)])
      BY <1>1, <2>1 DEF Tree
    <2> QED
      BY <1>7, <2>2, EditKeeps DEF G!EditFeature
  <1>8. ASSUME NEW kind \in G!Kinds, NEW what, G!EditCode(kind, what) PROVE GatesInv'
    <2>1. \A x \in G!Toggle(repo.code, [kind |-> kind, what |-> what]) : x.kind \in G!Kinds
      BY <1>1 DEF Tree, G!Toggle
    <2>2. Tree([repo EXCEPT !.code = G!Toggle(repo.code, [kind |-> kind, what |-> what])])
      BY <1>1, <2>1 DEF Tree
    <2> QED
      BY <1>8, <2>2, EditKeeps DEF G!EditCode
  <1>9. ASSUME NEW x, G!EditImports(x) \/ G!EditLimit(x) \/ G!EditSchema(x) \/ G!Codegen
        PROVE  GatesInv'
    <2>1. \E v : \/ G!Edit([repo EXCEPT !.imports = v]) \/ G!Edit([repo EXCEPT !.limits[x] = v])
                 \/ G!Edit([repo EXCEPT !.schemas[x] = v])
                 \/ G!Edit([repo EXCEPT !.stores[x] = 3 - @])
                 \/ G!Edit([repo EXCEPT !.rustLimits = v])
                 \/ G!Edit([repo EXCEPT !.generated = v])
      BY <1>9 DEF G!EditImports, G!EditLimit, G!EditSchema, G!Codegen
    <2>2. ASSUME NEW v
          PROVE  /\ Tree([repo EXCEPT !.imports = v]) /\ Tree([repo EXCEPT !.limits[x] = v])
                 /\ Tree([repo EXCEPT !.schemas[x] = v])
                 /\ Tree([repo EXCEPT !.stores[x] = 3 - @])
                 /\ Tree([repo EXCEPT !.rustLimits = v])
                 /\ Tree([repo EXCEPT !.generated = v])
      BY <1>1 DEF Tree
    <2> QED
      BY <2>1, <2>2, EditKeeps
  <1>10. CASE G!Push
    <2>1. G!Gates /\ repo' = repo
      BY <1>10 DEF G!Push
    <2>2. G!Gates'
      BY <2>1 DEF G!Gates, G!StrictContracts, G!BaselineContracts, G!StatesAreManaged, G!InRust,
         G!InTs, G!AclGate, G!IsIdentified, G!ManifestGate, G!VersionsMatch, G!PublicApiHolds,
         G!IsExported, G!ExtractExports, G!IpcDrift, G!Used, G!LimitsGate, G!CanGenerate,
         G!GenerateLimits, G!DepsGate, G!GenerateDeps, G!LocaleGate, G!KeyParity, G!KeyNaming,
         G!ArchitectureGate, G!AllowedImport, G!LintGate, G!CompilersGate
    <2> QED
      BY <2>1, <2>2 DEF GatesInv
  <1>11. CASE UNCHANGED G!vars
    <2>1. repo' = repo /\ clean' = clean
      BY <1>11 DEF G!vars
    <2>2. G!Gates' = G!Gates
      BY <2>1 DEF G!Gates, G!StrictContracts, G!BaselineContracts, G!StatesAreManaged, G!InRust,
         G!InTs, G!AclGate, G!IsIdentified, G!ManifestGate, G!VersionsMatch, G!PublicApiHolds,
         G!IsExported, G!ExtractExports, G!IpcDrift, G!Used, G!LimitsGate, G!CanGenerate,
         G!GenerateLimits, G!DepsGate, G!GenerateDeps, G!LocaleGate, G!KeyParity, G!KeyNaming,
         G!ArchitectureGate, G!AllowedImport, G!LintGate, G!CompilersGate
    <2> QED
      BY <2>1, <2>2 DEF GatesInv
  <1> QED
    BY <1>2, <1>3, <1>4, <1>5, <1>6, <1>7, <1>8, <1>9, <1>10, <1>11 DEF G!Next, G!EditCommand

(* What passed the gates of a push is consistent (commands, permissions,      *)
(* manifests, contracts, translations, imports), after any number of edits of *)
(* any artefact, the generated ones included: no single gate says so, the     *)
(* theorem composes them.                                                     *)
THEOREM PushedIsConsistent ==
  ASSUME G!GatesAssumption
  PROVE  G!Spec => []GatesLetNothingThrough
  <1>1. G!Init => GatesInv
    BY WiredPasses DEF G!Init, GatesInv
  <1>2. GatesInv => GatesLetNothingThrough
    <2>1. CASE clean
      BY <2>1, GatesAreEnough DEF GatesInv
    <2>2. CASE ~clean
      BY <2>2 DEF GatesLetNothingThrough, G!RegisteredIsReachable, G!ManifestsTellTheTruth,
         G!CopiesAgree, G!OneDoor
    <2> QED
      BY <2>1, <2>2
  <1> QED
    BY <1>1, <1>2, GatesStep, PTL DEF G!Spec

-----------------------------------------------------------------------------
(* The pulls of models. That an abort reaches a pull that runs alone does not *)
(* follow from itself: the pull that ends takes the handle of its model away, *)
(* and what it leaves behind is right only because no second pull of the      *)
(* model was left. So the invariant says of a model that never had two pulls  *)
(* that it has at most one unfinished pull, from its acceptance to the        *)
(* removal of its handle, and that this one has the handle or is cancelled.   *)

PullStates == P!Unfinished \union {"unused", "asked", "late", "over"}

\* The variables that the handles depend on.
PullShapes ==
    /\ pulls \in [1 .. MaxPulls -> [model : Models \union {NoModel}, cancelled : BOOLEAN,
                                    state : PullStates]]
    /\ pullHandle \in [Models -> 0 .. MaxPulls]
    /\ aborting \subseteq Models

\* A model that never had two pulls at a time has one at most.
OnePullAtMost ==
    \A m \in Models \ doubled : \A i, j \in P!Tasks(m, P!Unfinished) : i = j

\* And that one has the handle until its abort.
PullReachable ==
    \A m \in Models \ doubled : \A i \in P!Tasks(m, P!Unfinished) :
        pulls[i].cancelled \/ pullHandle[m] = i

PullsInv == PullShapes /\ P!HandlesAreOfTasks /\ OnePullAtMost /\ PullReachable

\* What a pull that moves to another state is then.
LEMMA PullMoveEffect ==
  ASSUME PullShapes, NEW i \in 1 .. MaxPulls, NEW state \in PullStates, P!Moves(i, state)
  PROVE  /\ pulls' \in [1 .. MaxPulls -> [model : Models \union {NoModel},
                                          cancelled : BOOLEAN, state : PullStates]]
         /\ \A j \in 1 .. MaxPulls : /\ pulls'[j].model = pulls[j].model
                                     /\ pulls'[j].cancelled = pulls[j].cancelled
                                     /\ pulls'[j].state = IF j = i THEN state ELSE pulls[j].state
  BY DEF PullShapes, P!Moves

\* A step that neither accepts a pull nor lets one go, by its end or by an
\* abort, keeps the invariant.
LEMMA QuietMove ==
  ASSUME PullsInv, UNCHANGED <<pullHandle, doubled>>, aborting' \subseteq Models,
         pulls' \in [1 .. MaxPulls -> [model : Models \union {NoModel},
                                       cancelled : BOOLEAN, state : PullStates]],
         \A j \in 1 .. MaxPulls :
           /\ pulls[j].cancelled => pulls'[j].cancelled
           /\ pulls'[j].state \in P!Unfinished <=> pulls[j].state \in P!Unfinished
           /\ pulls'[j].state \in P!Unfinished => pulls'[j].model = pulls[j].model
  PROVE  PullsInv'
  <1>1. \A m \in Models : P!Tasks(m, P!Unfinished)' = P!Tasks(m, P!Unfinished)
    BY DEF PullsInv, PullShapes, P!Tasks
  <1>2. PullShapes'
    BY DEF PullsInv, PullShapes
  <1>3. P!HandlesAreOfTasks'
    BY <1>1 DEF PullsInv, P!HandlesAreOfTasks
  <1>4. OnePullAtMost'
    BY <1>1 DEF PullsInv, OnePullAtMost
  <1>5. PullReachable'
    BY <1>1 DEF PullsInv, PullReachable, PullShapes, P!Tasks
  <1> QED
    BY <1>2, <1>3, <1>4, <1>5 DEF PullsInv

\* The steps that leave the pulls and the handles alone.
LEMMA SameKeeps ==
  ASSUME PullsInv, UNCHANGED <<pulls, pullHandle, doubled>>, aborting' \subseteq Models
  PROVE  PullsInv'
  <1>1. pulls' \in [1 .. MaxPulls -> [model : Models \union {NoModel}, cancelled : BOOLEAN,
                                     state : PullStates]]
    BY DEF PullsInv, PullShapes
  <1> QED
    BY <1>1, QuietMove

LEMMA PullKeeps ==
  ASSUME PullsInv, NEW i \in DOMAIN pulls, NEW m \in Models, P!Pull(i, m)
  PROVE  PullsInv'
  <1>1. PullShapes /\ i \in 1 .. MaxPulls /\ pulls[i].state = "unused"
    BY DEF PullsInv, PullShapes, P!Pull, P!NoPull
  <1>2. pulls' = [pulls EXCEPT ![i] = [@ EXCEPT !.model = m, !.state = "asked"]]
    BY DEF P!Pull
  <1>3. pulls' \in [1 .. MaxPulls -> [model : Models \union {NoModel}, cancelled : BOOLEAN,
                                     state : PullStates]]
    BY <1>1, <1>2 DEF PullShapes, PullStates
  <1>4. \A j \in 1 .. MaxPulls :
          /\ pulls'[j].cancelled = pulls[j].cancelled
          /\ pulls'[j].state = IF j = i THEN "asked" ELSE pulls[j].state
          /\ j # i => pulls'[j].model = pulls[j].model
    BY <1>1, <1>2 DEF PullShapes
  <1>5. \A j \in 1 .. MaxPulls :
          /\ pulls[j].cancelled => pulls'[j].cancelled
          /\ pulls'[j].state \in P!Unfinished <=> pulls[j].state \in P!Unfinished
          /\ pulls'[j].state \in P!Unfinished => pulls'[j].model = pulls[j].model
    BY <1>1, <1>4 DEF P!Unfinished, P!Running
  <1>6. UNCHANGED <<pullHandle, aborting, doubled>>
    BY DEF P!Pull
  <1> QED
    BY <1>1, <1>3, <1>5, <1>6, QuietMove DEF PullShapes

\* A move among the states before the acceptance or among those of a task.
LEMMA PullMoveKeeps ==
  ASSUME PullsInv, NEW i \in 1 .. MaxPulls, NEW state \in PullStates, P!Moves(i, state),
         state \in P!Unfinished <=> pulls[i].state \in P!Unfinished,
         UNCHANGED <<pullHandle, aborting, doubled>>
  PROVE  PullsInv'
  <1>1. PullShapes
    BY DEF PullsInv
  <1>2. /\ pulls' \in [1 .. MaxPulls -> [model : Models \union {NoModel},
                                         cancelled : BOOLEAN, state : PullStates]]
        /\ \A j \in 1 .. MaxPulls : /\ pulls'[j].model = pulls[j].model
                                    /\ pulls'[j].cancelled = pulls[j].cancelled
                                    /\ pulls'[j].state = IF j = i THEN state ELSE pulls[j].state
    BY <1>1, PullMoveEffect
  <1>3. aborting' \subseteq Models
    BY <1>1 DEF PullShapes
  <1> QED
    BY <1>2, <1>3, QuietMove

LEMMA TaskMovesKeep ==
  ASSUME PullsInv, NEW i \in DOMAIN pulls,
         P!Refuse(i) \/ P!Throw(i) \/ P!Progress(i) \/ P!TaskEnds(i)
  PROVE  PullsInv'
  <1>1. i \in 1 .. MaxPulls /\ aborting \subseteq Models
    BY DEF PullsInv, PullShapes
  <1>2. CASE P!Refuse(i)
    <2>1. /\ P!Moves(i, "over") /\ pulls[i].state = "asked"
          /\ UNCHANGED <<pullHandle, aborting, doubled>>
      BY <1>2 DEF P!Refuse
    <2> QED
      BY <1>1, <2>1, PullMoveKeeps DEF PullStates, P!Unfinished, P!Running
  <1>3. CASE P!Throw(i)
    <2>1. /\ P!Moves(i, "late") /\ pulls[i].state = "asked"
          /\ UNCHANGED <<pullHandle, aborting, doubled>>
      BY <1>3 DEF P!Throw
    <2> QED
      BY <1>1, <2>1, PullMoveKeeps DEF PullStates, P!Unfinished, P!Running
  <1>4. CASE P!Progress(i)
    BY <1>1, <1>4, SameKeeps DEF P!Progress, P!TaskKeeps
  <1>5. CASE P!TaskEnds(i)
    <2>1. PICK state \in {"done", "ended"} :
            /\ P!Moves(i, state) /\ pulls[i].state \in P!Running
            /\ UNCHANGED <<pullHandle, aborting, doubled>>
      BY <1>5 DEF P!TaskEnds, P!Succeed, P!Fail, P!RunsDry, P!TaskKeeps, P!Running
    <2> QED
      BY <1>1, <2>1, PullMoveKeeps DEF PullStates, P!Unfinished, P!Running
  <1> QED
    BY <1>2, <1>3, <1>4, <1>5

\* The token of the task goes under the name of the model: the model had no
\* other unfinished pull, or counts as doubled from now on.
LEMMA AcceptKeeps ==
  ASSUME P!PullsAssumption, PullsInv, NEW i \in DOMAIN pulls, P!Accept(i)
  PROVE  PullsInv'
  <1> DEFINE m == pulls[i].model
  <1>1. /\ PullShapes /\ i \in 1 .. MaxPulls /\ i # 0
        /\ pulls[i].state \notin P!Unfinished
    BY DEF PullsInv, PullShapes, P!Accept, P!Unfinished, P!Running
  <1>2. /\ P!Moves(i, "running") /\ pullHandle' = [pullHandle EXCEPT ![m] = i]
        /\ doubled' = IF P!Tasks(m, P!Unfinished) # {} THEN doubled \union {m} ELSE doubled
        /\ UNCHANGED aborting
    BY DEF P!Accept
  <1>3. "running" \in PullStates /\ "running" \in P!Unfinished
    BY DEF PullStates, P!Unfinished, P!Running
  <1>4. /\ pulls' \in [1 .. MaxPulls -> [model : Models \union {NoModel},
                                         cancelled : BOOLEAN, state : PullStates]]
        /\ \A j \in 1 .. MaxPulls :
             /\ pulls'[j].model = pulls[j].model
             /\ pulls'[j].cancelled = pulls[j].cancelled
             /\ pulls'[j].state = IF j = i THEN "running" ELSE pulls[j].state
    BY <1>1, <1>2, <1>3, PullMoveEffect
  <1>5. PullShapes'
    <2>1. i \in 0 .. MaxPulls
      BY <1>1
    <2>2. pullHandle' \in [Models -> 0 .. MaxPulls]
      BY <1>1, <1>2, <2>1 DEF PullShapes
    <2> QED
      BY <1>1, <1>2, <1>4, <2>2 DEF PullShapes
  <1>6. \A n : P!Tasks(n, P!Unfinished)' = IF n = m THEN P!Tasks(n, P!Unfinished) \union {i}
                                      ELSE P!Tasks(n, P!Unfinished)
    BY <1>1, <1>3, <1>4 DEF P!Tasks, PullShapes
  <1>7. P!HandlesAreOfTasks'
    BY <1>1, <1>2, <1>6 DEF PullsInv, P!HandlesAreOfTasks, PullShapes
  <1>8. OnePullAtMost'
    BY <1>2, <1>6 DEF PullsInv, OnePullAtMost
  <1>9. PullReachable'
    <2> SUFFICES ASSUME NEW n \in Models \ doubled', NEW j \in P!Tasks(n, P!Unfinished)'
                 PROVE  pulls'[j].cancelled \/ pullHandle'[n] = j
      BY DEF PullReachable
    <2>1. CASE n = m
      BY <1>1, <1>2, <1>6, <2>1 DEF PullShapes
    <2>2. CASE n # m
      BY <1>1, <1>2, <1>4, <1>6, <2>2 DEF PullsInv, PullReachable, PullShapes, P!Tasks
    <2> QED
      BY <2>1, <2>2
  <1> QED
    BY <1>5, <1>7, <1>8, <1>9 DEF PullsInv

\* The handle that the end of a task removes is its own or that of a second
\* pull of the model.
LEMMA FinishKeeps ==
  ASSUME P!PullsAssumption, PullsInv, NEW i \in DOMAIN pulls, P!Finish(i)
  PROVE  PullsInv'
  <1> DEFINE m == pulls[i].model
  <1>1. PullShapes /\ i \in 1 .. MaxPulls /\ pulls[i].state \in P!Unfinished
    BY DEF PullsInv, PullShapes, P!Finish, P!Unfinished, P!Running
  <1>2. /\ P!Moves(i, "over") /\ pullHandle' = [pullHandle EXCEPT ![m] = 0]
        /\ UNCHANGED <<aborting, doubled>>
    BY DEF P!Finish, P!HandleGone, P!TaskKeeps
  <1>3. "over" \in PullStates /\ "over" \notin P!Unfinished
    BY DEF PullStates, P!Unfinished, P!Running
  <1>4. /\ pulls' \in [1 .. MaxPulls -> [model : Models \union {NoModel},
                                         cancelled : BOOLEAN, state : PullStates]]
        /\ \A j \in 1 .. MaxPulls :
             /\ pulls'[j].model = pulls[j].model
             /\ pulls'[j].cancelled = pulls[j].cancelled
             /\ pulls'[j].state = IF j = i THEN "over" ELSE pulls[j].state
    BY <1>1, <1>2, <1>3, PullMoveEffect
  <1>5. PullShapes'
    <2>1. 0 \in 0 .. MaxPulls
      BY DEF P!PullsAssumption
    <2>2. pullHandle' \in [Models -> 0 .. MaxPulls]
      BY <1>1, <1>2, <2>1 DEF PullShapes
    <2> QED
      BY <1>1, <1>2, <1>4, <2>2 DEF PullShapes
  <1>6. \A n : P!Tasks(n, P!Unfinished)' = P!Tasks(n, P!Unfinished) \ {i}
    BY <1>1, <1>3, <1>4 DEF P!Tasks, PullShapes
  <1>7. i \in P!Tasks(m, P!Unfinished)
    BY <1>1 DEF P!Tasks
  <1>8. P!HandlesAreOfTasks'
    <2> SUFFICES ASSUME NEW n \in Models, pullHandle'[n] # 0
                 PROVE  pullHandle'[n] \in P!Tasks(n, P!Unfinished)'
      BY DEF P!HandlesAreOfTasks
    <2>1. n # m /\ pullHandle'[n] = pullHandle[n]
      BY <1>1, <1>2 DEF PullShapes
    <2>2. pullHandle[n] \in P!Tasks(n, P!Unfinished) /\ pulls[pullHandle[n]].model = n
      BY <2>1 DEF PullsInv, P!HandlesAreOfTasks, P!Tasks
    <2> QED
      BY <1>6, <2>1, <2>2
  <1>9. OnePullAtMost'
    BY <1>2, <1>6 DEF PullsInv, OnePullAtMost
  <1>10. PullReachable'
    <2> SUFFICES ASSUME NEW n \in Models \ doubled, NEW j \in P!Tasks(n, P!Unfinished) \ {i}
                 PROVE  pulls'[j].cancelled \/ pullHandle'[n] = j
      BY <1>2, <1>6 DEF PullReachable
    <2>1. n # m
      BY <1>7 DEF PullsInv, OnePullAtMost
    <2> QED
      BY <1>1, <1>2, <1>4, <2>1 DEF PullsInv, PullReachable, PullShapes, P!Tasks
  <1> QED
    BY <1>5, <1>8, <1>9, <1>10 DEF PullsInv

LEMMA AbortLandsKeeps ==
  ASSUME P!PullsAssumption, PullsInv, NEW m \in Models, P!AbortLands(m)
  PROVE  PullsInv'
  <1>1. PullShapes
    BY DEF PullsInv
  <1>2. /\ pulls' = P!Cancelled(m) /\ pullHandle' = [pullHandle EXCEPT ![m] = 0]
        /\ aborting' = aborting \ {m} /\ doubled' = doubled
    BY DEF P!AbortLands
  <1>3. /\ pulls' \in [1 .. MaxPulls -> [model : Models \union {NoModel},
                                         cancelled : BOOLEAN, state : PullStates]]
        /\ \A j \in 1 .. MaxPulls :
             /\ pulls'[j].model = pulls[j].model /\ pulls'[j].state = pulls[j].state
             /\ pulls'[j].cancelled <=> pulls[j].cancelled \/ j = pullHandle[m]
    BY <1>1, <1>2 DEF PullShapes, P!Cancelled
  <1>4. PullShapes'
    BY <1>1, <1>2, <1>3 DEF PullShapes, P!PullsAssumption
  <1>5. \A n : P!Tasks(n, P!Unfinished)' = P!Tasks(n, P!Unfinished)
    BY <1>1, <1>3 DEF P!Tasks, PullShapes
  <1>6. P!HandlesAreOfTasks'
    BY <1>1, <1>2, <1>5 DEF PullsInv, P!HandlesAreOfTasks, PullShapes
  <1>7. OnePullAtMost'
    BY <1>2, <1>5 DEF PullsInv, OnePullAtMost
  <1>8. PullReachable'
    BY <1>1, <1>2, <1>3, <1>5 DEF PullsInv, PullReachable, PullShapes, P!Tasks
  <1> QED
    BY <1>4, <1>6, <1>7, <1>8 DEF PullsInv

LEMMA PullsInit ==
  ASSUME P!PullsAssumption, P!Init
  PROVE  PullsInv
  <1>1. PullShapes
    BY DEF P!Init, PullShapes, P!NoPull, PullStates, P!PullsAssumption
  <1>2. \A m : P!Tasks(m, P!Unfinished) = {}
    BY DEF P!Init, P!Tasks, P!NoPull, P!Unfinished, P!Running
  <1>3. P!HandlesAreOfTasks
    BY DEF P!Init, P!HandlesAreOfTasks
  <1> QED
    BY <1>1, <1>2, <1>3 DEF PullsInv, OnePullAtMost, PullReachable

LEMMA PullsStep ==
  ASSUME P!PullsAssumption, PullsInv, [P!Next]_(P!pullVars)
  PROVE  PullsInv'
  <1>1. ASSUME NEW i \in DOMAIN pulls, NEW m \in Models, P!Pull(i, m)
        PROVE  PullsInv'
    BY <1>1, PullKeeps
  <1>2. ASSUME NEW i \in DOMAIN pulls,
               P!Answered(i) \/ P!Progress(i) \/ P!TaskEnds(i) \/ P!Finish(i)
        PROVE  PullsInv'
    BY <1>2, AcceptKeeps, TaskMovesKeep, FinishKeeps DEF P!Answered
  <1>3. ASSUME NEW m \in Models, P!Abort(m) \/ P!AbortLands(m) \/ P!Listed(m) \/ P!Fade(m)
        PROVE  PullsInv'
    <2>1. aborting \subseteq Models
      BY DEF PullsInv, PullShapes
    <2>2. CASE P!Abort(m)
      BY <2>1, <2>2, SameKeeps DEF P!Abort
    <2>3. CASE P!Listed(m) \/ P!Fade(m)
      BY <2>1, <2>3, SameKeeps DEF P!Listed, P!Fade
    <2> QED
      BY <1>3, <2>2, <2>3, AbortLandsKeeps
  <1>4. CASE P!Hear \/ UNCHANGED P!pullVars
    <2>1. UNCHANGED <<pulls, pullHandle, aborting, doubled>> /\ aborting \subseteq Models
      BY <1>4 DEF P!Hear, P!pullVars, PullsInv, PullShapes
    <2> QED
      BY <2>1, SameKeeps
  <1> QED
    BY <1>1, <1>2, <1>3, <1>4 DEF P!Next

(* A handle is of a task that has not ended, and a pull that runs with no     *)
(* other of its model has one or is cancelled, for any models and pulls       *)
(* (ollama.rs, the handles of the pulls).                                     *)
THEOREM PullsAreReached ==
  ASSUME P!PullsAssumption
  PROVE  P!Spec => []AbortsReachThePull
  <1>1. PullsInv => AbortsReachThePull
    BY DEF PullsInv, AbortsReachThePull, P!AbortsReachThePull, P!LoneIsAbortable,
      PullReachable, P!Tasks, P!Unfinished
  <1> QED
    BY <1>1, PullsInit, PullsStep, PTL DEF P!Spec

\* When abort_pull is back, the pull it was for is cancelled, unless the
\* model has had two.
THEOREM AbortsStop ==
  ASSUME P!PullsAssumption
  PROVE  P!Spec => P!AbortStops
  <1> DEFINE Stops == \A m \in aborting \ (aborting' \union doubled) :
                        \A i \in P!Tasks(m, P!Running) : pulls'[i].cancelled
  <1>1. ASSUME PullsInv, [P!Next]_(P!pullVars)
        PROVE  Stops
    <2> SUFFICES ASSUME NEW m \in aborting \ (aborting' \union doubled),
                        NEW i \in P!Tasks(m, P!Running)
                 PROVE  pulls'[i].cancelled
      OBVIOUS
    <2>1. PICK n \in Models : P!AbortLands(n) /\ n = m
      BY <1>1 DEF P!Next, P!pullVars, P!Pull, P!Answered, P!Accept, P!Refuse, P!Throw,
         P!Progress, P!TaskEnds, P!Succeed, P!Fail, P!RunsDry, P!Finish, P!Abort,
         P!AbortLands, P!Listed, P!Fade, P!Hear, P!TaskKeeps
    <2>2. i \in 1 .. MaxPulls /\ i \in P!Tasks(m, P!Unfinished) /\ PullShapes
      BY <1>1 DEF PullsInv, PullShapes, P!Tasks, P!Unfinished
    <2>3. pulls[i].cancelled \/ pullHandle[m] = i
      BY <1>1, <2>1, <2>2 DEF PullsInv, PullReachable
    <2> QED
      BY <2>1, <2>2, <2>3 DEF P!AbortLands, P!Cancelled, PullShapes
  <1>2. Stops => [Stops]_(P!pullVars)
    OBVIOUS
  <1> QED
    BY <1>1, PullsInit, PullsStep, PTL DEF P!Spec, P!AbortStops

-----------------------------------------------------------------------------
(* The parts with proofs of their own. The specification of each is that of   *)
(* its instance in Steps, seen through the module of its proofs, which        *)
(* extends it.                                                                *)

(* Saved settings survive (SettingsAreKept).                                  *)
THEOREM SettingsStay ==
  ASSUME HP!PersistenceAssumption
  PROVE  HP!Spec => []SettingsSurvive
  <1>1. HP!SettingsSurvive => SettingsSurvive
    BY DEF SettingsSurvive, H!SettingsSurvive, HP!SettingsSurvive,
           H!HydratedMeansAll, HP!HydratedMeansAll, H!RestartKeepsSettings,
           HP!RestartKeepsSettings, H!SavedIsNotUndone, HP!SavedIsNotUndone,
           H!Completed, HP!Completed, H!Writers, HP!Writers
  <1> QED
    BY <1>1, HP!SettingsAreKept, PTL

(* The prompt fits (PromptAlwaysFits).                                        *)
THEOREM PromptsFit ==
  ASSUME BP!PromptAssumption
  PROVE  BP!Spec => []PromptFits
  <1>1. BP!PromptFits => PromptFits
    BY DEF PromptFits, B!PromptFits, BP!PromptFits, B!AnswerKeepsItsRoom,
           BP!AnswerKeepsItsRoom, B!SliceIsTheNewest, BP!SliceIsTheNewest,
           B!Eligible, BP!Eligible, B!Overflows, BP!Overflows, B!Tokens, BP!Tokens
  <1> QED
    BY <1>1, BP!PromptAlwaysFits, PTL

(* A lone run marks the project ready only with a fresh index                 *)
(* (LoneRunIsFresh).                                                          *)
THEOREM IndexIsFresh ==
  ASSUME RP!ConstantsAssumption, NEW r, RagRuns = {r}, Clients = {},
         MaxFaults = 0, MaxCrashes = 0
  PROVE  RP!Spec => ReadyIsFresh
  <1>1. RP!Spec => RP!ReadyIsFresh
    BY RP!LoneRunIsFresh
  <1>2. [RP!FreshWhenReady]_RP!vars => [R!FreshWhenReady]_R!vars
    BY DEF RP!FreshWhenReady, R!FreshWhenReady, RP!vars, R!vars
  <1>3. RP!ReadyIsFresh => ReadyIsFresh
    BY <1>2, PTL DEF RP!ReadyIsFresh, R!ReadyIsFresh, ReadyIsFresh
  <1> QED
    BY <1>1, <1>3

-----------------------------------------------------------------------------
(* The parts side by side, as the runs check them.                            *)

(* The five parts together show no late answer, in any interleaving of their  *)
(* steps, simultaneous ones included.                                         *)
THEOREM NoLateAnswerIsShown ==
  ASSUME D!DiagramAssumption
  PROVE  A!Spec /\ F!Spec /\ Q!Spec /\ D!Spec /\ M!Spec => []NoStaleAnswer
  <1> QED
    BY ConnectionIsOfAddress, FilesAreOfTheProject, HitsAreOfTheQuery, DrawingIsOfTheFence,
       ListIsOfTheServer, PTL DEF NoStaleAnswer

(* The titles, the capabilities and the door together ask and tell once.      *)
THEOREM OnceIsOnce ==
  ASSUME C!ConversationsAssumption, T!TransportAssumption
  PROVE  C!Spec /\ M!Spec /\ T!Spec => []AskedAndToldOnce
  <1> QED
    BY TitlesAreAskedOnce, CapabilitiesAreAskedOnce, DoorReportsAndCounts, PTL
       DEF AskedAndToldOnce

(* What the user did is not undone, by any of the four parts.                 *)
THEOREM DeedsStay ==
  ASSUME C!ConversationsAssumption, P!PullsAssumption, U!MigrationsAssumption
  PROVE  C!Spec /\ M!Spec /\ P!Spec /\ U!Spec => UserDeedsStay
  <1> QED
    BY TypedTitlesStay, TuningIsKept, AbortsStop, MigrationsRunOnce DEF UserDeedsStay

(* The marked rows and the rows with an editor are of the lists on the screen. *)
THEOREM RowsStay ==
  ASSUME NEW Found, Hits \subseteq Seq(Found), K!PickerAssumption, N!SidebarAssumption
  PROVE  Q!Spec /\ K!Spec /\ N!Spec => []RowsAreOfTheirLists
  <1> QED
    BY EnterOpensAResult, ActiveRowIsOfTheList, EditorsStayWithTheirRows, PTL
       DEF RowsAreOfTheirLists

================================================================================
