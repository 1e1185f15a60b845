---------------------------- MODULE DiagramRender ----------------------------
(* The diagrams of the answers: useMermaidRender of MermaidRenderer.tsx, the  *)
(* session's cache of renders that all of them share, and the one             *)
(* configuration of mermaid, which belongs to the theme (mermaid-service.ts). *)
(* A render is deferred until the page is idle, then asks mermaid, and what   *)
(* mermaid draws has the theme it is configured for when it is asked.         *)
EXTENDS Integers, FiniteSets

CONSTANTS
  Diagrams,     (* the mounted renderers                                     *)
  Contents,     (* what a fence may hold while an answer streams              *)
  Blank,        (* nothing yet                                                *)
  Unsupported,  (* contents of a kind mermaid has not                         *)
  Broken,       (* contents mermaid refuses                                   *)
  Themes,       (* "light" and "dark"                                         *)
  FirstTheme,   (* the one of the settings at the start                       *)
  MaxChanges    (* bound: changes of contents and of the theme                *)

\* Assumed of the constants wherever this module is instantiated.
DiagramAssumption ==
  /\ Blank \in Contents /\ FirstTheme \in Themes
  /\ Unsupported \subseteq Contents /\ Broken \subseteq Contents
  /\ MaxChanges \in Nat

VARIABLES
  fence,        (* what each renderer is given                                *)
  look,         (* the theme of the settings                                  *)
  configured,   (* the theme mermaid was initialized with last                *)
  drawings,     (* the cache: keys with what was drawn                        *)
  onPage,       (* svg or errorMessage of each renderer: what it is of        *)
  rendering,    (* isRendering                                                *)
  generation,   (* generationRef                                              *)
  renders,      (* renders deferred or under way                              *)
  changes,      (* counter, for the bound                                     *)
  caughtUp      (* ghost: a render under way was left to count although its   *)
                (* fence had become a cached drawing, or empty                *)

diagramVars == <<fence, look, configured, drawings, onPage, rendering,
                 generation, renders, changes, caughtUp>>

Nothing == [of |-> Blank, look |-> FirstTheme]
Key(content, theme) == [of |-> content, look |-> theme]
Keys == [of : Contents, look : Themes]

TypeOK ==
  /\ fence \in [Diagrams -> Contents]
  /\ look \in Themes /\ configured \in Themes
  /\ drawings \subseteq [key : Keys, drawn : Keys]
  /\ \A a, b \in drawings : a.key = b.key => a = b
  /\ onPage \in [Diagrams -> Keys]
  /\ rendering \in [Diagrams -> BOOLEAN]
  /\ generation \in [Diagrams -> 0..MaxChanges]
  /\ \A r \in renders : /\ r.at \in Diagrams /\ r.key \in Keys
                        /\ r.generation \in 1..generation[r.at]
  /\ changes \in 0..MaxChanges /\ caughtUp \in BOOLEAN

Init ==
  /\ fence = [d \in Diagrams |-> Blank]
  /\ look = FirstTheme /\ configured = FirstTheme
  /\ drawings = {} /\ renders = {}
  /\ onPage = [d \in Diagrams |-> Nothing]
  /\ rendering = [d \in Diagrams |-> FALSE]
  /\ generation = [d \in Diagrams |-> 0]
  /\ changes = 0 /\ caughtUp = FALSE

Cached(key) == {e \in drawings : e.key = key}
Pending(d) == {r \in renders : r.at = d /\ r.generation = generation[d]}

(* What the effects do for a renderer whose key has changed: a cached drawing *)
(* is shown as it is; a kind mermaid has not is an error at once; everything  *)
(* else supersedes the render before it and is deferred.                      *)
Outcome(d, content, theme) ==
  LET key == Key(content, theme)
  IN  IF content = Blank
        THEN [page |-> onPage[d], busy |-> rendering[d], next |-> 0, render |-> {}]
      ELSE IF Cached(key) # {}
        THEN [page |-> (CHOOSE e \in Cached(key) : TRUE).drawn, busy |-> FALSE,
              next |-> 0, render |-> {}]
      ELSE IF content \in Unsupported
        THEN [page |-> key, busy |-> FALSE, next |-> 1, render |-> {}]
      ELSE [page |-> Nothing, busy |-> TRUE, next |-> 1,
            render |-> {[at |-> d, key |-> key, phase |-> "deferred",
                         drawn |-> Nothing, generation |-> generation[d] + 1]}]

(* mermaid is initialized when the theme is another than it had.              *)
InitOnce(theme) == configured' = theme

Effects(touched, contents, theme) ==
  LET out == [d \in touched |-> Outcome(d, contents[d], theme)]
  IN  /\ onPage' = [d \in Diagrams |->
                     IF d \in touched THEN out[d].page ELSE onPage[d]]
      /\ rendering' = [d \in Diagrams |->
                     IF d \in touched THEN out[d].busy ELSE rendering[d]]
      /\ generation' = [d \in Diagrams |->
                     generation[d] + (IF d \in touched THEN out[d].next ELSE 0)]
      /\ renders' = renders \cup UNION {out[d].render : d \in touched}
      /\ caughtUp' = (caughtUp \/ \E d \in touched :
                              out[d].next = 0 /\ Pending(d) # {})
      /\ InitOnce(theme)

(* More of an answer has arrived, or another one is shown.                    *)
Given(d, content) ==
  /\ changes < MaxChanges /\ changes' = changes + 1
  /\ content # fence[d] /\ fence' = [fence EXCEPT ![d] = content]
  /\ Effects({d}, [fence EXCEPT ![d] = content], look)
  /\ UNCHANGED <<look, drawings>>

(* The theme changes: every renderer has another key, and mermaid is          *)
(* initialized for the new theme, the renders still deferred included.        *)
Restyled(theme) ==
  /\ changes < MaxChanges /\ changes' = changes + 1
  /\ theme # look /\ look' = theme
  /\ Effects(Diagrams, fence, theme)
  /\ UNCHANGED <<fence, drawings>>

(* The page is idle: mermaid starts, in the theme it has now.                 *)
Starts(r) ==
  /\ r \in renders /\ r.phase = "deferred"
  /\ renders' = (renders \ {r}) \cup
       {[r EXCEPT !.phase = "drawing", !.drawn = Key(r.key.of, configured)]}
  /\ UNCHANGED <<fence, look, configured, drawings, onPage, rendering,
                 generation, changes, caughtUp>>

(* The answer counts when no later render of the renderer has begun; a        *)
(* refusal is shown and cached as well.                                       *)
AnyRender(r) == r.generation <= generation[r.at]
Current(r) == r.generation = generation[r.at]
StopsIfDrawn(r) ==
  IF r.key.of \in Broken THEN rendering ELSE [rendering EXCEPT ![r.at] = FALSE]
StopsRendering(r) == [rendering EXCEPT ![r.at] = FALSE]

Resolves(r) ==
  /\ r \in renders /\ r.phase = "drawing"
  /\ renders' = renders \ {r}
  /\ IF Current(r)
     THEN /\ onPage' = [onPage EXCEPT ![r.at] = r.drawn]
          /\ drawings' = (drawings \ Cached(r.key))
                           \cup {[key |-> r.key, drawn |-> r.drawn]}
          /\ rendering' = StopsRendering(r)
     ELSE UNCHANGED <<onPage, drawings, rendering>>
  /\ UNCHANGED <<fence, look, configured, generation, changes, caughtUp>>

Next ==
  \/ \E d \in Diagrams, c \in Contents : Given(d, c)
  \/ \E theme \in Themes : Restyled(theme)
  \/ \E r \in renders : Starts(r) \/ Resolves(r)

Spec == Init /\ [][Next]_diagramVars

(* requestIdleCallback has a timeout, and mermaid answers.                    *)
SomeStarts == \E r \in renders : Starts(r)
SomeResolves == \E r \in renders : Resolves(r)
FairSpec == Spec /\ WF_diagramVars(SomeStarts) /\ WF_diagramVars(SomeResolves)

-----------------------------------------------------------------------------
(* A renderer that is not waiting shows its fence in the theme of the         *)
(* settings (MermaidRenderer.tsx:130: a result that comes late is discarded). *)
ShowsItsFence ==
  \A d \in Diagrams :
    fence[d] # Blank /\ ~rendering[d] => onPage[d] = Key(fence[d], look)

(* That holds as long as neither a cached drawing nor an empty fence comes    *)
(* before a render under way, whatever the renderers share and however their  *)
(* answers are reordered.                                                     *)
ShowsItsFenceUnlessCaughtUp == caughtUp \/ ShowsItsFence

(* No renderer spins for ever.                                                *)
RenderingEnds == \A d \in Diagrams : rendering[d] ~> ~rendering[d]
=============================================================================
