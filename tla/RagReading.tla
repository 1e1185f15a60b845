------------------------------- MODULE RagReading -------------------------------
(***************************************************************************)
(* Reading an indexed project: the context a question is sent with, the    *)
(* sources it leaves on the answer, the explorer with the tree of indexed  *)
(* files, and the viewer of the chunks of a file.  All of them ask the     *)
(* backend about the project that is active when they ask, and take the    *)
(* answer whenever it comes.                                               *)
(***************************************************************************)
EXTENDS Naturals, FiniteSets

CONSTANTS Projects, NoProject,
          Paths, NoPath,
          Holds,        \* the indexed files of each project
          MaxChoices, MaxCalls      \* bounds of the model

\* Assumed of the constants wherever this module is instantiated.
ReadingAssumption ==
    /\ NoProject \notin Projects /\ NoPath \notin Paths
    /\ Holds \in [Projects -> SUBSET Paths]
    /\ {MaxChoices, MaxCalls} \subseteq Nat

VARIABLES chosen,     \* activeProjectId
          contexts,   \* calls of cmd_rag_assemble_context, each with its project
          cited,      \* ragSources of answers; the project is known to the model only
          explorer,   \* whether RagExplorer is mounted
          listCalls, spinning, \* cmd_rag_list_files on their way; isLoading
          tree,       \* the project whose files are shown, NoProject for none
          viewed,     \* the file of the viewer and what opened it
          chunkCalls, \* cmd_rag_get_file_chunks on their way
          chunks,     \* the project and file whose chunks are shown
          callsMade, choices,
          overtaken   \* history: an answer came before that of an older call

readingVars == <<chosen, contexts, cited, explorer, listCalls, spinning, tree, viewed,
                 chunkCalls, chunks, callsMade, choices, overtaken>>

NoView == [path |-> NoPath, of |-> NoProject]
NoChunks == [of |-> NoProject, path |-> NoPath]
Init == /\ chosen \in Projects \union {NoProject}
        /\ contexts = {} /\ cited = {}
        /\ explorer = FALSE /\ listCalls = {} /\ spinning = FALSE /\ tree = NoProject
        /\ viewed = NoView /\ chunkCalls = {} /\ chunks = NoChunks
        /\ callsMade = 0 /\ choices = 0 /\ overtaken = FALSE

(***************************************************************************)
(* The effects of the browser and of the viewer: a call for what is active *)
(* now whenever the project or the file has changed, and none without a    *)
(* project.                                                                *)
(***************************************************************************)
ListsOfAny(p) == /\ listCalls' = listCalls \union {[n |-> callsMade, of |-> p]}
                 /\ spinning' = explorer'      \* a slip
ListsOf(p) == IF explorer' /\ p # NoProject
                THEN /\ listCalls' = listCalls \union {[n |-> callsMade, of |-> p]}
                     /\ spinning' = TRUE
                ELSE UNCHANGED <<listCalls, spinning>>
ChunksOf(p, v) == IF v # NoView /\ p # NoProject
                    THEN chunkCalls' = chunkCalls \union {[n |-> callsMade, of |-> p, path |-> v.path]}
                    ELSE UNCHANGED chunkCalls
NotAskedAgain(p, v) == ListsOf(p) /\ UNCHANGED chunkCalls     \* a slip
AsksAgain(p, v) == ListsOf(p) /\ ChunksOf(p, v)
Call == callsMade < MaxCalls /\ callsMade' = callsMade + 1

Choose(p) == /\ choices < MaxChoices /\ choices' = choices + 1
             /\ chosen' = IF p = chosen THEN NoProject ELSE p
             /\ UNCHANGED explorer /\ Call /\ AsksAgain(chosen', viewed)
             /\ UNCHANGED <<contexts, cited, tree, viewed, chunks, overtaken>>

-----------------------------------------------------------------------------
(* A question is sent with the context of the active project, if there is  *)
(* one; without an answer it is sent without a context and sources.        *)
Assemble == /\ chosen # NoProject /\ Call
            /\ contexts' = contexts \union {[n |-> callsMade, of |-> chosen]}
            /\ UNCHANGED <<chosen, cited, explorer, listCalls, spinning, tree, viewed, chunkCalls,
                           chunks, choices, overtaken>>
Assembled(c) == /\ c \in contexts /\ contexts' = contexts \ {c}
                /\ \/ \E p \in Holds[c.of] : cited' = cited \union {[of |-> c.of, path |-> p]}
                   \/ UNCHANGED cited
                /\ UNCHANGED <<chosen, explorer, listCalls, spinning, tree, viewed, chunkCalls,
                               chunks, callsMade, choices, overtaken>>

-----------------------------------------------------------------------------
(* The explorer, opened from the badge or from a card, starts empty.       *)
Open == /\ ~explorer /\ viewed = NoView /\ explorer' = TRUE
        /\ Call /\ ListsOf(chosen) /\ tree' = NoProject
        /\ UNCHANGED <<chosen, contexts, cited, viewed, chunkCalls, chunks, choices, overtaken>>
Refresh == /\ explorer /\ ~spinning /\ chosen # NoProject
           /\ UNCHANGED explorer /\ Call /\ ListsOf(chosen)
           /\ UNCHANGED <<chosen, contexts, cited, tree, viewed, chunkCalls, chunks, choices, overtaken>>

(* What an unmounted component still waits for is lost.                    *)
Shut == /\ viewed' = NoView /\ chunkCalls' = {} /\ chunks' = NoChunks
        /\ explorer' = FALSE /\ listCalls' = {} /\ spinning' = FALSE /\ tree' = NoProject
Close == /\ explorer \/ viewed # NoView
         /\ Shut /\ overtaken' = FALSE
         /\ UNCHANGED <<chosen, contexts, cited, callsMade, choices>>

Older(calls, c) == \E d \in calls : d.n < c.n
Ends == spinning' = FALSE
NotOnErrors == UNCHANGED spinning      \* a slip
EndsFailed == Ends
(* A call that fails shows an error, or no files, and not those before.    *)
Listed(c) ==
    /\ c \in listCalls /\ listCalls' = listCalls \ {c}
    /\ \/ tree' = c.of /\ Ends
       \/ tree' = NoProject /\ EndsFailed
    /\ overtaken' = (overtaken \/ Older(listCalls, c))
    /\ UNCHANGED <<chosen, contexts, cited, explorer, viewed, chunkCalls, chunks, callsMade, choices>>

(* A file is chosen in the tree, or a source on an answer; the chip knows  *)
(* its path and lines, and not its project.                                *)
Views(v) == /\ viewed' = v /\ Call /\ ChunksOf(chosen, v)
            /\ UNCHANGED <<chosen, contexts, cited, explorer, listCalls, spinning, tree, choices, overtaken>>
Pick(p) == /\ explorer /\ ~spinning /\ tree # NoProject /\ p \in Holds[tree] /\ viewed.path # p
           /\ Views([path |-> p, of |-> NoProject]) /\ UNCHANGED chunks
OpenSource(s) == /\ ~explorer /\ viewed = NoView
                 /\ Views(s) /\ UNCHANGED chunks

Viewed(c) ==
    /\ c \in chunkCalls /\ chunkCalls' = chunkCalls \ {c}
    /\ chunks' \in {IF c.path \in Holds[c.of] THEN [of |-> c.of, path |-> c.path] ELSE NoChunks, NoChunks}
    /\ overtaken' = (overtaken \/ Older(chunkCalls, c))
    /\ UNCHANGED <<chosen, contexts, cited, explorer, listCalls, spinning, tree, viewed, callsMade, choices>>

ListAnswers == \E c \in listCalls : Listed(c)
Next == \/ \E p \in Projects : Choose(p)
        \/ Assemble \/ \E c \in contexts : Assembled(c)
        \/ Open \/ Refresh \/ Close \/ ListAnswers
        \/ \E p \in Paths : Pick(p)
        \/ \E s \in cited : OpenSource(s)
        \/ \E c \in chunkCalls : Viewed(c)

Spec == Init /\ [][Next]_readingVars

(* A call of the window is answered, or gives up.                          *)
FairSpec == Spec /\ WF_readingVars(ListAnswers)

-----------------------------------------------------------------------------
(* Every variable has the shape its comment gives it, and the tree is      *)
(* loading only in an explorer.                                            *)
TypeOK ==
    /\ chosen \in Projects \union {NoProject} /\ tree \in Projects \union {NoProject}
    /\ contexts \union listCalls \subseteq [n : 0 .. MaxCalls, of : Projects]
    /\ cited \subseteq [of : Projects, path : Paths]
    /\ explorer \in BOOLEAN /\ spinning \in BOOLEAN /\ (spinning => explorer)
    /\ viewed = NoView \/ viewed \in [path : Paths, of : Projects \union {NoProject}]
    /\ chunkCalls \subseteq [n : 0 .. MaxCalls, of : Projects, path : Paths]
    /\ chunks = NoChunks \/ chunks \in [of : Projects, path : Paths]
    /\ callsMade \in 0 .. MaxCalls /\ choices \in 0 .. MaxChoices /\ overtaken \in BOOLEAN

(***************************************************************************)
(* Unless an older call was answered after a newer one, what the explorer  *)
(* and the viewer show in the end is of the project that is active and of  *)
(* the file that is named above it, however often both have changed.       *)
(***************************************************************************)
ShownIsOfTheProject ==
    chosen # NoProject /\ ~overtaken =>
      /\ explorer /\ listCalls = {} => tree \in {chosen, NoProject}
      /\ viewed # NoView /\ chunkCalls = {}
           => chunks \in {[of |-> chosen, path |-> viewed.path], NoChunks}

(* The explorer does not load forever.                                     *)
LoadingEnds == spinning ~> ~spinning

=============================================================================
