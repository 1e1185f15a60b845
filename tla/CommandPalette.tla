--------------------------- MODULE CommandPalette ---------------------------
(* The palette of commands: the list useCommands and build-commands.ts make  *)
(* of the stores, the rows CommandList shows of it by category, the keys of  *)
(* CommandPalette.tsx, and what running a command does to the stores and to  *)
(* the one dialog that may be open. A palette that was closed fades out and  *)
(* is alive until it has: it hears the keys that still reach its input.      *)
EXTENDS Integers, Sequences, SequencesExt

CONSTANTS
  Chats, Models, NoChat,
  Listings,   (* what the stores may list: [chats, models], sequences        *)
  Queries,    (* what may be typed                                           *)
  Blank,      (* the empty query                                             *)
  Matches,    (* the names of the commands whose label or keywords match     *)
  MaxRecent,  (* how many conversations are offered: 10                      *)
  MaxRuns, MaxLists  (* bounds: commands run, lists that change              *)

Dialogs == {"settings", "library", "info", "search", "cheatsheet"}

\* Assumed of the constants wherever this module is instantiated.
PaletteAssumption ==
  /\ NoChat \notin Chats /\ Blank \in Queries /\ MaxRecent \in Nat
  /\ Listings \subseteq [chats : Seq(Chats), models : Seq(Models)]
  /\ DOMAIN Matches = Queries
  /\ MaxRuns \in Nat /\ MaxLists \in Nat

VARIABLES
  dialog,     (* activeModal                                                 *)
  palette,    (* "closed", "open" or "fading"                                *)
  paletteQuery, rowAt,  (* query and activeIndex of the palette              *)
  shop,       (* what the stores list                                        *)
  inUse,      (* [chat, model, theme, language] in use                       *)
  clearing,   (* how many confirmations are awaited                          *)
  ran, lists  (* counters, for the bounds                                    *)

paletteVars ==
  <<dialog, palette, paletteQuery, rowAt, shop, inUse, clearing, ran, lists>>

Is(kind, category, what) ==
  [kind |-> kind, category |-> category, what |-> what]
Each(seq, kind, category) ==
  [i \in 1..Len(seq) |-> Is(kind, category, seq[i])]

(* The builders, and the order in which they are put together.               *)
NavCommands ==
  <<Is("new", "navigation", "new"), Is("dialog", "navigation", "settings"),
    Is("dialog", "navigation", "library"), Is("dialog", "navigation", "info"),
    Is("search", "navigation", "search")>>
  \o Each(SubSeq(shop.chats, 1, IF Len(shop.chats) < MaxRecent
                                THEN Len(shop.chats) ELSE MaxRecent),
          "recent", "navigation")
ModelCommands == Each(shop.models, "model", "model")
AppearanceCommands ==
  <<Is("theme", "appearance", "theme"), Is("language", "appearance", "language")>>
ChatActionCommands ==
  <<Is("clear", "chatActions", "clear"), Is("export", "chatActions", "export")>>
HelpCommands == <<Is("dialog", "help", "cheatsheet")>>

CommandsModelsFirst ==
  ModelCommands \o NavCommands \o AppearanceCommands \o ChatActionCommands
    \o HelpCommands
Commands ==
  NavCommands \o ModelCommands \o AppearanceCommands \o ChatActionCommands
    \o HelpCommands

Rows ==
  IF paletteQuery = Blank THEN Commands
  ELSE SelectSeq(Commands, LAMBDA c : c.what \in Matches[paletteQuery])

(* The rows from the top of the screen down: grouped under their headers.    *)
CategoryOrder ==
  <<"navigation", "model", "appearance", "chatActions", "help">>
OnScreen ==
  FlattenSeq([i \in 1..Len(CategoryOrder) |->
    SelectSeq(Rows, LAMBDA c : c.category = CategoryOrder[i])])

TypeOK ==
  /\ dialog \in Dialogs \cup {"commandPalette", "none"}
  /\ palette \in {"closed", "open", "fading"}
  /\ palette = "open" <=> dialog = "commandPalette"
  /\ paletteQuery \in Queries
  /\ rowAt \in Int /\ rowAt >= -1
  /\ shop \in Listings \cup {[l EXCEPT !.chats = <<>>] : l \in Listings}
  /\ inUse.chat \in Chats \cup {NoChat}
  /\ clearing \in 0..MaxRuns /\ ran \in 0..MaxRuns /\ lists \in 0..MaxLists

Init ==
  /\ dialog = "none" /\ palette = "closed"
  /\ paletteQuery = Blank /\ rowAt = 0
  /\ shop \in Listings
  /\ inUse = [chat |-> NoChat, model |-> "", theme |-> "light", language |-> "en"]
  /\ clearing = 0 /\ ran = 0 /\ lists = 0

(* openModal and closeModal, and the palette with them: the dialog that      *)
(* comes next replaces the one fading out.                                   *)
Shows(kind) ==
  /\ dialog' = kind
  /\ palette' = CASE kind = "commandPalette" -> "open"
                  [] kind = "none" /\ palette = "open" -> "fading"
                  [] kind = "none" -> palette
                  [] OTHER -> "closed"

(* A palette opened anew starts at the first of all rows; one opened while   *)
(* it fades goes on where it was.                                            *)
Opens ==
  /\ dialog = "none"
  /\ Shows("commandPalette")
  /\ IF palette = "closed" THEN paletteQuery' = Blank /\ rowAt' = 0
     ELSE UNCHANGED <<paletteQuery, rowAt>>
  /\ UNCHANGED <<shop, inUse, clearing, ran, lists>>

Closes ==
  /\ dialog # "none" /\ Shows("none")
  /\ UNCHANGED <<paletteQuery, rowAt, shop, inUse, clearing, ran, lists>>

Fades ==
  /\ palette = "fading" /\ palette' = "closed"
  /\ UNCHANGED <<dialog, paletteQuery, rowAt, shop, inUse, clearing, ran, lists>>

Hears == palette # "closed"
Elsewhere == UNCHANGED <<dialog, palette, shop, inUse, clearing, ran, lists>>

Types(q) ==
  /\ Hears /\ q # paletteQuery /\ paletteQuery' = q /\ rowAt' = 0
  /\ Elsewhere
(* On an empty list the arrow down goes before the first row, to -1.         *)
Down ==
  /\ Hears /\ rowAt' = (IF rowAt + 1 < Len(Rows) THEN rowAt + 1 ELSE Len(Rows) - 1)
  /\ UNCHANGED paletteQuery /\ Elsewhere
Up ==
  /\ Hears /\ rowAt' = (IF rowAt > 1 THEN rowAt - 1 ELSE 0)
  /\ UNCHANGED paletteQuery /\ Elsewhere
Hovers(i) ==
  /\ Hears /\ i \in 1..Len(Rows) /\ rowAt' = i - 1
  /\ UNCHANGED paletteQuery /\ Elsewhere

(* What a command does. Every one but the search ends with onClose, which    *)
(* is closeModal: what it opened a moment before is closed again. A new      *)
(* conversation is listed later (Conversations), an export changes nothing.  *)
Used(c) ==
  [chat  |-> IF c.kind = "recent" THEN c.what ELSE inUse.chat,
   model |-> IF c.kind = "model" THEN c.what ELSE inUse.model,
   theme |-> IF c.kind # "theme" THEN inUse.theme
                ELSE IF inUse.theme = "dark" THEN "light" ELSE "dark",
   language |-> IF c.kind # "language" THEN inUse.language
                ELSE IF inUse.language = "ar" THEN "en" ELSE "ar"]

Runs(c) ==
  /\ ran < MaxRuns /\ ran' = ran + 1
  /\ Shows(IF c.kind = "search" THEN "search" ELSE "none")
  /\ inUse' = Used(c)
  /\ clearing' = clearing + (IF c.kind = "clear" THEN 1 ELSE 0)
  /\ UNCHANGED <<paletteQuery, rowAt, shop, lists>>

Enter == Hears /\ rowAt + 1 \in 1..Len(Rows) /\ Runs(Rows[rowAt + 1])
Click(i) == Hears /\ i \in 1..Len(Rows) /\ Runs(Rows[i])

Confirms(yes) ==
  /\ clearing > 0 /\ clearing' = clearing - 1
  /\ shop' = IF yes THEN [shop EXCEPT !.chats = <<>>] ELSE shop
  /\ inUse' = IF yes THEN [inUse EXCEPT !.chat = NoChat] ELSE inUse
  /\ UNCHANGED <<dialog, palette, paletteQuery, rowAt, ran, lists>>

(* The stores are filled by others, palette open or not: the row stays where *)
(* it is.                                                                    *)
Lists(l) ==
  /\ lists < MaxLists /\ lists' = lists + 1
  /\ l \in Listings \ {shop} /\ shop' = l
  /\ UNCHANGED <<dialog, palette, paletteQuery, rowAt, inUse, clearing, ran>>

Next ==
  \/ Opens \/ Closes \/ Fades
  \/ \E q \in Queries : Types(q)
  \/ Down \/ Up \/ Enter
  \/ \E i \in 1..Len(Commands) : Hovers(i) \/ Click(i)
  \/ \E yes \in BOOLEAN : Confirms(yes)
  \/ \E l \in Listings : Lists(l)

Spec == Init /\ [][Next]_paletteVars

-----------------------------------------------------------------------------
(* The arrow down moves the highlight to the row below it on the screen,     *)
(* though the keys count the rows in the order of the builders and the       *)
(* screen groups them by category.                                           *)
ArrowsFollowTheScreen ==
  [][Down /\ rowAt >= 0 /\ rowAt + 1 < Len(Rows) =>
       \E i \in 1..Len(OnScreen) - 1 :
         /\ OnScreen[i] = Rows[rowAt + 1]
         /\ OnScreen[i + 1] = Rows[rowAt' + 1]]_paletteVars

(* "Go to Settings" and its like leave the dialog they name open, as the     *)
(* search command does.                                                      *)
OpensWhatItNames ==
  [][Enter /\ Rows[rowAt + 1].kind = "dialog"
       => dialog' = Rows[rowAt + 1].what]_paletteVars
=============================================================================
