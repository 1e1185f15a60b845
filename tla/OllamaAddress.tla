----------------------------- MODULE OllamaAddress -----------------------------
(***************************************************************************)
(* The address of the Ollama server: typed in the settings, checked and    *)
(* verified when the field is left, and watched by a connection manager    *)
(* that is replaced with every change of it.  Answers may come in any      *)
(* order and after the address they are about has been changed.            *)
(***************************************************************************)
EXTENDS Naturals, FiniteSets

CONSTANTS Urls,
          Valid,        \* those that isValidOllamaUrl takes
          Clean,        \* sanitizeOllamaUrl: scheme, host and port of an address
          DefaultUrl,   \* DEFAULT_SETTINGS.ollamaUrl
          MaxTouches, MaxChecks, MaxTurns      \* bounds of the model

\* Assumed of the constants wherever this module is instantiated.
AddressAssumption ==
    /\ Valid \subseteq Urls /\ DefaultUrl \in Valid
    /\ Clean \in [Urls -> Urls]
    /\ \A u \in Urls : Clean[u] \in Valid <=> u \in Valid
    /\ {MaxTouches, MaxChecks, MaxTurns} \subseteq Nat

VARIABLES address,    \* globalSettings.ollamaUrl
          lastValid,  \* lastValidOllamaUrlRef
          verifying,  \* calls of cmd_ollama_verify_service, by the address
          awaited,    \* the address of pendingVerification that is not aborted, or none
          listsAsked, \* addresses whose models are being asked for
          checks,     \* health checks of the manager of the window, numbered
          lost,       \* the same of managers that have been replaced
          conn,       \* connectionState
          linked,     \* isOllamaConnected of the window's store
          up,         \* where Ollama runs
          touches, checkCount, turns,
          shownFor    \* history: the address whose check has set conn

addressVars == <<address, lastValid, verifying, awaited, listsAsked, checks, lost, conn,
                 linked, up, touches, checkCount, turns, shownFor>>

Nobody == "none"   \* no verification is awaited
Init == /\ address = DefaultUrl /\ lastValid = DefaultUrl
        /\ verifying = {} /\ awaited = Nobody /\ listsAsked = {}
        /\ checks = {[n |-> 0, url |-> DefaultUrl]} /\ lost = {}
        /\ conn = "disconnected" /\ linked = FALSE
        /\ up = {DefaultUrl}
        /\ touches = 0 /\ checkCount = 0 /\ turns = 0 /\ shownFor = DefaultUrl

-----------------------------------------------------------------------------
(***************************************************************************)
(* What a change of the address does, wherever it comes from: the settings *)
(* note it as the last valid one if it is valid, verified or not, and      *)
(* useOllamaConnection gives up its manager, shows "disconnected", and     *)
(* makes another that checks at once.  An address that is not valid is an  *)
(* error without a call.                                                   *)
(***************************************************************************)
StillListened == UNCHANGED lost /\ checks' = checks \union {[n |-> checkCount, url |-> address']}  \* a slip
Unsubscribed == /\ lost' = lost \union checks
                /\ checks' = IF address' \in Valid THEN {[n |-> checkCount, url |-> address']} ELSE {}
RemembersAny(u) == lastValid' = u      \* a slip
Remembers(u) == lastValid' = IF u \in Valid THEN u ELSE lastValid
Becomes(u) ==
    /\ address' = u
    /\ IF u = address
         THEN UNCHANGED <<lastValid, checks, lost, conn, linked, shownFor>>
         ELSE /\ Remembers(u)
              /\ Unsubscribed
              /\ conn' = IF u \in Valid THEN "disconnected" ELSE "error"
              /\ linked' = (linked /\ u \in Valid)
              /\ shownFor' = u

Type(u) == /\ touches < MaxTouches /\ touches' = touches + 1
           /\ u # address /\ Becomes(u)
           /\ UNCHANGED <<verifying, awaited, listsAsked, up, checkCount, turns>>

(***************************************************************************)
(* handleOllamaUrlBlurFactory: a valid address is put in its clean form    *)
(* and verified, and an earlier verification no longer counts; another is  *)
(* taken back.                                                             *)
(***************************************************************************)
Asks(u) == verifying' = verifying \union {u} /\ awaited' = u
Leaves == \/ /\ Clean[address] \in Valid
             /\ Becomes(Clean[address]) /\ Asks(Clean[address])
          \/ /\ Clean[address] \notin Valid
             /\ Becomes(lastValid) /\ UNCHANGED <<verifying, awaited>>
Blur == /\ touches < MaxTouches /\ touches' = touches + 1
        /\ Leaves
        /\ UNCHANGED <<listsAsked, up, checkCount, turns>>

(* An aborted verification is answered and ignored; null takes the address *)
(* back, anything else asks for the models of the server.                  *)
Verified(u) ==
    /\ u \in verifying /\ verifying' = verifying \ {u}
    /\ IF u # awaited
         THEN UNCHANGED <<address, lastValid, awaited, listsAsked, checks, lost, conn, linked, shownFor>>
         ELSE /\ awaited' = Nobody
              /\ \/ /\ u \notin up
                    /\ Becomes(lastValid) /\ UNCHANGED listsAsked
                 \/ /\ u \in up /\ listsAsked' = listsAsked \union {address}
                    /\ lastValid' = u
                    /\ UNCHANGED <<address, checks, lost, conn, linked, shownFor>>
    /\ UNCHANGED <<up, touches, checkCount, turns>>

(***************************************************************************)
(* checkHealth: every 30 seconds, and when the user reconnects, which      *)
(* shows "connecting" first.  What it finds is told to the listeners of    *)
(* the manager, of which one that was replaced has none.                   *)
(***************************************************************************)
CheckKeeps == UNCHANGED <<address, lastValid, verifying, awaited, listsAsked, lost, up, touches, turns>>
Check(shown) ==
    /\ checkCount < MaxChecks /\ checkCount' = checkCount + 1
    /\ IF address \in Valid
         THEN /\ checks' = checks \union {[n |-> checkCount', url |-> address]}
              /\ conn' = shown /\ UNCHANGED <<linked, shownFor>>
         ELSE conn' = "error" /\ linked' = FALSE /\ shownFor' = address /\ UNCHANGED checks
    /\ CheckKeeps
Reconnect == Check("connecting")
Interval == Check(conn)

FoundOnlyUp(c) == conn' = IF c.url \in up THEN "connected" ELSE conn      \* a slip
Found(c) == conn' = IF c.url \in up THEN "connected" ELSE "disconnected"
CheckAnswered(c) ==
    /\ c \in checks /\ checks' = checks \ {c}
    /\ Found(c) /\ linked' = (c.url \in up) /\ shownFor' = c.url
    /\ UNCHANGED checkCount /\ CheckKeeps
LostAnswered(c) ==
    /\ c \in lost /\ lost' = lost \ {c}
    /\ UNCHANGED <<address, lastValid, verifying, awaited, listsAsked, checks, conn, linked,
                   up, touches, checkCount, turns, shownFor>>

(* fetchModels, asked for under an address that may be another by now. *)
ListAnswered(u) ==
    /\ u \in listsAsked /\ listsAsked' = listsAsked \ {u}
    /\ linked' = (u \in up)
    /\ UNCHANGED <<address, lastValid, verifying, awaited, checks, lost, conn, up, touches,
                   checkCount, turns, shownFor>>

(* A server starts or stops. *)
Turn(u) == /\ turns < MaxTurns /\ turns' = turns + 1
           /\ up' = (up \ {u}) \union ({u} \ up)
           /\ UNCHANGED <<address, lastValid, verifying, awaited, listsAsked, checks, lost,
                          conn, linked, touches, checkCount, shownFor>>

Answers == \E c \in checks : CheckAnswered(c)

Next == \/ \E u \in Urls : Type(u) \/ Verified(u) \/ ListAnswered(u)
        \/ Blur \/ Reconnect \/ Interval \/ Answers
        \/ \E c \in lost : LostAnswered(c)
        \/ \E u \in Valid : Turn(u)

Spec == Init /\ [][Next]_addressVars

(* A health check is answered or times out, and says so either way. *)
FairSpec == Spec /\ WF_addressVars(Answers)

-----------------------------------------------------------------------------
(* Every variable has the shape its comment gives it. *)
TypeOK ==
    /\ {address, shownFor} \subseteq Urls /\ lastValid \in Valid
    /\ verifying \subseteq Urls /\ listsAsked \subseteq Urls
    /\ awaited \in verifying \union {Nobody}
    /\ checks \union lost \subseteq [n : 0 .. MaxChecks, url : Urls]
    /\ conn \in {"disconnected", "connecting", "connected", "error"}
    /\ linked \in BOOLEAN /\ up \subseteq Urls
    /\ touches \in 0 .. MaxTouches /\ checkCount \in 0 .. MaxChecks /\ turns \in 0 .. MaxTurns

(***************************************************************************)
(* The state that is shown was found at the address that is set, however   *)
(* late an answer about an earlier address comes.                          *)
(***************************************************************************)
ShownIsOfAddress == conn \in {"connected", "error"} => shownFor = address

(* "Connecting" does not stay. *)
ConnectingEnds == conn = "connecting" ~> conn # "connecting"
=============================================================================
