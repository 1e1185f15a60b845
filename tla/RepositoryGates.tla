---------------------------- MODULE RepositoryGates ----------------------------
(***************************************************************************)
(* What the repository's own gates let through.  A command, a limit, a     *)
(* store version, a locale key or a feature's dependency is written down   *)
(* in several files, in Rust and in TypeScript; a developer edits them one *)
(* at a time and may push what the gates of CI accept: the contract and    *)
(* ACL validators, the manifest validator, the two code generators in      *)
(* --check mode, the locale validator, the linter, dependency-cruiser, and *)
(* the type checker and the tests as far as they look at these files.      *)
(***************************************************************************)
EXTENDS Naturals, FiniteSets

CONSTANTS Cmds,            \* names of Tauri commands
          Shared,          \* SHARED_COMMANDS as validate-manifests.mjs lists them
          Features,        \* the feature directories, but for layout, which may import any
          MaxEdits, MaxPushes      \* bounds of the model

OtherPlaces == {"layout", "lib", "store", "hooks", "app", "ui"}

\* Assumed of the constants wherever this module is instantiated.
GatesAssumption == /\ Shared \subseteq Cmds /\ {MaxEdits, MaxPushes} \subseteq Nat
                   /\ Features \intersect OtherPlaces = {}

VARIABLES repo,    \* the working tree, a record of what the gates read
          edits,   \* edits so far
          pushes,  \* pushes so far
          clean    \* the working tree is what was pushed

vars == <<repo, edits, pushes, clean>>

(***************************************************************************)
(* Types as the contract validator reduces them: references, Option, Vec,  *)
(* Array, [] and "| null" are stripped into two flags and a base.          *)
(***************************************************************************)
Plain(base) == [base |-> base, array |-> FALSE, optional |-> FALSE]
Listed(base)   == [Plain(base) EXCEPT !.array = TRUE]
Optional(base) == [Plain(base) EXCEPT !.optional = TRUE]
AtomicInRust(t) == t.base \in {"String", "f32"}
AtomicInTs(t)   == t.base \in {"string", "number"}
RustAtomicToTs  == [String |-> "string", f32 |-> "number"]
Camel == [base_url |-> "baseUrl", limit |-> "limit"]      \* snakeToCamel
RustNames == DOMAIN Camel
TsNames   == RustNames \union {Camel[n] : n \in RustNames}

(* A #[tauri::command] and its entry of CommandMap; "unknown" is a type    *)
(* that the interface leaves open, and only the interface has it.          *)
Absent == [present |-> FALSE]
RustDef(args, ret, wrapped, state) ==
    [present |-> TRUE, args |-> args, ret |-> ret, wrapped |-> wrapped, state |-> state]
TsDef(args, ret) == [present |-> TRUE, args |-> args, ret |-> ret]
Arg(name, type) == [name |-> name, type |-> type]
Names(args) == {a.name : a \in args}

States == {"RagService", "ChatRegistry"}     \* types a command asks of app.manage
PermitFiles == {"rag.toml", "chat.toml"}
PermitIds == {"allow-rag", "allow-chat"}
Methods == {"ragApi.search", "logApi.clear"}     \* of the namespaces of lib/ipc
GeneratedLimits == {"MAX_TOP_K", "MAX_ROLE_LEN"} \* CHAT_CONSTS, ALLOWED_VALUES, RAG_CONSTS
Limits == GeneratedLimits \union {"UNLISTED"}     \* a constant none of them names
Undefined == "undefined"
Keys == {"sidebar.title", "Sidebar Title"}   \* the second is no valid name
BadKeys == {"Sidebar Title"}

(* A repository in which the commands S are wired from end to end.         *)
Wired(S) ==
    [rust |-> [c \in Cmds |-> IF c \in S
                 THEN RustDef({Arg("base_url", Plain("String"))}, Plain("RagProject"), TRUE, "RagService")
                 ELSE Absent],
     tsMap |-> [c \in Cmds |-> IF c \in S
                  THEN TsDef({Arg("baseUrl", Plain("string"))}, Plain("RagProject"))
                  ELSE Absent],
     versions |-> S, budgets |-> S, registered |-> S, managed |-> {"RagService"},
     permits |-> [p \in PermitFiles |-> IF p = "rag.toml"
                    THEN [id |-> "allow-rag", cmds |-> S] ELSE [id |-> "allow-chat", cmds |-> {}]],
     capability |-> {"allow-rag"},
     api |-> [m \in Methods |-> IF m = "ragApi.search" THEN S ELSE {}],
     uses |-> [f \in Features |-> {"ragApi.search"}], endpoints |-> [f \in Features |-> S],
     deps |-> [f \in Features |-> {}], generated |-> [f \in Features |-> {}],
     imports |-> {}, code |-> {},
     publicApi |-> [f \in Features |-> {}], exports |-> [f \in Features |-> {}],
     limits |-> [n \in Limits |-> IF n = "UNLISTED" THEN Undefined ELSE "0"],
     rustLimits |-> [n \in GeneratedLimits |-> "0"],
     en |-> {}, ar |-> {},
     schemas |-> [f \in Features |-> 1], stores |-> [f \in Features |-> 1]]

Init == /\ \E S \in SUBSET Cmds : repo = Wired(S)
        /\ edits = 0 /\ pushes = 0 /\ clean = TRUE

-----------------------------------------------------------------------------
(***************************************************************************)
(* validate-contracts.mjs                                                  *)
(***************************************************************************)
InRust == {c \in Cmds : repo.rust[c].present}
InTs   == {c \in Cmds : repo.tsMap[c].present}

(* equivalentType: two primitives are compared by their names alone.       *)
EquivalentType(rust, ts) ==
    \/ /\ AtomicInRust(rust) /\ AtomicInTs(ts)
       /\ RustAtomicToTs[rust.base] = ts.base
    \/ /\ ~AtomicInRust(rust) /\ ~AtomicInTs(ts)
       /\ \/ rust.base = "HashMap" /\ ts.base = "Record"
          \/ rust.array = ts.array /\ rust.base = ts.base

SameName(rustName, tsName) == Camel[rustName] = tsName \/ rustName = tsName
Counterpart(a, args) ==      \* the camelCase spelling goes first
    IF Camel[a.name] \in Names(args) THEN CHOOSE b \in args : b.name = Camel[a.name]
                                     ELSE CHOOSE b \in args : b.name = a.name

(* A state parameter must be managed, or the command panics when called.   *)
StatesAreManaged == \A c \in InRust : repo.rust[c].state \in repo.managed

BaselineContracts ==
    /\ StatesAreManaged
    /\ InRust = InTs
    /\ \A c \in InRust : Cardinality(repo.rust[c].args) = Cardinality(repo.tsMap[c].args)

(* compareCommandStrict: a difference in optionality is only a warning.    *)
StrictCommand(rust, ts) ==
    /\ \A a \in rust.args : /\ \E b \in ts.args : SameName(a.name, b.name)
                            /\ EquivalentType(a.type, Counterpart(a, ts.args).type)
    /\ \A b \in ts.args : \E a \in rust.args : SameName(a.name, b.name)
    /\ \/ rust.ret.base = "void" /\ ts.ret.base = "void"
       \/ ts.ret.base = "unknown"
       \/ EquivalentType(rust.ret, ts.ret)
    /\ rust.wrapped

StrictContracts == BaselineContracts /\ \A c \in InRust : StrictCommand(repo.rust[c], repo.tsMap[c])

(***************************************************************************)
(* validate-ipc-acl.mjs: the permission files against the invoke handler,  *)
(* and the capabilities against the permission files.                      *)
(***************************************************************************)
IsIdentified(p) == repo.permits[p].id # "none"
AclGateOneWay ==             \* a slip: the handler is never compared with the files
    /\ \A p \in PermitFiles : IsIdentified(p) /\ repo.permits[p].cmds \subseteq repo.registered
    /\ \A id \in repo.capability : \E p \in PermitFiles : repo.permits[p].id = id
AclGate ==
    /\ \A c \in repo.registered : \E p \in PermitFiles : c \in repo.permits[p].cmds
    /\ \A p \in PermitFiles : IsIdentified(p) /\ repo.permits[p].cmds \subseteq repo.registered
    /\ \A id \in repo.capability : \E p \in PermitFiles : repo.permits[p].id = id

(***************************************************************************)
(* validate-manifests.mjs: store versions, the public interface against    *)
(* the exports of index.ts, and the commands that a feature reaches        *)
(* through the methods of lib/ipc against those it declares.  A method may *)
(* make several commands.                                                  *)
(***************************************************************************)
VersionsMatch(f) == repo.schemas[f] # 0 => repo.schemas[f] = repo.stores[f]

(* extractExports sorts the names that index.ts exports into two buckets,  *)
(* by where they come from; types are in neither.                          *)
Origins == {"./hooks", "./utils", "./components", "@/store", "type"}
ExtractExports(f, bucket) ==
    {e.name : e \in {x \in repo.exports[f] : /\ x.from # "type"
                                            /\ (x.from = "./components") = (bucket = "components")}}
IsExported(f, item) ==
    item.name \in ExtractExports(f, IF item.kind = "components" THEN "components" ELSE "hooks")
PublicApiHolds(f) == \A item \in repo.publicApi[f] : IsExported(f, item)

Used(f) == UNION {repo.api[m] : m \in repo.uses[f]}
UndeclaredOnly(f) == ~(Used(f) \ Shared \subseteq repo.endpoints[f])      \* a slip
IpcDrift(f) == Used(f) \ Shared # repo.endpoints[f] \ Shared
ManifestGate == \A f \in Features : VersionsMatch(f) /\ PublicApiHolds(f) /\ ~IpcDrift(f)

(***************************************************************************)
(* The generators in --check mode.  The one for limits writes the names on *)
(* its lists, throws when one of them is gone, and passes over the rest.   *)
(***************************************************************************)
GenerateLimits == [n \in GeneratedLimits |-> repo.limits[n]]
CanGenerate == Undefined \notin {repo.limits[n] : n \in GeneratedLimits}
LimitsGate == CanGenerate /\ repo.rustLimits = GenerateLimits
GenerateDeps == repo.deps
DepsGate   == repo.generated = GenerateDeps

(* validate-i18n.mjs: the names of the keys are looked at in English only. *)
MissingInArabic == repo.en \subseteq repo.ar      \* a slip: compared one way
KeyParity == repo.en = repo.ar
KeyNaming == repo.en \intersect BadKeys = {}
LocaleGate == KeyParity /\ KeyNaming

(***************************************************************************)
(* .dependency-cruiser.js: an import goes from a place to a feature, to    *)
(* its index or to something inside.  The rule for imports between         *)
(* features reads the generated file, not the manifests; layout has none.  *)
(***************************************************************************)
Places == Features \union OtherPlaces
Imports == {i \in [from : Places, to : Features, part : {"index", "inner"}] : i.from # i.to}
SharedLayerAllows(i) ==
    CASE i.from \in {"lib", "store"} -> FALSE
      [] i.from = "hooks"            -> i.part = "index" /\ i.to = "conversation"
      [] OTHER                       -> i.part = "index"
AllowedImport(i) ==
    CASE i.from \in Features -> i.to \in repo.generated[i.from]
      [] i.from = "layout"   -> TRUE
      [] OTHER               -> SharedLayerAllows(i)
ArchitectureGate == \A i \in repo.imports : AllowedImport(i)

(***************************************************************************)
(* eslint.config.mjs, over the files of apps/web/src: the last block that  *)
(* names a kind of file replaces the list of restricted syntax for it.     *)
(* "raw" stands for invoke, the Tauri globals and packages, process.env    *)
(* and server rendering; the rules on focus rings and small text are taken *)
(* back by no block, and the one on plain buttons only warns.              *)
(***************************************************************************)
Restricted == {"raw"}
ToastText  == "toastLiteral"
FocusRules == {"focusWithoutRing"}
TypeRules  == {"tinyText"}
A11y       == FocusRules \union TypeRules
Kinds == {"source", "ipcBarrel", "config", "test"}
BannedByLastBlock(kind) == A11y \union (IF kind = "source" THEN {ToastText} ELSE {})     \* a slip
Banned(kind) ==
    A11y \union (CASE kind = "source"    -> Restricted \union {ToastText}
                   [] kind = "ipcBarrel" -> {ToastText}
                   [] OTHER              -> {})
LintGate == \A x \in repo.code : x.what \notin Banned(x.kind)

(***************************************************************************)
(* The compilers and the latency test: the invoke handler names functions  *)
(* that exist, COMMAND_VERSIONS and CommandMap have the same keys, a       *)
(* wrapper calls a command of CommandMap, every command has a budget.      *)
(***************************************************************************)
CompilersGate == /\ repo.registered \subseteq InRust
                 /\ repo.versions = InTs /\ UNION {repo.api[m] : m \in Methods} \subseteq InTs
                 /\ repo.versions \subseteq repo.budgets

Gates == /\ StrictContracts /\ AclGate /\ ManifestGate
         /\ LimitsGate /\ DepsGate /\ LocaleGate
         /\ ArchitectureGate /\ LintGate /\ CompilersGate

-----------------------------------------------------------------------------
(* An edit changes one artefact; what it was is what it need not be. *)
Edit(r) == /\ edits < MaxEdits
           /\ r # repo
           /\ repo' = r
           /\ edits' = edits + 1 /\ clean' = FALSE
           /\ UNCHANGED pushes

ToggleAny(S, x) == S \union {x, "cmd_other"}      \* a slip
Toggle(S, x) == IF x \in S THEN S \ {x} ELSE S \union {x}

EditRust(c) ==
    \/ /\ ~repo.rust[c].present
       /\ Edit([repo EXCEPT !.rust[c] = Wired(Cmds).rust[c]])
    \/ /\ repo.rust[c].present
       /\ \/ \E name \in RustNames, t \in {Plain("String"), Listed("String"), Plain("RagProject"),
                                          Listed("RagProject"), Optional("String")} :
                Edit([repo EXCEPT !.rust[c].args = {Arg(name, t)}])
          \/ \E t \in {Plain("String"), Listed("RagProject"), Plain("void")} :
                Edit([repo EXCEPT !.rust[c].ret = t])
          \/ Edit([repo EXCEPT !.rust[c].wrapped = ~@])
          \/ \E s \in States : Edit([repo EXCEPT !.rust[c].state = s])
RemoveRust(c) == Edit([repo EXCEPT !.rust[c] = Absent])
EditCommandMap(c) ==
    \/ /\ ~repo.tsMap[c].present
       /\ Edit([repo EXCEPT !.tsMap[c] = Wired(Cmds).tsMap[c]])
    \/ /\ repo.tsMap[c].present
       /\ \/ \E name \in TsNames, t \in {Plain("string"), Plain("RagProject"), Listed("RagProject")} :
                Edit([repo EXCEPT !.tsMap[c].args = {Arg(name, t)}])
          \/ \E t \in {Plain("string"), Listed("RagProject"), Plain("unknown"), Plain("void")} :
                Edit([repo EXCEPT !.tsMap[c].ret = t])
RemoveFromMap(c) == Edit([repo EXCEPT !.tsMap[c] = Absent])
EditVersions(c) == \/ Edit([repo EXCEPT !.versions = Toggle(repo.versions, c)])
                   \/ Edit([repo EXCEPT !.budgets = Toggle(repo.budgets, c)])
EditHandler(c) == Edit([repo EXCEPT !.registered = Toggle(repo.registered, c)])
EditManaged(s) == Edit([repo EXCEPT !.managed = Toggle(repo.managed, s)])
EditPermits(p, c) == \/ Edit([repo EXCEPT !.permits[p].cmds = Toggle(repo.permits[p].cmds, c)])
                     \/ \E id \in PermitIds \union {"none"} : Edit([repo EXCEPT !.permits[p].id = id])
EditCapability(id) == Edit([repo EXCEPT !.capability = Toggle(repo.capability, id)])
EditApi(m, c) == Edit([repo EXCEPT !.api[m] = Toggle(repo.api[m], c)])
EditFeature(f, m) == Edit([repo EXCEPT !.uses[f] = Toggle(repo.uses[f], m)])
EditPublicApi(f, name) ==
    \/ \E kind \in {"hooks", "components", "utils"} :
          Edit([repo EXCEPT !.publicApi[f] = Toggle(repo.publicApi[f], [name |-> name, kind |-> kind])])
    \/ \E from \in Origins :
          Edit([repo EXCEPT !.exports[f] = Toggle(repo.exports[f], [name |-> name, from |-> from])])
EditEndpoints(f, c) == Edit([repo EXCEPT !.endpoints[f] = Toggle(repo.endpoints[f], c)])
EditDependencies(f, g) == Edit([repo EXCEPT !.deps[f] = Toggle(repo.deps[f], g)])
EditImports(i) == Edit([repo EXCEPT !.imports = Toggle(repo.imports, i)])
EditCode(kind, what) == Edit([repo EXCEPT !.code = Toggle(repo.code, [kind |-> kind, what |-> what])])
EditLimit(n) == \E v \in {"0", "1", Undefined} : Edit([repo EXCEPT !.limits[n] = v])
EditLocale(key) == \/ Edit([repo EXCEPT !.en = Toggle(repo.en, key)])
                   \/ Edit([repo EXCEPT !.ar = Toggle(repo.ar, key)])
EditSchema(f) == \/ \E v \in 0 .. 2 : Edit([repo EXCEPT !.schemas[f] = v])
                 \/ Edit([repo EXCEPT !.stores[f] = 3 - @])

(* pnpm codegen:validation and codegen:feature-deps *)
Codegen == \/ CanGenerate /\ Edit([repo EXCEPT !.rustLimits = GenerateLimits])
           \/ Edit([repo EXCEPT !.generated = GenerateDeps])

Push == /\ ~clean /\ pushes < MaxPushes
        /\ Gates
        /\ clean' = TRUE /\ pushes' = pushes + 1
        /\ UNCHANGED <<repo, edits>>

EditCommand(c) == EditRust(c) \/ RemoveRust(c) \/ EditCommandMap(c) \/ RemoveFromMap(c)
                  \/ EditVersions(c) \/ EditHandler(c) \/ \E m \in Methods : EditApi(m, c)
Next == \/ \E c \in Cmds : EditCommand(c)
        \/ \E s \in States : EditManaged(s)
        \/ \E p \in PermitFiles, c \in Cmds : EditPermits(p, c)
        \/ \E id \in PermitIds : EditCapability(id)
        \/ \E f \in Features, m \in Methods : EditFeature(f, m)
        \/ \E f \in Features, c \in Cmds : EditEndpoints(f, c)
        \/ \E f \in Features : EditPublicApi(f, "Panel")
        \/ \E f \in Features : \E g \in Features \ {f} : EditDependencies(f, g)
        \/ \E i \in Imports : EditImports(i)
        \/ \E kind \in Kinds, what \in Restricted \union A11y \union {ToastText} : EditCode(kind, what)
        \/ \E n \in Limits : EditLimit(n)
        \/ \E key \in Keys : EditLocale(key)
        \/ \E f \in Features : EditSchema(f)
        \/ Codegen
        \/ Push

Spec == Init /\ [][Next]_vars

-----------------------------------------------------------------------------
(***************************************************************************)
(* What a pushed tree registers can be called: the function exists, its    *)
(* state is managed, its answer has the shape the transport unwraps, some  *)
(* permission file allows it, and the interface the window is compiled     *)
(* against has it, with arguments of the same names and primitives and     *)
(* with a latency budget.  No single gate says so.                         *)
(***************************************************************************)
SameArguments(rust, ts) ==
    \A a \in rust.args : \E b \in ts.args :
        /\ SameName(a.name, b.name)
        /\ AtomicInRust(a.type) <=> AtomicInTs(b.type)
RegisteredIsReachable ==
    clean => \A c \in repo.registered :
        /\ repo.rust[c].present /\ repo.rust[c].wrapped
        /\ repo.rust[c].state \in repo.managed
        /\ \E p \in PermitFiles : IsIdentified(p) /\ c \in repo.permits[p].cmds
        /\ repo.tsMap[c].present /\ SameArguments(repo.rust[c], repo.tsMap[c])
        /\ c \in repo.versions \intersect repo.budgets

(***************************************************************************)
(* A manifest of a pushed tree tells the truth: its public names are       *)
(* exported, what the feature calls it declares, what it declares it calls *)
(* and Rust has, and it imports only features it depends on, although the  *)
(* import rule reads a generated file that may be stale meanwhile.         *)
(***************************************************************************)
ManifestsTellTheTruth ==
    clean => /\ \A f \in Features : /\ \A item \in repo.publicApi[f] :
                                          \E e \in repo.exports[f] : e.name = item.name /\ e.from # "type"
                                    /\ Used(f) \subseteq repo.endpoints[f] \union Shared
                                    /\ repo.endpoints[f] \ Shared \subseteq Used(f) \intersect InRust
             /\ \A i \in repo.imports : i.from \in Features => i.to \in repo.deps[i.from]

(***************************************************************************)
(* The facts that are written twice agree in a pushed tree: a limit in the *)
(* validation of the window and of the backend, a key in both locales, the *)
(* version of a store in its code and in its manifest.                     *)
(***************************************************************************)
CopiesAgree ==
    clean => /\ \A n \in GeneratedLimits : repo.limits[n] = repo.rustLimits[n]
             /\ repo.en = repo.ar /\ BadKeys \intersect (repo.en \union repo.ar) = {}
             /\ \A f \in Features : repo.schemas[f] \in {0, repo.stores[f]}

(***************************************************************************)
(* The backend is reached through one door: outside the IPC barrel, the    *)
(* configuration and the tests, a pushed tree has no raw call, and no      *)
(* toast outside the last two says what is not translated.                 *)
(***************************************************************************)
OneDoor ==
    clean => \A x \in repo.code :
        /\ x.what \in Restricted => x.kind # "source"
        /\ x.what = ToastText => x.kind \in {"config", "test"}

Artefacts == DOMAIN Wired({})
(* Every field has the shape that Wired gives it. *)
TypeOK == /\ DOMAIN repo = Artefacts
          /\ repo.registered \union repo.versions \union repo.budgets \subseteq Cmds
          /\ repo.imports \subseteq Imports /\ repo.managed \subseteq States
          /\ edits \in 0 .. MaxEdits /\ pushes \in 0 .. MaxPushes /\ clean \in BOOLEAN

=============================================================================
