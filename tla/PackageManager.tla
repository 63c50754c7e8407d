--------------------------- MODULE PackageManager ---------------------------
(***************************************************************************)
(* The PackageThread of core/package_manager.py: one thread that loads,    *)
(* unloads, reloads, updates and deletes packages on command, together     *)
(* with the resource registry it keeps, the package directory the operator *)
(* changes meanwhile and the start-up list that survives a restart.        *)
(*                                                                         *)
(* _package_load and _package_unload call themselves.  stack is the call   *)
(* stack and act[p] the activation record of the call for package p: a     *)
(* package is never twice on the stack, which for loading is what          *)
(* check_stack is for and for unloading is an invariant (NoReentry).       *)
(***************************************************************************)
EXTENDS Integers, Sequences, FiniteSets

CONSTANTS
  Packages,       \* package names that a file may have
  Versions,       \* file contents; a SHA-1 digest stands for the content it digests
  Resources,      \* identifiers that packages register
  PackageConf,    \* "package_conf", registered by the thread itself
  None,
  Code,           \* what the content of a package file says, per version
  Commands,       \* messages that the operator sends
  Uploads,        \* [pkg, ext, ver]: files that the operator writes, or removes (None)
  InitFiles,      \* the package directory at first
  InitStartup,    \* the start-up list at first
  NameLength,     \* of package names, in bytes
  MaxRestarts     \* bound on crashes and restarts

Ext == {"py", "pyc", "pyo"}

(* hasdeps, hasclass: the module assigns dependencies, defines PackageClass; *)
(* broken: importing it raises; raises: run() may raise; res: what run()     *)
(* registers; uses: what run() gets from the registry first.                 *)
ASSUME PackagesAssumption ==
  /\ Code \in [Versions -> [hasdeps : BOOLEAN, deps : SUBSET Packages, hasclass : BOOLEAN,
                            res : SUBSET Resources, uses : SUBSET Resources,
                            broken : BOOLEAN, raises : BOOLEAN]]
  /\ PackageConf \in Resources
  /\ None \notin Packages \cup Versions \cup Ext \cup {"same"}
  /\ IsFiniteSet(Packages)
  /\ MaxRestarts \in Nat /\ NameLength \in [Packages -> Nat]
  /\ InitFiles \in [Packages -> [Ext -> Versions \cup {None}]]
  /\ Uploads \subseteq [pkg : Packages, ext : Ext, ver : Versions \cup {None}]

IsSequence(s) == s \in Seq({s[i] : i \in DOMAIN s})

(* A command names packages, known or not, with or without option -r.      *)
ASSUME CommandsAssumption ==
  /\ \A m \in Commands : IsSequence(m.args) /\ m.auto \in BOOLEAN
  /\ IsSequence(InitStartup)

VARIABLES
  files,            \* [Packages -> [Ext -> content or None]]: the package directory
  startup,          \* lines of the file pkg_list, [pkg, sum, size]
  thread,           \* where PackageThread.run is
  todo,             \* calls that the current command has still to make
  track,            \* track_list, reversed: what the command unloaded, [pkg, ext, sum]
  placed,           \* packages that the command's own calls loaded (not as dependencies)
  packages_loaded,  \* keys of _packages_loaded
  record,           \* its PackageRecords
  modules,          \* module namespaces: the version whose dependencies, PackageClass hold
  registry,         \* identifiers in ResourceRegistry._registry
  owned,            \* ResourceRegistry._packages
  stack,            \* packages of the calls in progress, the innermost last
  act,              \* their activation records
  older,            \* history: packages loaded when p was, and ever since
  asked,            \* history: packages that the last command is to list, by -r
  restarts          \* counts crashes and restarts

memory == <<thread, todo, track, placed, packages_loaded, record, modules, registry, owned,
            stack, act, older, asked>>
vars == <<files, startup, memory, restarts>>

NoRecord == [ext |-> None, sha1 |-> None, cls |-> None, dependents |-> {}, dependencies |-> {}]
NoModule == [deps |-> None, cls |-> None]
NoAct == [pc |-> "none", sum |-> None, auto |-> FALSE, ext |-> None,
          left |-> {}, dep |-> None, ids |-> {}]

LoadPC == {"find", "import", "deps", "check", "run"}
UnloadPC == {"stop", "await"}

(* The types that the dependency graph rests on.                           *)
GraphTypes ==
  /\ files \in [Packages -> [Ext -> Versions \cup {None}]]
  /\ packages_loaded \subseteq Packages
  /\ modules \in [Packages -> [deps : Versions \cup {None}, cls : Versions \cup {None}]]
  /\ older \in [Packages -> SUBSET Packages]
  /\ stack \in Seq(Packages)
  /\ DOMAIN record = Packages /\ DOMAIN act = Packages /\ DOMAIN owned = Packages
  /\ \A p \in Packages :
       /\ DOMAIN record[p] = DOMAIN NoRecord
       /\ record[p].dependents \subseteq Packages /\ record[p].dependencies \subseteq Packages
       /\ DOMAIN act[p] = DOMAIN NoAct
       /\ act[p].pc \in LoadPC \cup UnloadPC \cup {"none"}
       /\ act[p].left \subseteq Packages /\ act[p].dep \in Packages \cup {None}
       /\ act[p].pc = "import" => act[p].ext \in Ext

Init ==
  /\ files = InitFiles /\ startup = InitStartup /\ restarts = 0
  /\ thread = "init" /\ todo = << >> /\ track = << >> /\ placed = {}
  /\ packages_loaded = {} /\ record = [p \in Packages |-> NoRecord]
  /\ modules = [p \in Packages |-> NoModule]
  /\ registry = {PackageConf} /\ owned = [p \in Packages |-> {}]
  /\ stack = << >> /\ act = [p \in Packages |-> NoAct]
  /\ older = [p \in Packages |-> {}] /\ asked = {}

-----------------------------------------------------------------------------
(* PackageThread.run: one action per command.  The calls that a command    *)
(* makes wait in todo and are made one after the other.                    *)

Call(do, pkg, sum, auto, ext) ==
  [do |-> do, pkg |-> pkg, sum |-> sum, auto |-> auto, ext |-> ext]

LoadList(list, auto) == [i \in DOMAIN list |-> Call("load", list[i].pkg, list[i].sum, auto, None)]

UnloadList(list) == [i \in DOMAIN list |-> Call("unload", list[i].pkg, None, FALSE, None)]

(* Whom a command with option -r wants on the start-up list.               *)
Named(m) == IF m.auto THEN {m.args[i].pkg : i \in DOMAIN m.args} \cap Packages ELSE {}

Begin(calls, named) ==
  /\ thread' = "busy" /\ todo' = calls /\ track' = << >> /\ placed' = {} /\ asked' = named
  /\ UNCHANGED <<files, startup, packages_loaded, record, modules, registry, owned, stack, act,
                 older, restarts>>

Got(command, m) == thread = "idle" /\ m \in Commands /\ m.command = command

LoadCommand(m) == Got("load", m) /\ Begin(LoadList(m.args, m.auto), Named(m))

(* A reload of several packages, or of one that is not loaded, is refused. *)
ReloadCommand(m) ==
  /\ Got("reload", m) /\ Len(m.args) = 1
  /\ LET a == m.args[1] IN
       /\ a.pkg \in packages_loaded
       /\ Begin(<<Call("unload", a.pkg, None, FALSE, None),
                  Call("restore", a.pkg, a.sum, m.auto, "same")>>, Named(m))

(* One package that is not loaded is loaded, and -r is not passed on.      *)
UpdateCommand(m) ==
  /\ Got("update", m) /\ Len(m.args) = 1
  /\ LET a == m.args[1] IN
       \/ /\ a.pkg \in packages_loaded
          /\ Begin(<<Call("unload", a.pkg, None, FALSE, None),
                     Call("restore", a.pkg, a.sum, m.auto, None)>>, Named(m))
       \/ /\ a.pkg \notin packages_loaded
          /\ Begin(LoadList(m.args, FALSE), {})

UpdateListCommand(m) ==
  /\ Got("update", m) /\ Len(m.args) > 1
  /\ Begin(UnloadList(m.args) \o LoadList(m.args, m.auto)
             \o <<Call("restore", None, None, m.auto, None)>>, Named(m))

UnloadCommand(m) == Got("unload", m) /\ Begin(UnloadList(m.args), {})

DeleteCommand(m) ==
  /\ Got("delete", m)
  /\ Begin([i \in 1..(2 * Len(m.args)) |->
              Call(IF i % 2 = 1 THEN "unload" ELSE "delete", m.args[(i + 1) \div 2].pkg,
                   None, FALSE, None)], {})

UnloadAllCommand(m) ==
  Got("unload_all", m) /\ Begin(<<Call("unload_all", None, None, FALSE, None)>>, {})

TerminateCommand(m) ==
  /\ Got("terminate", m)
  /\ Begin(<<Call("unload_all", None, None, FALSE, None), Call("quit", None, None, FALSE, None)>>, {})

(* An exception that nothing catches ends the thread.                      *)
Dies ==
  /\ thread' = "dead"
  /\ UNCHANGED <<files, startup, todo, track, placed, packages_loaded, record, modules, registry,
                 owned, stack, act, older, asked, restarts>>

(* _package_update_list is called without its autoload_flag: a TypeError.  *)
UpdateAllCommand(m) == Got("update_all", m) /\ Dies

(* Every line has its ":", so that the two parts of values.split(":") can  *)
(* be assigned; a line without one is a ValueError.                        *)
Readable(lines) == \A i \in DOMAIN lines : lines[i].sum # None

(* _package_load_auto, when the thread starts and on command.  It reads    *)
(* the list before anything else does: _write_package_into_autoload and    *)
(* _remove_package_from_autoload, which split lines in the same way, never *)
(* meet one that is not readable.                                          *)
LoadAuto ==
  /\ \/ thread = "init"
     \/ \E m \in Commands : Got("load_auto", m)
  /\ \/ Readable(startup) /\ Begin(LoadList(startup, FALSE), {})
     \/ ~Readable(startup) /\ Dies

Command ==
  \/ LoadAuto
  \/ \E m \in Commands :
       \/ LoadCommand(m) \/ ReloadCommand(m) \/ UpdateCommand(m) \/ UpdateListCommand(m)
       \/ UnloadCommand(m) \/ DeleteCommand(m) \/ UnloadAllCommand(m) \/ UpdateAllCommand(m)
       \/ TerminateCommand(m)

-----------------------------------------------------------------------------
(* The start-up list.  A line is a name, ":", 40 digits and a newline.     *)

SumSize == 42

Line(p, sum) == [pkg |-> p, sum |-> sum, size |-> NameLength[p] + SumSize]

(* The lines with these numbers, each behind those that came before it.    *)
Lines(S) ==
  LET Place(i) == Cardinality({j \in S : j <= i})
  IN [n \in 1..Cardinality(S) |-> startup[CHOOSE i \in S : Place(i) = n]]

(* How long the file is from the i-th line on.                             *)
Size(lines, i) ==
  LET size[n \in 0..Len(lines)] == IF n = 0 THEN 0 ELSE size[n - 1] + lines[n].size
  IN size[Len(lines)] - size[i - 1]

(* The last n bytes of a line.  Of a name cut short no package is loaded;  *)
(* what is shorter than ":" and a checksum is not readable.                *)
Cut(line, n) == [pkg |-> None, sum |-> IF n < SumSize THEN None ELSE line.sum, size |-> n]

(* The last n bytes of the file: lines, behind the rest of another.        *)
Remainder(n) ==
  LET Cuts(i) == Size(startup, i + 1) < n /\ n < Size(startup, i)
      whole == {i \in DOMAIN startup : Size(startup, i) <= n}
  IN (IF \E i \in DOMAIN startup : Cuts(i)
      THEN LET i == CHOOSE i \in DOMAIN startup : Cuts(i)
           IN <<Cut(startup[i], n - Size(startup, i + 1))>>
      ELSE << >>)
     \o Lines(whole)

(* The file when other lines are written over its beginning.               *)
Overwritten(lines) == lines \o Remainder(Size(startup, 1) - Size(lines, 1))

(* A mutant: the file is not truncated.                                    *)
NotTruncated(p) == Overwritten(Lines({i \in DOMAIN startup : startup[i].pkg # p}))

Without(p) == Lines({i \in DOMAIN startup : startup[i].pkg # p})

(* A line that is there already is kept as it is, old checksum included.   *)
WriteAutoload(p, sum) ==
  IF \E i \in DOMAIN startup : startup[i].pkg = p
  THEN startup
  ELSE Append(startup, Line(p, sum))

-----------------------------------------------------------------------------
(* Making the calls of a command.                                          *)

Next1(do) == thread = "busy" /\ stack = << >> /\ todo # << >> /\ Head(todo).do = do

Enter(p, activation) ==
  /\ stack' = Append(stack, p)
  /\ act' = [act EXCEPT ![p] = activation]

LoadCall(sum, auto, ext) ==
  [NoAct EXCEPT !.pc = "find", !.sum = sum, !.auto = auto, !.ext = ext]

(* A mutant: dependents are not stopped first.                             *)
UnloadAlone(p) == [NoAct EXCEPT !.pc = "stop"]

UnloadCall(p) == [NoAct EXCEPT !.pc = "stop", !.left = record[p].dependents]

unchangedByCalls ==
  <<files, packages_loaded, record, modules, registry, owned, older, asked, restarts>>

(* A name without a file under the package path is refused.                *)
TakeLoad ==
  /\ Next1("load")
  /\ todo' = Tail(todo)
  /\ LET c == Head(todo) IN
       \/ c.pkg \in Packages /\ Enter(c.pkg, LoadCall(c.sum, c.auto, c.ext))
       \/ c.pkg \notin Packages /\ UNCHANGED <<stack, act>>
  /\ UNCHANGED <<unchangedByCalls, startup, thread, track, placed>>

TakeUnload ==
  /\ Next1("unload")
  /\ todo' = Tail(todo)
  /\ LET p == Head(todo).pkg IN
       \/ p \in packages_loaded /\ Enter(p, UnloadCall(p))
       \/ p \notin packages_loaded /\ UNCHANGED <<stack, act>>
  /\ UNCHANGED <<unchangedByCalls, startup, thread, track, placed>>

(* _packages_loaded.keys() in any order; who is unloaded by now is skipped. *)
TakeUnloadAll ==
  /\ Next1("unload_all")
  /\ \/ /\ \E p \in packages_loaded : Enter(p, UnloadCall(p))
        /\ UNCHANGED todo
     \/ /\ packages_loaded = {}
        /\ todo' = Tail(todo)
        /\ UNCHANGED <<stack, act>>
  /\ UNCHANGED <<unchangedByCalls, startup, thread, track, placed>>

(* A mutant: reload forgets which file a package was loaded from.          *)
RestoredFromAny(c) ==
  [i \in DOMAIN track |->
     Call("load", track[i].pkg, IF track[i].pkg = c.pkg THEN c.sum ELSE track[i].sum, FALSE, None)]
  \o <<Call("save", c.pkg, None, c.auto, c.ext)>>

(* What was unloaded, in reverse: by reload from the same file, by update  *)
(* from any.  The target is loaded with the checksum of the command.       *)
Restored(c) ==
  IF c.pkg = None
  THEN LoadList(track, c.auto)
  ELSE [i \in DOMAIN track |->
          Call("load", track[i].pkg, IF track[i].pkg = c.pkg THEN c.sum ELSE track[i].sum, FALSE,
               IF c.ext = "same" THEN track[i].ext ELSE None)]
       \o <<Call("save", c.pkg, None, c.auto, c.ext)>>

TakeRestore ==
  /\ Next1("restore")
  /\ todo' = IF Head(todo).pkg \in packages_loaded
             THEN Tail(todo)
             ELSE Restored(Head(todo)) \o Tail(todo)
  /\ UNCHANGED <<unchangedByCalls, startup, thread, track, placed, stack, act>>

(* A mutant: the option -r of reload is forgotten.                         *)
SaveNothing ==
  /\ Next1("save")
  /\ todo' = Tail(todo)
  /\ UNCHANGED <<unchangedByCalls, startup, thread, track, placed, stack, act>>

TakeSave ==
  /\ Next1("save")
  /\ todo' = Tail(todo)
  /\ LET c == Head(todo) IN
       startup' = IF c.auto /\ c.pkg \in placed
                  THEN WriteAutoload(c.pkg, record[c.pkg].sha1)
                  ELSE startup
  /\ UNCHANGED <<unchangedByCalls, thread, track, placed, stack, act>>

(* kept: the files that could neither be moved nor removed.                *)
TakeDelete ==
  /\ Next1("delete")
  /\ todo' = Tail(todo)
  /\ LET p == Head(todo).pkg
         found == {e \in Ext : files[p][e] # None}
     IN \E kept \in SUBSET found :
          /\ files' = [files EXCEPT ![p] = [e \in Ext |-> IF e \in kept THEN @[e] ELSE None]]
          /\ startup' = IF found # {} /\ kept = {} THEN Without(p) ELSE startup
  /\ UNCHANGED <<thread, track, placed, packages_loaded, record, modules, registry, owned, stack,
                 act, older, asked, restarts>>

Quit ==
  /\ Next1("quit")
  /\ todo' = Tail(todo) /\ thread' = "stopped"
  /\ UNCHANGED <<unchangedByCalls, startup, track, placed, stack, act>>

Done ==
  /\ thread = "busy" /\ stack = << >> /\ todo = << >>
  /\ thread' = "idle"
  /\ UNCHANGED <<unchangedByCalls, startup, todo, track, placed, stack, act>>

-----------------------------------------------------------------------------
(* _package_load.                                                          *)

At(p, pc) ==
  thread = "busy" /\ stack # << >> /\ stack[Len(stack)] = p /\ act[p].pc = pc

Goto(p, pc) == act' = [act EXCEPT ![p].pc = pc] /\ UNCHANGED stack

Return(p) ==
  /\ stack' = SubSeq(stack, 1, Len(stack) - 1)
  /\ act' = [act EXCEPT ![p] = NoAct]

(* _package_chk_exists: the forced extension, or the first that exists.    *)
FileExt(p, forced) ==
  LET found == {e \in Ext : files[p][e] # None /\ forced \in {None, e}} IN
  IF "py" \in found THEN "py"
  ELSE IF "pyc" \in found THEN "pyc"
  ELSE IF "pyo" \in found THEN "pyo"
  ELSE None

(* A checksum is accepted if any file of the package has it.               *)
Verified(p, sum) == sum = None \/ \E e \in Ext : files[p][e] = sum

unchangedByLoad == <<files, thread, todo, track, asked, restarts>>

LoadRefused(p) ==
  /\ At(p, "find")
  /\ \/ p \in packages_loaded
     \/ FileExt(p, act[p].ext) = None
     \/ ~Verified(p, act[p].sum)
  /\ Return(p)
  /\ UNCHANGED <<unchangedByLoad, startup, placed, packages_loaded, record, modules, registry,
                 owned, older>>

(* A mutant: a loaded package is loaded once more.                         *)
LoadAgain(p) ==
  /\ At(p, "find")
  /\ LET ext == FileExt(p, act[p].ext) IN
       /\ ext # None /\ Verified(p, act[p].sum)
       /\ act' = [act EXCEPT ![p].pc = "import", ![p].ext = ext,
                             ![p].sum = IF @ = None THEN files[p][ext] ELSE @]
  /\ UNCHANGED <<unchangedByLoad, startup, placed, packages_loaded, record, modules, registry,
                 owned, older, stack>>

LoadFind(p) ==
  /\ At(p, "find")
  /\ LET ext == FileExt(p, act[p].ext) IN
       /\ p \notin packages_loaded /\ ext # None /\ Verified(p, act[p].sum)
       /\ act' = [act EXCEPT ![p].pc = "import", ![p].ext = ext,
                             ![p].sum = IF @ = None THEN files[p][ext] ELSE @]
  /\ UNCHANGED <<unchangedByLoad, startup, placed, packages_loaded, record, modules, registry,
                 owned, older, stack>>

(* imp.load_source and imp.load_compiled run the file in the namespace of  *)
(* the module of that name: what the file does not assign keeps its value. *)
Namespace(old, v) ==
  [deps |-> IF Code[v].hasdeps THEN v ELSE old.deps,
   cls  |-> IF Code[v].hasclass THEN v ELSE old.cls]

Dependencies(m) == IF m.deps = None THEN {} ELSE Code[m.deps].deps

(* The file is read again: it may be another one by now, or gone.          *)
Import(p) ==
  /\ At(p, "import")
  /\ LET v == files[p][act[p].ext]
         m == Namespace(modules[p], v)
     IN /\ v # None /\ ~Code[v].broken
        /\ modules' = [modules EXCEPT ![p] = m]
        /\ act' = [act EXCEPT ![p].pc = "deps", ![p].left = Dependencies(m)]
  /\ UNCHANGED <<unchangedByLoad, startup, placed, packages_loaded, record, registry, owned, older,
                 stack>>

(* A module whose code raises is dropped, one that does not compile stays. *)
ImportFails(p) ==
  /\ At(p, "import")
  /\ LET v == files[p][act[p].ext] IN
       \/ v = None /\ UNCHANGED modules
       \/ /\ v # None /\ Code[v].broken
          /\ modules' \in {modules, [modules EXCEPT ![p] = NoModule]}
  /\ Return(p)
  /\ UNCHANGED <<unchangedByLoad, startup, placed, packages_loaded, record, registry, owned, older>>

CheckStack == {stack[i] : i \in DOMAIN stack}

(* A dependency that is being loaded is a loop.                            *)
DependencyLoop(p) ==
  /\ At(p, "deps")
  /\ act[p].left \cap CheckStack # {}
  /\ Return(p)
  /\ UNCHANGED <<unchangedByLoad, startup, placed, packages_loaded, record, modules, registry,
                 owned, older>>

LoadDependency(p) ==
  /\ At(p, "deps")
  /\ \E d \in act[p].left :
       /\ d \notin CheckStack /\ d \notin packages_loaded
       /\ stack' = Append(stack, d)
       /\ act' = [act EXCEPT ![p].pc = "check", ![p].dep = d, ![d] = LoadCall(None, FALSE, None)]
  /\ UNCHANGED <<unchangedByLoad, startup, placed, packages_loaded, record, modules, registry,
                 owned, older>>

AddDependent(p) ==
  /\ \E d \in act[p].left :
       /\ \/ At(p, "deps") /\ d \notin CheckStack
          \/ At(p, "check") /\ d = act[p].dep
       /\ d \in packages_loaded
       /\ record' = [record EXCEPT ![d].dependents = @ \cup {p}]
       /\ act' = [act EXCEPT ![p].pc = "deps", ![p].dep = None, ![p].left = @ \ {d}]
  /\ UNCHANGED <<unchangedByLoad, startup, placed, packages_loaded, modules, registry, owned,
                 older, stack>>

(* A mutant: a dependency that failed to load is tried again.              *)
DependencyRetried(p) ==
  /\ At(p, "check") /\ act[p].dep \notin packages_loaded
  /\ Goto(p, "deps")
  /\ UNCHANGED <<unchangedByLoad, startup, placed, packages_loaded, record, modules, registry,
                 owned, older>>

DependencyFailed(p) ==
  /\ At(p, "check") /\ act[p].dep \notin packages_loaded
  /\ Return(p)
  /\ UNCHANGED <<unchangedByLoad, startup, placed, packages_loaded, record, modules, registry,
                 owned, older>>

(* PackageClass is instantiated and its run() gets the resources it uses.  *)
Create(p) ==
  /\ At(p, "deps") /\ act[p].left = {}
  /\ LET v == modules[p].cls IN
       /\ v # None /\ Code[v].uses \subseteq registry
       /\ act' = [act EXCEPT ![p].pc = "run", ![p].ids = Code[v].res]
  /\ UNCHANGED <<unchangedByLoad, startup, placed, packages_loaded, record, modules, registry,
                 owned, older, stack>>

CreateFails(p) ==
  /\ At(p, "deps") /\ act[p].left = {}
  /\ \/ modules[p].cls = None
     \/ modules[p].cls # None /\ ~(Code[modules[p].cls].uses \subseteq registry)
  /\ Return(p)
  /\ UNCHANGED <<unchangedByLoad, startup, placed, packages_loaded, record, modules, registry,
                 owned, older>>

(* A mutant: an identifier that is taken is registered again.              *)
RegisterOver(p) ==
  /\ At(p, "run")
  /\ \E id \in act[p].ids :
       /\ registry' = registry \cup {id}
       /\ owned' = [owned EXCEPT ![p] = @ \cup {id}]
       /\ act' = [act EXCEPT ![p].ids = @ \ {id}]
  /\ UNCHANGED <<unchangedByLoad, startup, placed, packages_loaded, record, modules, older, stack>>

(* ResourceRegistry.register.                                              *)
Register(p) ==
  /\ At(p, "run")
  /\ \E id \in act[p].ids \ registry :
       /\ registry' = registry \cup {id}
       /\ owned' = [owned EXCEPT ![p] = @ \cup {id}]
       /\ act' = [act EXCEPT ![p].ids = @ \ {id}]
  /\ UNCHANGED <<unchangedByLoad, startup, placed, packages_loaded, record, modules, older, stack>>

(* run() raises: a conflicting identifier, or a fault of its own.          *)
RunRaises(p) ==
  /\ At(p, "run")
  /\ act[p].ids \cap registry # {} \/ Code[modules[p].cls].raises
  /\ Return(p)
  /\ UNCHANGED <<unchangedByLoad, startup, placed, packages_loaded, record, modules, registry,
                 owned, older>>

Record(p) ==
  /\ At(p, "run") /\ act[p].ids = {}
  /\ record' = [record EXCEPT ![p] =
                  [ext |-> act[p].ext, sha1 |-> act[p].sum, cls |-> modules[p].cls,
                   dependents |-> {}, dependencies |-> Dependencies(modules[p])]]
  /\ packages_loaded' = packages_loaded \cup {p}
  /\ older' = [older EXCEPT ![p] = packages_loaded]
  /\ startup' = IF act[p].auto THEN WriteAutoload(p, act[p].sum) ELSE startup
  /\ placed' = IF Len(stack) = 1 THEN placed \cup {p} ELSE placed
  /\ Return(p)
  /\ UNCHANGED <<unchangedByLoad, modules, registry, owned>>

Load(p) ==
  \/ LoadRefused(p) \/ LoadFind(p) \/ Import(p) \/ ImportFails(p)
  \/ DependencyLoop(p) \/ LoadDependency(p) \/ AddDependent(p) \/ DependencyFailed(p)
  \/ Create(p) \/ CreateFails(p) \/ Register(p) \/ RunRaises(p) \/ Record(p)

-----------------------------------------------------------------------------
(* _package_unload.                                                        *)

(* The next dependent is unloaded first, if it is loaded at all.           *)
StopDependent(p) ==
  /\ At(p, "stop")
  /\ \E d \in act[p].left :
       \/ /\ d \in packages_loaded
          /\ stack' = Append(stack, d)
          /\ act' = [act EXCEPT ![p].pc = "await", ![p].dep = d, ![p].left = @ \ {d},
                                ![d] = UnloadCall(d)]
       \/ /\ d \notin packages_loaded
          /\ act' = [act EXCEPT ![p].left = @ \ {d}]
          /\ UNCHANGED stack
  /\ UNCHANGED <<unchangedByLoad, startup, placed, packages_loaded, record, modules, registry,
                 owned, older>>

(* A dependent that is still alive keeps the package alive.                *)
DependentStopped(p) ==
  /\ At(p, "await")
  /\ IF act[p].dep \in packages_loaded
     THEN Return(p)
     ELSE /\ act' = [act EXCEPT ![p].pc = "stop", ![p].dep = None]
          /\ UNCHANGED stack
  /\ UNCHANGED <<unchangedByLoad, startup, placed, packages_loaded, record, modules, registry,
                 owned, older>>

(* Resources are deregistered, the record and its mention in the records   *)
(* of the dependencies go, and so does the line of the start-up list.      *)
Unload(p) ==
  /\ At(p, "stop") /\ act[p].left = {}
  /\ registry' = registry \ owned[p]
  /\ owned' = [owned EXCEPT ![p] = {}]
  /\ packages_loaded' = packages_loaded \ {p}
  /\ record' = [q \in Packages |->
                  IF q = p THEN NoRecord
                  ELSE IF q \in record[p].dependencies
                  THEN [record[q] EXCEPT !.dependents = @ \ {p}]
                  ELSE record[q]]
  /\ older' = [q \in Packages |-> IF q = p THEN {} ELSE older[q] \ {p}]
  /\ track' = <<[pkg |-> p, ext |-> record[p].ext, sum |-> record[p].sha1]>> \o track
  /\ startup' = Without(p)
  /\ Return(p)
  /\ UNCHANGED <<files, thread, todo, placed, modules, asked, restarts>>

-----------------------------------------------------------------------------
(* The operator changes the package directory at any time.                 *)
Upload(u) ==
  /\ files[u.pkg][u.ext] # u.ver
  /\ files' = [files EXCEPT ![u.pkg][u.ext] = u.ver]
  /\ UNCHANGED <<startup, memory, restarts>>

(* The process ends or is killed, and starts again.  The list fits into    *)
(* one buffer, which truncate writes out before it cuts the file: between  *)
(* the two the end of the old list is still there.  delete has moved the   *)
(* files away by then.                                                     *)
Rewritten ==
  {p \in Packages : \/ At(p, "stop") /\ act[p].left = {}
                    \/ /\ Next1("delete") /\ Head(todo).pkg = p
                       /\ \E e \in Ext : files[p][e] # None}

(* A mutant: the list is cut before it is rewritten.                       *)
CutFirst(p) == << >>

Torn(p) == Overwritten(Without(p))

Restart ==
  /\ restarts < MaxRestarts
  /\ restarts' = restarts + 1
  /\ \/ UNCHANGED <<files, startup>>
     \/ \E p \in Rewritten :
          /\ startup' = Torn(p)
          /\ files' = IF Next1("delete") THEN [files EXCEPT ![p] = [e \in Ext |-> None]] ELSE files
  /\ thread' = "init" /\ todo' = << >> /\ track' = << >> /\ placed' = {}
  /\ packages_loaded' = {} /\ record' = [p \in Packages |-> NoRecord]
  /\ modules' = [p \in Packages |-> NoModule]
  /\ registry' = {PackageConf} /\ owned' = [p \in Packages |-> {}]
  /\ stack' = << >> /\ act' = [p \in Packages |-> NoAct]
  /\ older' = [p \in Packages |-> {}] /\ asked' = {}

Work ==
  \/ TakeLoad \/ TakeUnload \/ TakeUnloadAll \/ TakeRestore \/ TakeSave \/ TakeDelete
  \/ Quit \/ Done
  \/ \E p \in Packages : Load(p) \/ StopDependent(p) \/ DependentStopped(p) \/ Unload(p)

Next == Command \/ Work \/ Restart \/ \E u \in Uploads : Upload(u)

Spec == Init /\ [][Next]_vars

(* The thread keeps running; run() and clean_up() of packages return.      *)
FairSpec == Spec /\ WF_vars(Work)

-----------------------------------------------------------------------------
(* A loaded package has its dependencies loaded, and each knows it as a    *)
(* dependent, in the midst of every load and unload too: so               *)
(* del_dependent and _packages_loaded[dependency] raise no KeyError.       *)
DependenciesLoaded ==
  \A p \in packages_loaded : \A d \in record[p].dependencies :
    d \in packages_loaded /\ p \in record[d].dependents

(* Loaded packages never depend on each other in a circle, whatever        *)
(* versions the files had when each was loaded.                            *)
NoCircle ==
  \A S \in SUBSET packages_loaded :
    S # {} => \E p \in S : record[p].dependencies \cap S = {}

(* The recursion of _package_unload never comes back to a package that it  *)
(* is unloading, though add_dependent may have left names of packages that *)
(* failed to load.                                                         *)
NoReentry ==
  \A p \in Packages :
    At(p, "stop") => act[p].left \cap packages_loaded \cap CheckStack = {}

(* A registered identifier belongs to one package, or to the thread, and   *)
(* what a package owns is registered: deregister raises no KeyError.       *)
RegistryExact ==
  /\ registry = {PackageConf} \cup UNION {owned[p] : p \in Packages}
  /\ \A p \in Packages : PackageConf \notin owned[p]
  /\ \A p, q \in Packages : p # q => owned[p] \cap owned[q] = {}

(* What the files of p may contain, and what run() may register of it.     *)
Contents(p) ==
  {v \in Versions : \/ \E e \in Ext : InitFiles[p][e] = v
                   \/ \E u \in Uploads : u.pkg = p /\ u.ver = v}

Provides(p) == UNION {Code[v].res : v \in {w \in Contents(p) : Code[w].hasclass}}

(* What is asked of the authors of packages: whoever gets what another     *)
(* package registers lists it in dependencies, and so does a file of the   *)
(* same name that brings a list and no PackageClass of its own.            *)
UsesDeclared ==
  \A p \in Packages : \A v \in Contents(p) : \A q \in Packages \ {p} :
    Code[v].hasclass /\ Code[v].uses \cap Provides(q) # {} =>
      /\ Code[v].hasdeps /\ q \in Code[v].deps
      /\ \A w \in Contents(p) : Code[w].hasdeps /\ ~Code[w].hasclass => q \in Code[w].deps

(* What a loaded package got from the registry, registered by packages it  *)
(* depends on, stays registered as long as it is loaded.                   *)
ResourcesStay == \A p \in packages_loaded : Code[record[p].cls].uses \subseteq registry

(* A package that the last command named with -r and loaded by a call of   *)
(* its own is on the start-up list once the command is done.  Not so, as   *)
(* the code has it: a package that came in as a dependency of another one  *)
(* of the same command, before its turn (the call for it is then skipped), *)
(* and one that was not loaded and is the only one to be updated           *)
(* (UpdateCommand does not pass -r on, though the README lists update).    *)
AskedIsListed ==
  thread = "idle" =>
    \A p \in asked \cap placed : \E i \in DOMAIN startup : startup[i].pkg = p

(* When reload has put back what it unloaded, whatever it loaded again is  *)
(* loaded from the file it was loaded from, a higher-priority file or not; *)
(* but not a package that came back as a dependency, of one that did not   *)
(* depend on it before.                                                    *)
ReloadSameFile ==
  Next1("save") /\ Head(todo).ext = "same" =>
    \A i \in DOMAIN track :
      track[i].pkg \in placed => record[track[i].pkg].ext = track[i].ext

(* Records are in the order in which packages were loaded: whoever depends *)
(* on a package, or is only listed as its dependent, is younger.           *)
RecordsOrdered ==
  /\ \A p \in Packages : older[p] \subseteq packages_loaded \ {p}
  /\ \A p \in Packages : \A q \in older[p] : older[q] \subseteq older[p]
  /\ \A p \in packages_loaded : record[p].dependencies \subseteq older[p]
  /\ \A p \in packages_loaded : \A q \in record[p].dependents \cap packages_loaded : p \in older[q]

(* The calls in progress are for different packages, and all load or all   *)
(* unload.                                                                 *)
CallsInv ==
  /\ \A p \in Packages : act[p].pc # "none" <=> p \in CheckStack
  /\ \A i, j \in DOMAIN stack : stack[i] = stack[j] => i = j
  /\ \A p, q \in Packages : act[p].pc \in LoadPC => act[q].pc \notin UnloadPC

(* A package that is being loaded is not loaded yet, and is a dependent of *)
(* the dependencies that it has done with.                                 *)
LoadingOK(p) ==
  /\ act[p].pc \in LoadPC \ {"find"} => p \notin packages_loaded
  /\ act[p].pc \in {"deps", "check", "run"} =>
       \A d \in Dependencies(modules[p]) \ act[p].left :
         d \in packages_loaded /\ p \in record[d].dependents
  /\ act[p].pc = "run" => act[p].left = {}

(* A package that is being unloaded has no loaded dependents but those     *)
(* still to be stopped.                                                    *)
UnloadingOK(p) ==
  act[p].pc \in UnloadPC =>
    /\ p \in packages_loaded
    /\ record[p].dependents \cap packages_loaded \subseteq
         act[p].left \cup (IF act[p].pc = "await" THEN {act[p].dep} ELSE {})
    /\ act[p].left \cap packages_loaded \subseteq record[p].dependents

(* Whom an unload stops is younger than the package it unloads.            *)
StopsYounger ==
  \A i, j \in DOMAIN stack :
    i < j /\ act[stack[j]].pc \in UnloadPC => stack[i] \in older[stack[j]]

(* The inductive invariant behind DependenciesLoaded, NoCircle, NoReentry.  *)
GraphInv ==
  /\ GraphTypes /\ DependenciesLoaded /\ RecordsOrdered /\ CallsInv /\ StopsYounger
  /\ \A p \in Packages : LoadingOK(p) /\ UnloadingOK(p)

(* A crash loses no line of the start-up list but the one being removed,   *)
(* which may stay, whole or without the beginning of its name.             *)
StartupSurvives ==
  [][Restart => \A i \in DOMAIN startup :
                  startup[i].pkg \notin Rewritten =>
                    \E j \in DOMAIN startup' : startup'[j] = startup[i]]_vars

(* The list stays readable, so that the thread comes up again, through     *)
(* every command and every crash but one: in the midst of the removal of   *)
(* a line that is longer than the last one, when what is left of the old   *)
(* list begins in the checksum of another line.                            *)
StartupReadable ==
  [][Readable(startup) =>
       \/ Readable(startup')
       \/ Restart /\ \E p \in Rewritten :
            Size(startup, 1) - Size(Without(p), 1) > startup[Len(startup)].size]_vars

(* Every command comes to an end: dependency loops end the recursion of    *)
(* loading, and stale dependents do not keep that of unloading going.      *)
CommandsFinish == thread = "busy" ~> thread # "busy"
=============================================================================
