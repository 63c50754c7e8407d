------------------------ MODULE PackageManagerProofs ------------------------
(***************************************************************************)
(* Theorems about PackageManager, for every set of packages, whatever      *)
(* their versions say and whatever the operator does: the dependency graph *)
(* of the loaded packages, the resource registry, the resources that       *)
(* loaded packages use, and the calls of a command.  First the steps that  *)
(* leave GraphInv, then those of _package_load and of _package_unload.     *)
(***************************************************************************)
EXTENDS PackageManagerCommands

USE ZenonT(30) DEF LoadPC, UnloadPC

-----------------------------------------------------------------------------
FilesType == [Packages -> [Ext -> Versions \cup {None}]]
ModulesType == [Packages -> [deps : Versions \cup {None}, cls : Versions \cup {None}]]

(* A step that leaves the records and the calls alone keeps the invariant. *)
LEMMA GraphFrame ==
  ASSUME GraphInv, files' \in FilesType, DOMAIN owned' = Packages,
         UNCHANGED <<packages_loaded, record, modules, older, stack, act>>
  PROVE  GraphInv'
<1>1. GraphTypes'
  BY DEF GraphInv, GraphTypes, FilesType
<1>2. DependenciesLoaded' /\ RecordsOrdered'
  BY DEF GraphInv, DependenciesLoaded, RecordsOrdered
<1>3. CallsInv' /\ StopsYounger'
  BY SMTT(30) DEF GraphInv, CallsInv, StopsYounger, CheckStack
<1>4. \A p \in Packages : LoadingOK(p)' /\ UnloadingOK(p)'
  BY DEF GraphInv, LoadingOK, UnloadingOK
<1> QED BY <1>1, <1>2, <1>3, <1>4 DEF GraphInv

(* A call that returns without touching a record keeps it.                 *)
LEMMA PopFrame ==
  ASSUME GraphInv, NEW p \in Packages, stack # << >>, stack[Len(stack)] = p, Return(p),
         files' \in FilesType, DOMAIN owned' = Packages, modules' \in ModulesType,
         \A q \in Packages : q # p => modules'[q] = modules[q],
         UNCHANGED <<packages_loaded, record, older>>
  PROVE  GraphInv'
<1>1. /\ stack' \in Seq(Packages)
      /\ \A i \in DOMAIN stack' :
           i \in DOMAIN stack /\ stack'[i] = stack[i] /\ stack[i] \in Packages /\ stack[i] # p
      /\ CheckStack' = CheckStack \ {p}
  BY PopStack DEF GraphInv, GraphTypes, CallsInv, Return
<1>2. /\ DOMAIN act' = Packages /\ act'[p] = NoAct
      /\ \A q \in Packages : q # p => act'[q] = act[q]
  BY DEF GraphInv, GraphTypes, Return
<1>3. act'[p].pc = "none" /\ act'[p].left = {} /\ act'[p].dep = None
  BY SMTT(30), <1>2 DEF NoAct
<1>4. GraphTypes'
  <2>1. DOMAIN act'[p] = DOMAIN NoAct
    BY <1>2
  <2> QED BY <1>1, <1>2, <1>3, <2>1 DEF GraphInv, GraphTypes, FilesType, ModulesType
<1>5. DependenciesLoaded' /\ RecordsOrdered'
  BY DEF GraphInv, DependenciesLoaded, RecordsOrdered
<1>6. CallsInv'
  BY <1>1, <1>2, <1>3 DEF GraphInv, CallsInv
<1>7. StopsYounger'
  BY <1>1, <1>2 DEF GraphInv, StopsYounger
<1>8. \A q \in Packages : LoadingOK(q)' /\ UnloadingOK(q)'
  BY <1>2, <1>3 DEF GraphInv, LoadingOK, UnloadingOK
<1> QED BY <1>4, <1>5, <1>6, <1>7, <1>8 DEF GraphInv

(* A call that goes on goes on loading, or goes on unloading.              *)
SameMode(q) ==
  \/ act[q].pc \in LoadPC /\ act'[q].pc \in LoadPC
  \/ act[q].pc \in UnloadPC /\ act'[q].pc \in UnloadPC
  \/ act[q].pc = "none" /\ act'[q].pc = "none"

(* The activation record of p is one.                                      *)
ActType(p) ==
  /\ DOMAIN act'[p] = DOMAIN NoAct
  /\ act'[p].pc \in LoadPC \cup UnloadPC \cup {"none"}
  /\ act'[p].left \subseteq Packages /\ act'[p].dep \in Packages \cup {None}
  /\ act'[p].pc = "import" => act'[p].ext \in Ext

(* The call stack over a step of one call.                                 *)
LEMMA StepCalls ==
  ASSUME GraphInv, NEW p \in Packages, SameMode(p), UNCHANGED <<stack, older>>,
         \A q \in Packages : q # p => act'[q] = act[q]
  PROVE  CallsInv' /\ StopsYounger'
<1>1. \A q \in Packages : SameMode(q)
  BY DEF GraphInv, GraphTypes, SameMode
<1>2. \A q \in Packages : /\ act'[q].pc # "none" <=> act[q].pc # "none"
                          /\ act'[q].pc \in LoadPC <=> act[q].pc \in LoadPC
                          /\ act'[q].pc \in UnloadPC <=> act[q].pc \in UnloadPC
  BY <1>1 DEF SameMode
<1>3. CallsInv'
  BY SMTT(30), <1>2 DEF GraphInv, CallsInv, CheckStack
<1>4. \A i \in DOMAIN stack : stack[i] \in Packages
  BY SMTT(30), ElementOfSeq, LenProperties DEF GraphInv, GraphTypes
<1>5. StopsYounger'
  BY <1>2, <1>4 DEF GraphInv, StopsYounger
<1> QED BY <1>3, <1>5

(* A step of one call that touches no record keeps the invariant.          *)
LEMMA StepFrame ==
  ASSUME GraphInv, NEW p \in Packages, SameMode(p), ActType(p), DOMAIN act' = Packages,
         \A q \in Packages : q # p => act'[q] = act[q],
         modules' \in ModulesType, \A q \in Packages : q # p => modules'[q] = modules[q],
         UNCHANGED <<files, packages_loaded, record, older, stack>>, DOMAIN owned' = Packages,
         LoadingOK(p)', UnloadingOK(p)'
  PROVE  GraphInv'
<1>1. GraphTypes'
  BY DEF GraphInv, GraphTypes, ActType, ModulesType
<1>2. CallsInv' /\ StopsYounger'
  BY StepCalls
<1>3. DependenciesLoaded' /\ RecordsOrdered'
  BY DEF GraphInv, DependenciesLoaded, RecordsOrdered
<1>4. \A q \in Packages : LoadingOK(q)' /\ UnloadingOK(q)'
  <2>1. ASSUME NEW q \in Packages, q # p PROVE LoadingOK(q)' /\ UnloadingOK(q)'
    BY <2>1 DEF GraphInv, LoadingOK, UnloadingOK
  <2> QED BY <2>1
<1> QED BY <1>1, <1>2, <1>3, <1>4 DEF GraphInv

(* A new call: of a load among loads, or of an unload of a package that is *)
(* younger than those that are being unloaded.                             *)
LEMMA PushCalls ==
  ASSUME GraphInv, NEW d \in Packages, d \notin CheckStack, stack' = Append(stack, d),
         UNCHANGED older, \A q \in Packages : q # d => SameMode(q),
         \/ /\ act'[d].pc \in LoadPC
            /\ \A q \in Packages : act[q].pc \notin UnloadPC
         \/ /\ act'[d].pc \in UnloadPC
            /\ \A q \in Packages : act[q].pc \notin LoadPC
            /\ CheckStack \subseteq older[d]
  PROVE  CallsInv' /\ StopsYounger' /\ stack' \in Seq(Packages)
<1>1. /\ stack' \in Seq(Packages)
      /\ Len(stack) \in Nat
      /\ DOMAIN stack = 1..Len(stack) /\ DOMAIN stack' = 1..(Len(stack) + 1)
      /\ \A i \in DOMAIN stack : stack'[i] = stack[i] /\ stack[i] \in Packages
      /\ stack'[Len(stack) + 1] = d
      /\ CheckStack' = CheckStack \cup {d}
  BY PushStack DEF GraphInv, GraphTypes
<1>2. \A q \in Packages \ {d} : /\ act'[q].pc # "none" <=> act[q].pc # "none"
                                /\ act'[q].pc \in LoadPC <=> act[q].pc \in LoadPC
                                /\ act'[q].pc \in UnloadPC <=> act[q].pc \in UnloadPC
  BY DEF SameMode
<1>3. \A i \in DOMAIN stack : stack[i] \in CheckStack /\ stack[i] # d
  BY DEF CheckStack
<1>4. \A i : i \in DOMAIN stack' <=> i \in DOMAIN stack \/ i = Len(stack) + 1
  BY SMTT(30), <1>1
<1>5. CallsInv'
  <2>1. \A q \in Packages : act'[q].pc # "none" <=> q \in CheckStack'
    BY SMTT(30), <1>1, <1>2 DEF GraphInv, CallsInv
  <2>2. \A i, j \in DOMAIN stack' : stack'[i] = stack'[j] => i = j
    <3>1. \A i \in DOMAIN stack : stack'[i] # d
      BY <1>1, <1>3
    <3>2. \A i, j \in DOMAIN stack : stack[i] = stack[j] => i = j
      BY DEF GraphInv, CallsInv
    <3>3. \A i, j \in DOMAIN stack : stack'[i] = stack'[j] => i = j
      BY <1>1, <3>2
    <3>4. stack'[Len(stack) + 1] = d
      BY <1>1
    <3> SUFFICES ASSUME NEW i \in DOMAIN stack', NEW j \in DOMAIN stack', stack'[i] = stack'[j]
                 PROVE  i = j
      OBVIOUS
    <3>5. CASE i \in DOMAIN stack /\ j \in DOMAIN stack
      BY <3>3, <3>5
    <3>6. CASE i \in DOMAIN stack /\ j = Len(stack) + 1
      BY <3>1, <3>4, <3>6
    <3>7. CASE i = Len(stack) + 1 /\ j \in DOMAIN stack
      BY <3>1, <3>4, <3>7
    <3> QED BY <1>4, <3>5, <3>6, <3>7
  <2>3. \A q, r \in Packages : act'[q].pc \in LoadPC => act'[r].pc \notin UnloadPC
    BY <1>2 DEF GraphInv, CallsInv
  <2> QED BY <2>1, <2>2, <2>3 DEF CallsInv
<1>6. StopsYounger'
  <2> SUFFICES ASSUME NEW i \in DOMAIN stack', NEW j \in DOMAIN stack', i < j,
                      act'[stack'[j]].pc \in UnloadPC
               PROVE  stack'[i] \in older[stack'[j]]
    BY DEF StopsYounger
  <2>1. i \in DOMAIN stack
    BY SMTT(30), <1>1
  <2>2. CASE j \in DOMAIN stack
    <3>1. stack[j] \in Packages \ {d} /\ stack'[j] = stack[j] /\ stack'[i] = stack[i]
      BY <1>1, <1>3, <2>1, <2>2
    <3>2. act[stack[j]].pc \in UnloadPC
      BY <1>2, <3>1
    <3> QED BY <2>1, <2>2, <3>1, <3>2 DEF GraphInv, StopsYounger
  <2>3. CASE j = Len(stack) + 1
    <3>1. stack'[j] = d /\ stack'[i] = stack[i] /\ stack[i] \in CheckStack
      BY <1>1, <1>3, <2>1, <2>3
    <3>2. act'[d].pc \in UnloadPC
      BY <3>1
    <3> QED BY <3>1, <3>2
  <2> QED BY <1>4, <2>2, <2>3
<1> QED BY <1>1, <1>5, <1>6

(* A loaded dependent that is still to be stopped is younger than every    *)
(* package of the calls in progress, so none of these is for it.           *)
LEMMA DependentsAreYounger ==
  ASSUME GraphInv, NEW p \in Packages, act[p].pc = "stop", stack # << >>, stack[Len(stack)] = p,
         NEW d \in act[p].left, d \in packages_loaded
  PROVE  CheckStack \subseteq older[d] /\ d \notin CheckStack
<1>1. d \in Packages /\ UnloadingOK(p) /\ p \in packages_loaded
  BY DEF GraphInv, GraphTypes, UnloadingOK
<1>2. d \in record[p].dependents
  BY <1>1 DEF UnloadingOK
<1>3. p \in older[d]
  BY <1>1, <1>2 DEF GraphInv, RecordsOrdered
<1>4. older[p] \subseteq older[d] /\ d \notin older[d]
  BY <1>1, <1>3 DEF GraphInv, RecordsOrdered
<1>5. DOMAIN stack = 1..Len(stack) /\ Len(stack) \in Nat /\ Len(stack) # 0
  BY LenProperties, EmptySeq DEF GraphInv, GraphTypes
<1>6. ASSUME NEW i \in 1..Len(stack) PROVE stack[i] \in older[d]
  <2>1. CASE i = Len(stack)
    BY <1>3, <2>1
  <2>2. CASE i # Len(stack)
    <3>1. i < Len(stack) /\ Len(stack) \in DOMAIN stack /\ i \in DOMAIN stack
      BY <1>5, <1>6, <2>2, BelowLast
    <3>2. stack[i] \in older[p]
      BY <3>1 DEF GraphInv, StopsYounger
    <3> QED BY <1>4, <3>2
  <2> QED BY <2>1, <2>2
<1>7. CheckStack \subseteq older[d]
  BY <1>5, <1>6 DEF CheckStack
<1> QED BY <1>4, <1>7

-----------------------------------------------------------------------------
(* Commands, and calls of a command.                                       *)

(* Accepting a command touches no record.                                  *)
LEMMA CommandKeeps ==
  ASSUME GraphInv, Command
  PROVE  GraphInv'
<1>1. UNCHANGED <<files, packages_loaded, record, modules, older, stack, act, owned>>
  BY DEF Command, LoadAuto, LoadCommand, ReloadCommand, UpdateCommand,
               UpdateListCommand, UnloadCommand, DeleteCommand, UnloadAllCommand, TerminateCommand,
               UpdateAllCommand, Begin, Dies
<1>2. files' \in FilesType /\ DOMAIN owned' = Packages
  BY <1>1 DEF GraphInv, GraphTypes, FilesType
<1> QED BY <1>1, <1>2, GraphFrame

(* The outermost call.                                                     *)
LEMMA EnterKeeps ==
  ASSUME GraphInv, stack = << >>, NEW p \in Packages, NEW a, Enter(p, a),
         \/ \E sum, auto, ext : a = LoadCall(sum, auto, ext)
         \/ p \in packages_loaded /\ a = UnloadCall(p),
         UNCHANGED <<files, packages_loaded, record, modules, owned, older>>
  PROVE  GraphInv'
<1>1. CheckStack = {} /\ \A q \in Packages : act[q].pc = "none"
  BY EmptyStack
<1>2. /\ stack' = Append(stack, p) /\ DOMAIN act' = Packages /\ act'[p] = a
      /\ \A q \in Packages : q # p => act'[q] = act[q]
  BY DEF Enter, GraphInv, GraphTypes
<1>3. /\ DOMAIN a = DOMAIN NoAct /\ a.dep = None
      /\ \/ a.pc = "find" /\ a.left = {}
         \/ a.pc = "stop" /\ p \in packages_loaded /\ a.left = record[p].dependents
  BY DEF LoadCall, UnloadCall, NoAct
<1>4. CallsInv' /\ StopsYounger' /\ stack' \in Seq(Packages)
  BY SMTT(30), <1>1, <1>2, <1>3, PushCalls DEF SameMode
<1>5. GraphTypes'
  <2>1. ActType(p)
    BY <1>2, <1>3 DEF ActType, GraphInv, GraphTypes
  <2> QED BY <1>2, <1>4, <2>1 DEF ActType, GraphInv, GraphTypes
<1>6. DependenciesLoaded' /\ RecordsOrdered'
  BY DEF GraphInv, DependenciesLoaded, RecordsOrdered
<1>7. \A q \in Packages : LoadingOK(q)' /\ UnloadingOK(q)'
  BY <1>1, <1>2, <1>3 DEF LoadingOK, UnloadingOK
<1> QED BY <1>4, <1>5, <1>6, <1>7 DEF GraphInv

(* The calls of a command, but delete.                                     *)
LEMMA TakeKeeps ==
  ASSUME GraphInv,
         TakeLoad \/ TakeUnload \/ TakeUnloadAll \/ TakeRestore \/ TakeSave \/ Quit \/ Done
  PROVE  GraphInv'
<1>1. UNCHANGED <<files, packages_loaded, record, modules, owned, older>> /\ stack = << >>
  BY DEF TakeLoad, TakeUnload, TakeUnloadAll, TakeRestore, TakeSave, Quit, Done, Next1,
                    unchangedByCalls
<1>2. files' \in FilesType /\ DOMAIN owned' = Packages
  BY <1>1 DEF GraphInv, GraphTypes, FilesType
<1>3. CASE UNCHANGED <<stack, act>>
  BY <1>1, <1>2, <1>3, GraphFrame
<1>4. CASE \E p \in Packages : \E sum, auto, ext : Enter(p, LoadCall(sum, auto, ext))
  BY <1>1, <1>4, EnterKeeps
<1>5. CASE \E p \in packages_loaded : Enter(p, UnloadCall(p))
  BY <1>1, <1>5, EnterKeeps DEF GraphInv, GraphTypes
<1> QED BY <1>3, <1>4, <1>5
        DEF TakeLoad, TakeUnload, TakeUnloadAll, TakeRestore, TakeSave, Quit, Done

(* Changes of the package directory.                                       *)
LEMMA FilesKeep ==
  ASSUME GraphInv, TakeDelete \/ \E u \in Uploads : Upload(u)
  PROVE  GraphInv'
<1>1. UNCHANGED <<packages_loaded, record, modules, older, stack, act, owned>>
  BY DEF TakeDelete, Upload, memory
<1>2. DOMAIN owned' = Packages
  BY <1>1 DEF GraphInv, GraphTypes
<1>3. files' \in FilesType
  <2>1. files \in FilesType
    BY DEF GraphInv, GraphTypes, FilesType
  <2>2. CASE TakeDelete
    <3> DEFINE p == Head(todo).pkg
               deleted(kept) == [e \in Ext |-> IF e \in kept THEN files[p][e] ELSE None]
    <3>1. PICK kept \in SUBSET {e \in Ext : files[p][e] # None} :
            files' = [files EXCEPT ![p] = deleted(kept)]
      BY <2>2 DEF TakeDelete
    <3>2. CASE p \in Packages
      <4>1. deleted(kept) \in [Ext -> Versions \cup {None}]
        BY <2>1, <3>2 DEF FilesType
      <4> HIDE DEF p, deleted
      <4> QED BY <2>1, <3>1, <3>2, <4>1 DEF FilesType
    <3>3. CASE p \notin Packages
      <4> HIDE DEF p, deleted
      <4> QED BY <2>1, <3>1, <3>3 DEF FilesType
    <3> QED BY <3>2, <3>3
  <2>3. CASE \E u \in Uploads : Upload(u)
    BY SMTT(30), <2>1, <2>3, PackagesAssumption DEF Upload, FilesType
  <2> QED BY <2>2, <2>3
<1> QED BY <1>1, <1>2, <1>3, GraphFrame

-----------------------------------------------------------------------------
(* Steps of _package_load.                                                 *)

(* A load that ends without a record.                                      *)
LEMMA LoadEnds ==
  ASSUME GraphInv, NEW p \in Packages,
         \/ LoadRefused(p) \/ ImportFails(p) \/ DependencyLoop(p) \/ DependencyFailed(p)
         \/ CreateFails(p) \/ RunRaises(p)
  PROVE  GraphInv'
<1>1. /\ UNCHANGED <<files, packages_loaded, record, owned, older>>
      /\ stack # << >> /\ stack[Len(stack)] = p /\ Return(p)
      /\ modules' \in {modules, [modules EXCEPT ![p] = NoModule]}
  BY DEF LoadRefused, ImportFails, DependencyLoop, DependencyFailed, CreateFails,
                    RunRaises, At, unchangedByLoad
<1>2. files' \in FilesType /\ DOMAIN owned' = Packages
  BY <1>1 DEF GraphInv, GraphTypes, FilesType
<1>3. /\ modules' \in ModulesType
      /\ \A q \in Packages : q # p => modules'[q] = modules[q]
  <2>1. modules \in ModulesType
    BY DEF GraphInv, GraphTypes, ModulesType
  <2> QED BY SMTT(30), <1>1, <2>1 DEF ModulesType, NoModule
<1> QED BY <1>1, <1>2, <1>3, PopFrame

(* The calls are for loads if the innermost is.                            *)
LEMMA AllLoad ==
  ASSUME GraphInv, NEW p \in Packages, act[p].pc \in LoadPC
  PROVE  \A q \in Packages : act[q].pc \notin UnloadPC
BY DEF GraphInv, CallsInv

(* The calls are for unloads if the innermost is.                          *)
LEMMA AllUnload ==
  ASSUME GraphInv, NEW p \in Packages, act[p].pc \in UnloadPC
  PROVE  \A q \in Packages : act[q].pc \notin LoadPC
BY DEF GraphInv, CallsInv

(* Choosing the file.                                                      *)
LEMMA LoadFindKeeps ==
  ASSUME GraphInv, NEW p \in Packages, LoadFind(p)
  PROVE  GraphInv'
<1> DEFINE ext == FileExt(p, act[p].ext)
<1>1. /\ UNCHANGED <<files, packages_loaded, record, modules, owned, older, stack>>
      /\ act[p].pc = "find" /\ p \notin packages_loaded /\ ext # None
  BY DEF LoadFind, At, unchangedByLoad
<1>2. ext \in Ext
  BY <1>1 DEF FileExt, Ext
<1>3. /\ DOMAIN act' = Packages /\ \A q \in Packages : q # p => act'[q] = act[q]
      /\ DOMAIN act'[p] = DOMAIN act[p] /\ act'[p].pc = "import" /\ act'[p].ext = ext
      /\ act'[p].left = act[p].left /\ act'[p].dep = act[p].dep
  <2> HIDE DEF ext
  <2>1. PICK v : act' = [act EXCEPT ![p].pc = "import", ![p].ext = ext,
                                    ![p].sum = IF @ = None THEN v ELSE @]
    BY DEF LoadFind, ext
  <2>2. DOMAIN act = Packages /\ DOMAIN act[p] = DOMAIN NoAct
    BY DEF GraphInv, GraphTypes
  <2> QED BY <2>1, <2>2 DEF NoAct
<1>4. SameMode(p) /\ ActType(p)
  BY <1>1, <1>2, <1>3 DEF SameMode, ActType, GraphInv, GraphTypes
<1>5. LoadingOK(p)' /\ UnloadingOK(p)'
  BY <1>1, <1>3 DEF LoadingOK, UnloadingOK
<1>6. modules' \in ModulesType /\ DOMAIN owned' = Packages
  BY <1>1 DEF GraphInv, GraphTypes, ModulesType
<1> QED BY <1>1, <1>3, <1>4, <1>5, <1>6, StepFrame

(* Importing it, in the namespace of the module of that name.              *)
LEMMA ImportKeeps ==
  ASSUME GraphInv, NEW p \in Packages, Import(p)
  PROVE  GraphInv'
<1> DEFINE v == files[p][act[p].ext]
           m == Namespace(modules[p], v)
<1>1. /\ UNCHANGED <<files, packages_loaded, record, owned, older, stack>>
      /\ act[p].pc = "import" /\ v # None /\ modules' = [modules EXCEPT ![p] = m]
      /\ act' = [act EXCEPT ![p].pc = "deps", ![p].left = Dependencies(m)]
  BY DEF Import, At, unchangedByLoad
<1>2. v \in Versions
  BY SMTT(30), <1>1 DEF GraphInv, GraphTypes
<1>3. m \in [deps : Versions \cup {None}, cls : Versions \cup {None}]
  BY <1>2 DEF Namespace, GraphInv, GraphTypes
<1>4. Dependencies(m) \subseteq Packages
  <2> HIDE DEF m
  <2> QED BY <1>3, PackagesAssumption DEF Dependencies
<1> HIDE DEF v, m
<1>5. /\ modules' \in ModulesType /\ modules'[p] = m
      /\ \A q \in Packages : q # p => modules'[q] = modules[q]
  BY <1>1, <1>3 DEF GraphInv, GraphTypes, ModulesType
<1>6. /\ DOMAIN act' = Packages /\ \A q \in Packages : q # p => act'[q] = act[q]
      /\ DOMAIN act'[p] = DOMAIN act[p] /\ act'[p].pc = "deps"
      /\ act'[p].left = Dependencies(m) /\ act'[p].dep = act[p].dep
  <2>1. DOMAIN act = Packages /\ DOMAIN act[p] = DOMAIN NoAct
    BY DEF GraphInv, GraphTypes
  <2> QED BY <1>1, <2>1 DEF NoAct
<1>7. SameMode(p) /\ ActType(p)
  BY SMTT(30), <1>1, <1>4, <1>6 DEF SameMode, ActType, GraphInv, GraphTypes
<1>8. p \notin packages_loaded
  BY <1>1 DEF GraphInv, LoadingOK
<1>9. LoadingOK(p)' /\ UnloadingOK(p)'
  BY SMTT(30), <1>1, <1>5, <1>6, <1>8 DEF LoadingOK, UnloadingOK
<1>10. DOMAIN owned' = Packages
  BY <1>1 DEF GraphInv, GraphTypes
<1> QED BY <1>1, <1>5, <1>6, <1>7, <1>9, <1>10, StepFrame

(* Creating the package object and registering a resource.                 *)
LEMMA RunKeeps ==
  ASSUME GraphInv, NEW p \in Packages, Create(p) \/ Register(p)
  PROVE  GraphInv'
<1>1. /\ UNCHANGED <<files, packages_loaded, record, modules, older, stack>>
      /\ act[p].pc \in {"deps", "run"}
      /\ act[p].pc = "deps" => act[p].left = {}
  BY DEF Create, Register, At, unchangedByLoad
<1>2. PICK ids : \/ act' = [act EXCEPT ![p].pc = "run", ![p].ids = ids]
                 \/ act[p].pc = "run" /\ act' = [act EXCEPT ![p].ids = @ \ ids]
  BY DEF Create, Register, At
<1>3. DOMAIN act = Packages /\ DOMAIN act[p] = DOMAIN NoAct
  BY DEF GraphInv, GraphTypes
<1>4. /\ DOMAIN act' = Packages /\ \A q \in Packages : q # p => act'[q] = act[q]
      /\ DOMAIN act'[p] = DOMAIN act[p] /\ act'[p].pc = "run"
      /\ act'[p].left = act[p].left /\ act'[p].dep = act[p].dep
  BY SMTT(30), <1>2, <1>3 DEF NoAct
<1>5. SameMode(p) /\ ActType(p)
  BY <1>1, <1>4 DEF SameMode, ActType, GraphInv, GraphTypes
<1>6. LoadingOK(p)' /\ UnloadingOK(p)'
  BY <1>1, <1>4 DEF GraphInv, LoadingOK, UnloadingOK
<1>7. modules' \in ModulesType /\ DOMAIN owned' = Packages
  <2>1. \/ owned' = owned
        \/ \E S : owned' = [owned EXCEPT ![p] = S]
    BY DEF Create, Register
  <2> QED BY <1>1, <2>1 DEF GraphInv, GraphTypes, ModulesType
<1> QED BY <1>1, <1>4, <1>5, <1>6, <1>7, StepFrame

(* Calling _package_load for a dependency.                                 *)
LEMMA LoadDependencyKeeps ==
  ASSUME GraphInv, NEW p \in Packages, LoadDependency(p)
  PROVE  GraphInv'
<1>1. UNCHANGED <<files, packages_loaded, record, modules, owned, older>> /\ act[p].pc = "deps"
  BY DEF LoadDependency, At, unchangedByLoad
<1>2. PICK d \in act[p].left :
        /\ d \notin CheckStack /\ d \notin packages_loaded
        /\ stack' = Append(stack, d)
        /\ act' = [act EXCEPT ![p].pc = "check", ![p].dep = d, ![d] = LoadCall(None, FALSE, None)]
  BY DEF LoadDependency
<1>3. d \in Packages /\ p \in CheckStack /\ d # p
  BY <1>1, <1>2 DEF GraphInv, GraphTypes, CallsInv
<1>4. DOMAIN act = Packages /\ DOMAIN act[p] = DOMAIN NoAct
  BY DEF GraphInv, GraphTypes
<1>5. /\ DOMAIN act' = Packages /\ \A q \in Packages : q # p /\ q # d => act'[q] = act[q]
      /\ DOMAIN act'[p] = DOMAIN act[p] /\ act'[p].pc = "check"
      /\ act'[p].left = act[p].left /\ act'[p].dep = d
      /\ act'[d] = LoadCall(None, FALSE, None)
  BY <1>2, <1>3, <1>4 DEF NoAct
<1>6. /\ DOMAIN act'[d] = DOMAIN NoAct /\ act'[d].pc = "find"
      /\ act'[d].left = {} /\ act'[d].dep = None
  BY <1>5 DEF LoadCall, NoAct
<1>7. \A q \in Packages : q # d => SameMode(q)
  BY <1>1, <1>5 DEF SameMode, GraphInv, GraphTypes
<1>8. CallsInv' /\ StopsYounger' /\ stack' \in Seq(Packages)
  BY <1>1, <1>2, <1>3, <1>6, <1>7, AllLoad, PushCalls
<1>9. GraphTypes'
  <2>1. ActType(p) /\ ActType(d)
    BY <1>3, <1>4, <1>5, <1>6 DEF ActType, GraphInv, GraphTypes
  <2> QED BY <1>1, <1>5, <1>8, <2>1 DEF ActType, GraphInv, GraphTypes
<1>10. DependenciesLoaded' /\ RecordsOrdered'
  BY <1>1 DEF GraphInv, DependenciesLoaded, RecordsOrdered
<1>11. \A q \in Packages : LoadingOK(q)' /\ UnloadingOK(q)'
  <2>1. LoadingOK(d)' /\ UnloadingOK(d)'
    BY <1>6 DEF LoadingOK, UnloadingOK
  <2>2. LoadingOK(p)' /\ UnloadingOK(p)'
    <3>1. LoadingOK(p)
      BY DEF GraphInv
    <3> QED BY <1>1, <1>5, <3>1 DEF LoadingOK, UnloadingOK
  <2>3. ASSUME NEW q \in Packages, q # p, q # d PROVE LoadingOK(q)' /\ UnloadingOK(q)'
    <3>1. LoadingOK(q) /\ UnloadingOK(q)
      BY DEF GraphInv
    <3>2. act'[q] = act[q]
      BY <1>5, <2>3
    <3> QED BY <1>1, <3>1, <3>2 DEF LoadingOK, UnloadingOK
  <2> QED BY <2>1, <2>2, <2>3
<1> QED BY <1>8, <1>9, <1>10, <1>11 DEF GraphInv

(* add_dependent, while the dependent is not loaded itself.                *)
LEMMA AddDependentKeeps ==
  ASSUME GraphInv, NEW p \in Packages, AddDependent(p)
  PROVE  GraphInv'
<1>1. /\ UNCHANGED <<files, packages_loaded, modules, owned, older, stack>>
      /\ act[p].pc \in {"deps", "check"}
  BY DEF AddDependent, At, unchangedByLoad
<1>2. PICK d \in act[p].left :
        /\ d \in packages_loaded
        /\ record' = [record EXCEPT ![d].dependents = @ \cup {p}]
        /\ act' = [act EXCEPT ![p].pc = "deps", ![p].dep = None, ![p].left = @ \ {d}]
  BY DEF AddDependent
<1>3. d \in Packages /\ p \notin packages_loaded /\ d # p
  <2>1. LoadingOK(p) /\ packages_loaded \subseteq Packages
    BY DEF GraphInv, GraphTypes
  <2> QED BY <1>1, <1>2, <2>1 DEF LoadingOK
<1>4. /\ DOMAIN act = Packages /\ DOMAIN act[p] = DOMAIN NoAct
      /\ DOMAIN record = Packages /\ DOMAIN record[d] = DOMAIN NoRecord
  BY <1>3 DEF GraphInv, GraphTypes
<1>5. /\ DOMAIN act' = Packages /\ \A q \in Packages : q # p => act'[q] = act[q]
      /\ DOMAIN act'[p] = DOMAIN act[p] /\ act'[p].pc = "deps"
      /\ act'[p].left = act[p].left \ {d} /\ act'[p].dep = None
  BY <1>2, <1>4 DEF NoAct
<1>6. /\ DOMAIN record' = Packages /\ DOMAIN record'[d] = DOMAIN record[d]
      /\ \A q \in Packages : q # d => record'[q] = record[q]
      /\ record'[d].dependents = record[d].dependents \cup {p}
      /\ record'[d].dependencies = record[d].dependencies
  BY <1>2, <1>3, <1>4 DEF NoRecord
<1>7. \A q \in Packages : /\ record'[q].dependencies = record[q].dependencies
                          /\ record[q].dependents \subseteq record'[q].dependents
                          /\ record'[q].dependents \subseteq record[q].dependents \cup {p}
  BY <1>6
<1>8. SameMode(p)
  BY <1>1, <1>5 DEF SameMode
<1>9. CallsInv' /\ StopsYounger'
  BY <1>1, <1>5, <1>8, StepCalls
<1>10. GraphTypes'
  <2>1. ActType(p)
    BY <1>4, <1>5 DEF ActType, GraphInv, GraphTypes
  <2>2. \A q \in Packages : /\ DOMAIN record'[q] = DOMAIN NoRecord
                            /\ record'[q].dependents \subseteq Packages
                            /\ record'[q].dependencies \subseteq Packages
    BY SMTT(30), <1>4, <1>6, <1>7 DEF GraphInv, GraphTypes
  <2> QED BY <1>1, <1>5, <1>6, <2>1, <2>2 DEF ActType, GraphInv, GraphTypes
<1>11. DependenciesLoaded'
  BY <1>1, <1>7 DEF GraphInv, GraphTypes, DependenciesLoaded
<1>12. RecordsOrdered'
  BY SMTT(30), <1>1, <1>3, <1>7 DEF GraphInv, GraphTypes, RecordsOrdered
<1>13. \A q \in Packages : LoadingOK(q)' /\ UnloadingOK(q)'
  <2>1. LoadingOK(p)' /\ UnloadingOK(p)'
    <3>1. LoadingOK(p) /\ packages_loaded \subseteq Packages
      BY DEF GraphInv, GraphTypes
    <3> QED BY SMTT(30), <1>1, <1>2, <1>3, <1>5, <1>6, <1>7, <3>1 DEF LoadingOK, UnloadingOK
  <2>2. ASSUME NEW q \in Packages, q # p PROVE LoadingOK(q)' /\ UnloadingOK(q)'
    <3>1. LoadingOK(q) /\ act'[q] = act[q] /\ act[q].pc \notin UnloadPC
      BY <1>1, <1>5, <2>2, AllLoad DEF GraphInv
    <3>2. packages_loaded \subseteq Packages
      BY DEF GraphInv, GraphTypes
    <3> QED BY <1>1, <1>7, <3>1, <3>2 DEF LoadingOK, UnloadingOK
  <2> QED BY <2>1, <2>2
<1> QED BY <1>9, <1>10, <1>11, <1>12, <1>13 DEF GraphInv

(* Entering the package into _packages_loaded.                             *)
LEMMA RecordKeeps ==
  ASSUME GraphInv, NEW p \in Packages, Record(p)
  PROVE  GraphInv'
<1>1. /\ UNCHANGED <<files, modules, owned>>
      /\ act[p].pc = "run" /\ stack # << >> /\ stack[Len(stack)] = p /\ Return(p)
      /\ packages_loaded' = packages_loaded \cup {p}
      /\ older' = [older EXCEPT ![p] = packages_loaded]
      /\ record' = [record EXCEPT ![p] =
                      [ext |-> act[p].ext, sha1 |-> act[p].sum, cls |-> modules[p].cls,
                       dependents |-> {}, dependencies |-> Dependencies(modules[p])]]
  BY DEF Record, At, unchangedByLoad
<1>2. /\ p \notin packages_loaded
      /\ \A d \in Dependencies(modules[p]) : d \in packages_loaded /\ p \in record[d].dependents
  <2>1. LoadingOK(p)
    BY DEF GraphInv
  <2> QED BY <1>1, <2>1 DEF LoadingOK
<1>3. /\ DOMAIN record' = Packages /\ DOMAIN record'[p] = DOMAIN NoRecord
      /\ \A q \in Packages : q # p => record'[q] = record[q]
      /\ record'[p].dependents = {} /\ record'[p].dependencies = Dependencies(modules[p])
  <2>1. DOMAIN record = Packages
    BY DEF GraphInv, GraphTypes
  <2> QED BY <1>1, <2>1 DEF NoRecord
<1>4. /\ older' \in [Packages -> SUBSET Packages] /\ older'[p] = packages_loaded
      /\ \A q \in Packages : q # p => older'[q] = older[q]
  BY <1>1 DEF GraphInv, GraphTypes
<1>5. /\ stack' \in Seq(Packages)
      /\ \A i \in DOMAIN stack' :
           i \in DOMAIN stack /\ stack'[i] = stack[i] /\ stack[i] \in Packages /\ stack[i] # p
      /\ CheckStack' = CheckStack \ {p}
  BY <1>1, PopStack DEF GraphInv, GraphTypes, CallsInv, Return
<1>6. /\ DOMAIN act' = Packages /\ act'[p] = NoAct
      /\ \A q \in Packages : q # p => act'[q] = act[q]
  BY <1>1 DEF GraphInv, GraphTypes, Return
<1>7. act'[p].pc = "none" /\ act'[p].left = {} /\ act'[p].dep = None
  BY SMTT(30), <1>6 DEF NoAct
<1>8. packages_loaded \subseteq Packages
  BY DEF GraphInv, GraphTypes
<1>9. GraphTypes'
  <2>1. DOMAIN act'[p] = DOMAIN NoAct
    BY <1>6
  <2>2. record'[p].dependents \subseteq Packages /\ record'[p].dependencies \subseteq Packages
    BY <1>2, <1>3, <1>8
  <2>3. \A q \in Packages :
          /\ DOMAIN record'[q] = DOMAIN NoRecord
          /\ record'[q].dependents \subseteq Packages /\ record'[q].dependencies \subseteq Packages
    BY <1>3, <2>2 DEF GraphInv, GraphTypes
  <2>4. \A q \in Packages :
          /\ DOMAIN act'[q] = DOMAIN NoAct
          /\ act'[q].pc \in LoadPC \cup UnloadPC \cup {"none"}
          /\ act'[q].left \subseteq Packages /\ act'[q].dep \in Packages \cup {None}
          /\ act'[q].pc = "import" => act'[q].ext \in Ext
    BY <1>6, <1>7, <2>1 DEF GraphInv, GraphTypes
  <2>5. packages_loaded' \subseteq Packages
    BY <1>1, <1>8
  <2> QED BY <1>1, <1>3, <1>4, <1>5, <1>6, <2>3, <2>4, <2>5 DEF GraphInv, GraphTypes
<1>10. DependenciesLoaded'
  BY SMTT(30), <1>1, <1>2, <1>3, <1>8 DEF GraphInv, DependenciesLoaded
<1>11. RecordsOrdered'
  <2> USE DEF GraphInv, RecordsOrdered
  <2>1. \A q \in Packages : older'[q] \subseteq packages_loaded' \ {q}
    BY <1>1, <1>2, <1>4
  <2>2. \A r \in Packages : \A q \in older'[r] : older'[q] \subseteq older'[r]
    BY SMTT(30), <1>1, <1>2, <1>4, <1>8
  <2>3. \A q \in packages_loaded' : record'[q].dependencies \subseteq older'[q]
    BY SMTT(30), <1>1, <1>2, <1>3, <1>4, <1>8
  <2>4. \A r \in packages_loaded' :
          \A q \in record'[r].dependents \cap packages_loaded' : r \in older'[q]
    BY SMTT(30), <1>1, <1>2, <1>3, <1>4, <1>8
  <2> QED BY <2>1, <2>2, <2>3, <2>4
<1>12. CallsInv'
  BY <1>5, <1>6, <1>7 DEF GraphInv, CallsInv
<1>13. \A q \in Packages : act'[q].pc \notin UnloadPC
  BY <1>1, <1>6, <1>7, AllLoad
<1>14. StopsYounger'
  BY <1>5, <1>13 DEF StopsYounger
<1>15. \A q \in Packages : LoadingOK(q)' /\ UnloadingOK(q)'
  BY SMTT(30), <1>1, <1>2, <1>3, <1>6, <1>7, <1>8, <1>13 DEF GraphInv, LoadingOK, UnloadingOK
<1> QED BY <1>9, <1>10, <1>11, <1>12, <1>14, <1>15 DEF GraphInv

-----------------------------------------------------------------------------
(* Steps of _package_unload.                                               *)

(* Calling _package_unload for a dependent, or skipping one.               *)
LEMMA StopDependentKeeps ==
  ASSUME GraphInv, NEW p \in Packages, StopDependent(p)
  PROVE  GraphInv'
<1>1. /\ UNCHANGED <<files, packages_loaded, record, modules, owned, older>>
      /\ act[p].pc = "stop" /\ stack # << >> /\ stack[Len(stack)] = p
  BY DEF StopDependent, At, unchangedByLoad
<1>2. PICK d \in act[p].left :
        \/ /\ d \in packages_loaded
           /\ stack' = Append(stack, d)
           /\ act' = [act EXCEPT ![p].pc = "await", ![p].dep = d, ![p].left = @ \ {d},
                                 ![d] = UnloadCall(d)]
        \/ /\ d \notin packages_loaded
           /\ act' = [act EXCEPT ![p].left = @ \ {d}]
           /\ UNCHANGED stack
  BY DEF StopDependent
<1>3. /\ d \in Packages /\ UnloadingOK(p) /\ p \in packages_loaded
      /\ DOMAIN act = Packages /\ DOMAIN act[p] = DOMAIN NoAct
  BY <1>1 DEF GraphInv, GraphTypes, UnloadingOK
<1>4. CASE d \notin packages_loaded
  <2>1. /\ DOMAIN act' = Packages /\ \A q \in Packages : q # p => act'[q] = act[q]
        /\ DOMAIN act'[p] = DOMAIN act[p] /\ act'[p].pc = "stop"
        /\ act'[p].left = act[p].left \ {d} /\ act'[p].dep = act[p].dep
    BY SMTT(30), <1>1, <1>2, <1>3, <1>4 DEF NoAct
  <2>2. SameMode(p) /\ ActType(p)
    BY <1>1, <1>3, <2>1 DEF SameMode, ActType, GraphInv, GraphTypes
  <2>3. LoadingOK(p)' /\ UnloadingOK(p)'
    BY <1>1, <1>3, <1>4, <2>1 DEF LoadingOK, UnloadingOK
  <2>4. modules' \in ModulesType /\ DOMAIN owned' = Packages /\ UNCHANGED stack
    BY <1>1, <1>2, <1>4 DEF GraphInv, GraphTypes, ModulesType
  <2> QED BY <1>1, <2>1, <2>2, <2>3, <2>4, StepFrame
<1>5. CASE d \in packages_loaded
  <2>2. CheckStack \subseteq older[d] /\ d \notin CheckStack
    BY <1>1, <1>5, DependentsAreYounger
  <2>3. d # p /\ stack' = Append(stack, d)
    <3>1. p \in CheckStack
      BY <1>1 DEF GraphInv, CallsInv
    <3> QED BY <1>2, <1>5, <2>2, <3>1
  <2>4. /\ DOMAIN act' = Packages /\ \A q \in Packages : q # p /\ q # d => act'[q] = act[q]
        /\ DOMAIN act'[p] = DOMAIN act[p] /\ act'[p].pc = "await"
        /\ act'[p].left = act[p].left \ {d} /\ act'[p].dep = d
        /\ act'[d] = UnloadCall(d)
    BY SMTT(30), <1>2, <1>3, <1>5, <2>3 DEF NoAct
  <2>5. /\ DOMAIN act'[d] = DOMAIN NoAct /\ act'[d].pc = "stop"
        /\ act'[d].left = record[d].dependents /\ act'[d].dep = None
    BY <2>4 DEF UnloadCall, NoAct
  <2>6. \A q \in Packages : q # d => SameMode(q)
    <3>1. SameMode(p)
      BY <1>1, <2>4 DEF SameMode
    <3>2. \A q \in Packages : act[q].pc \in LoadPC \cup UnloadPC \cup {"none"}
      BY DEF GraphInv, GraphTypes
    <3> QED BY <2>4, <3>1, <3>2 DEF SameMode
  <2>7. CallsInv' /\ StopsYounger' /\ stack' \in Seq(Packages)
    BY <1>1, <1>3, <2>2, <2>3, <2>5, <2>6, AllUnload, PushCalls
  <2>8. GraphTypes'
    <3>1. ActType(p) /\ ActType(d)
      BY <1>3, <2>4, <2>5 DEF ActType, GraphInv, GraphTypes
    <3>2. \A q \in Packages :
            /\ DOMAIN act'[q] = DOMAIN NoAct
            /\ act'[q].pc \in LoadPC \cup UnloadPC \cup {"none"}
            /\ act'[q].left \subseteq Packages /\ act'[q].dep \in Packages \cup {None}
            /\ act'[q].pc = "import" => act'[q].ext \in Ext
      BY <2>4, <3>1 DEF ActType, GraphInv, GraphTypes
    <3> QED BY <1>1, <2>4, <2>7, <3>2 DEF GraphInv, GraphTypes
  <2>9. DependenciesLoaded' /\ RecordsOrdered'
    BY <1>1 DEF GraphInv, DependenciesLoaded, RecordsOrdered
  <2>10. LoadingOK(d)' /\ UnloadingOK(d)'
    BY <1>1, <1>5, <2>5 DEF LoadingOK, UnloadingOK
  <2>11. LoadingOK(p)' /\ UnloadingOK(p)'
    BY <1>1, <1>3, <1>5, <2>4 DEF LoadingOK, UnloadingOK
  <2>12. ASSUME NEW q \in Packages, q # p, q # d PROVE LoadingOK(q)' /\ UnloadingOK(q)'
    <3>1. LoadingOK(q) /\ UnloadingOK(q)
      BY DEF GraphInv
    <3>2. act'[q] = act[q]
      BY <2>4, <2>12
    <3> QED BY <1>1, <3>1, <3>2 DEF LoadingOK, UnloadingOK
  <2>13. \A q \in Packages : LoadingOK(q)' /\ UnloadingOK(q)'
    BY <2>10, <2>11, <2>12
  <2> QED BY <2>7, <2>8, <2>9, <2>13 DEF GraphInv
<1> QED BY <1>4, <1>5

(* Coming back from it.                                                    *)
LEMMA DependentStoppedKeeps ==
  ASSUME GraphInv, NEW p \in Packages, DependentStopped(p)
  PROVE  GraphInv'
<1>1. /\ UNCHANGED <<files, packages_loaded, record, modules, owned, older>>
      /\ act[p].pc = "await" /\ stack # << >> /\ stack[Len(stack)] = p
  BY DEF DependentStopped, At, unchangedByLoad
<1>2. files' \in FilesType /\ modules' \in ModulesType /\ DOMAIN owned' = Packages
  BY <1>1 DEF GraphInv, GraphTypes, FilesType, ModulesType
<1>3. CASE act[p].dep \in packages_loaded
  <2>1. Return(p)
    BY <1>3 DEF DependentStopped
  <2> QED BY <1>1, <1>2, <2>1, PopFrame
<1>4. CASE act[p].dep \notin packages_loaded
  <2>1. act' = [act EXCEPT ![p].pc = "stop", ![p].dep = None] /\ UNCHANGED stack
    BY <1>4 DEF DependentStopped
  <2>2. /\ DOMAIN act = Packages /\ DOMAIN act[p] = DOMAIN NoAct /\ UnloadingOK(p)
    BY DEF GraphInv, GraphTypes
  <2>3. /\ DOMAIN act' = Packages /\ \A q \in Packages : q # p => act'[q] = act[q]
        /\ DOMAIN act'[p] = DOMAIN act[p] /\ act'[p].pc = "stop"
        /\ act'[p].left = act[p].left /\ act'[p].dep = None
    BY <2>1, <2>2 DEF NoAct
  <2>4. SameMode(p) /\ ActType(p)
    BY <1>1, <2>2, <2>3 DEF SameMode, ActType, GraphInv, GraphTypes
  <2>5. LoadingOK(p)' /\ UnloadingOK(p)'
    BY <1>1, <1>4, <2>2, <2>3 DEF LoadingOK, UnloadingOK
  <2> QED BY <1>1, <1>2, <2>1, <2>3, <2>4, <2>5, StepFrame
<1> QED BY <1>3, <1>4

(* No loaded package depends on one that is taken off _packages_loaded.    *)
LEMMA UnloadKeeps ==
  ASSUME GraphInv, NEW p \in Packages, Unload(p)
  PROVE  GraphInv'
<1>1. /\ UNCHANGED <<files, modules>>
      /\ act[p].pc = "stop" /\ act[p].left = {}
      /\ stack # << >> /\ stack[Len(stack)] = p /\ Return(p)
      /\ owned' = [owned EXCEPT ![p] = {}]
      /\ packages_loaded' = packages_loaded \ {p}
      /\ record' = [q \in Packages |->
                      IF q = p THEN NoRecord
                      ELSE IF q \in record[p].dependencies
                      THEN [record[q] EXCEPT !.dependents = @ \ {p}]
                      ELSE record[q]]
      /\ older' = [q \in Packages |-> IF q = p THEN {} ELSE older[q] \ {p}]
  BY DEF Unload, At
<1>2. p \in packages_loaded /\ record[p].dependents \cap packages_loaded = {}
  <2>1. UnloadingOK(p)
    BY DEF GraphInv
  <2> QED BY <1>1, <2>1 DEF UnloadingOK
<1>3. \A q \in packages_loaded : p \notin record[q].dependencies
  BY <1>2 DEF GraphInv, DependenciesLoaded
<1>4. /\ DOMAIN record' = Packages /\ record'[p] = NoRecord
      /\ \A q \in Packages : q # p =>
           /\ DOMAIN record'[q] = DOMAIN NoRecord
           /\ record'[q].dependencies = record[q].dependencies
           /\ record'[q].dependents \subseteq record[q].dependents
           /\ record[q].dependents \subseteq record'[q].dependents \cup {p}
  <2>1. \A q \in Packages : DOMAIN record[q] = DOMAIN NoRecord
    BY DEF GraphInv, GraphTypes
  <2> QED BY <1>1, <2>1 DEF NoRecord
<1>5. record'[p].dependents = {} /\ record'[p].dependencies = {}
  BY SMTT(30), <1>4 DEF NoRecord
<1>6. /\ older' \in [Packages -> SUBSET Packages] /\ older'[p] = {}
      /\ \A q \in Packages : q # p => older'[q] = older[q] \ {p}
  BY <1>1 DEF GraphInv, GraphTypes
<1>7. /\ stack' \in Seq(Packages)
      /\ \A i \in DOMAIN stack' :
           i \in DOMAIN stack /\ stack'[i] = stack[i] /\ stack[i] \in Packages /\ stack[i] # p
      /\ CheckStack' = CheckStack \ {p}
  BY <1>1, PopStack DEF GraphInv, GraphTypes, CallsInv, Return
<1>8. /\ DOMAIN act' = Packages /\ act'[p] = NoAct
      /\ \A q \in Packages : q # p => act'[q] = act[q]
  BY <1>1 DEF GraphInv, GraphTypes, Return
<1>9. act'[p].pc = "none" /\ act'[p].left = {} /\ act'[p].dep = None
  BY SMTT(30), <1>8 DEF NoAct
<1>10. packages_loaded \subseteq Packages
  BY DEF GraphInv, GraphTypes
<1>11. GraphTypes'
  <2>1. \A q \in Packages :
          /\ DOMAIN record'[q] = DOMAIN NoRecord
          /\ record'[q].dependents \subseteq Packages /\ record'[q].dependencies \subseteq Packages
    <3>1. DOMAIN record'[p] = DOMAIN NoRecord
      BY <1>4
    <3> QED BY <1>4, <1>5, <3>1 DEF GraphInv, GraphTypes
  <2>2. \A q \in Packages :
          /\ DOMAIN act'[q] = DOMAIN NoAct
          /\ act'[q].pc \in LoadPC \cup UnloadPC \cup {"none"}
          /\ act'[q].left \subseteq Packages /\ act'[q].dep \in Packages \cup {None}
          /\ act'[q].pc = "import" => act'[q].ext \in Ext
    <3>1. DOMAIN act'[p] = DOMAIN NoAct
      BY <1>8
    <3> QED BY <1>8, <1>9, <3>1 DEF GraphInv, GraphTypes
  <2>3. packages_loaded' \subseteq Packages /\ DOMAIN owned' = Packages
    BY <1>1, <1>10 DEF GraphInv, GraphTypes
  <2> QED BY <1>1, <1>4, <1>6, <1>7, <1>8, <2>1, <2>2, <2>3 DEF GraphInv, GraphTypes
<1>12. DependenciesLoaded'
  BY SMTT(30), <1>1, <1>3, <1>4, <1>10 DEF GraphInv, DependenciesLoaded
<1>13. RecordsOrdered'
  <2> USE DEF GraphInv, RecordsOrdered
  <2>1. \A q \in Packages : older'[q] \subseteq packages_loaded' \ {q}
    BY <1>1, <1>6
  <2>2. \A r \in Packages : \A q \in older'[r] : older'[q] \subseteq older'[r]
    BY SMTT(30), <1>6, <1>10
  <2>3. \A q \in packages_loaded' : record'[q].dependencies \subseteq older'[q]
    BY SMTT(30), <1>1, <1>3, <1>4, <1>6, <1>10
  <2>4. \A r \in packages_loaded' :
          \A q \in record'[r].dependents \cap packages_loaded' : r \in older'[q]
    BY SMTT(30), <1>1, <1>4, <1>6, <1>10
  <2> QED BY <2>1, <2>2, <2>3, <2>4
<1>14. CallsInv'
  BY <1>7, <1>8, <1>9 DEF GraphInv, CallsInv
<1>15. StopsYounger'
  BY SMTT(30), <1>6, <1>7, <1>8 DEF GraphInv, StopsYounger
<1>16. \A q \in Packages : act'[q].pc \notin LoadPC
  BY <1>1, <1>8, <1>9, AllUnload
<1>17. \A q \in Packages : LoadingOK(q)' /\ UnloadingOK(q)'
  <2>1. \A q \in Packages : LoadingOK(q)'
    BY <1>16 DEF LoadingOK
  <2>2. UnloadingOK(p)'
    BY <1>9 DEF UnloadingOK
  <2>3. ASSUME NEW q \in Packages, q # p PROVE UnloadingOK(q)'
    <3>1. UnloadingOK(q) /\ act'[q] = act[q]
      BY <1>8, <2>3 DEF GraphInv
    <3> QED BY <1>1, <1>4, <2>3, <3>1 DEF UnloadingOK
  <2> QED BY <2>1, <2>2, <2>3
<1> QED BY <1>11, <1>12, <1>13, <1>14, <1>15, <1>17 DEF GraphInv

(* The three steps together.                                               *)
LEMMA UnloadStepKeeps ==
  ASSUME GraphInv, NEW p \in Packages, StopDependent(p) \/ DependentStopped(p) \/ Unload(p)
  PROVE  GraphInv'
BY StopDependentKeeps, DependentStoppedKeeps, UnloadKeeps

-----------------------------------------------------------------------------
(* The invariant, from the empty gateway on.                               *)

(* No package is loaded or being loaded, as when the process starts.       *)
Empty ==
  /\ packages_loaded = {} /\ record = [p \in Packages |-> NoRecord] /\ files \in FilesType
  /\ modules = [p \in Packages |-> NoModule] /\ owned = [p \in Packages |-> {}]
  /\ stack = << >> /\ act = [p \in Packages |-> NoAct] /\ older = [p \in Packages |-> {}]

(* The invariant holds there.                                              *)
LEMMA EmptyGraph == Empty => GraphInv
<1> SUFFICES ASSUME Empty PROVE GraphInv
  OBVIOUS
<1> USE DEF Empty
<1>1. /\ DOMAIN stack = {} /\ stack \in Seq(Packages)
  BY SMTT(30), EmptySeq, LenProperties
<1>2. CheckStack = {}
  BY <1>1 DEF CheckStack
<1>3. \A p \in Packages : act[p].pc = "none" /\ act[p].left = {} /\ act[p].dep = None
  BY DEF NoAct
<1>4. \A p \in Packages : record[p].dependents = {} /\ record[p].dependencies = {}
  BY DEF NoRecord
<1>5. GraphTypes
  BY <1>1, <1>3, <1>4 DEF GraphTypes, FilesType, NoModule
<1>6. DependenciesLoaded /\ RecordsOrdered
  BY DEF DependenciesLoaded, RecordsOrdered
<1>7. CallsInv /\ StopsYounger
  BY <1>1, <1>2, <1>3 DEF CallsInv, StopsYounger
<1>8. \A p \in Packages : LoadingOK(p) /\ UnloadingOK(p)
  BY <1>3 DEF LoadingOK, UnloadingOK
<1> QED BY <1>5, <1>6, <1>7, <1>8 DEF GraphInv

(* The same after a step.                                                  *)
LEMMA EmptyGraphNext == Empty' => GraphInv'
BY EmptyGraph, PTL

(* The process starts with the invariant.                                  *)
LEMMA InitGraph == Init => GraphInv
BY EmptyGraph, PackagesAssumption DEF Init, Empty, FilesType

(* So does one that is started again.                                      *)
LEMMA RestartKeeps ==
  ASSUME GraphInv, Restart
  PROVE  GraphInv'
<1>1. files' \in FilesType
  <2>1. files \in FilesType
    BY DEF GraphInv, GraphTypes, FilesType
  <2>2. \/ files' = files
        \/ \E p \in Packages : files' = [files EXCEPT ![p] = [e \in Ext |-> None]]
    BY DEF Restart, Rewritten
  <2> QED BY <2>1, <2>2 DEF FilesType
<1> QED BY <1>1, EmptyGraphNext DEF Restart, Empty

(* Every step keeps the invariant.                                         *)
LEMMA GraphStep == GraphInv /\ [Next]_vars => GraphInv'
<1> SUFFICES ASSUME GraphInv, [Next]_vars PROVE GraphInv'
  OBVIOUS
<1>1. ASSUME NEW p \in Packages, Load(p) PROVE GraphInv'
  BY <1>1, LoadEnds, LoadFindKeeps, ImportKeeps, RunKeeps, LoadDependencyKeeps,
     AddDependentKeeps, RecordKeeps DEF Load
<1>2. CASE Work
  BY <1>1, <1>2, TakeKeeps, FilesKeep, UnloadStepKeeps DEF Work
<1>3. CASE UNCHANGED vars
  <2>1. UNCHANGED <<files, packages_loaded, record, modules, older, stack, act, owned>>
    BY <1>3 DEF vars, memory
  <2>2. files' \in FilesType /\ DOMAIN owned' = Packages
    BY <2>1 DEF GraphInv, GraphTypes, FilesType
  <2> QED BY <2>1, <2>2, GraphFrame
<1> QED BY <1>2, <1>3, CommandKeeps, FilesKeep, RestartKeeps DEF Next

(* GraphInv holds throughout every behaviour of PackageThread.             *)
THEOREM GraphInvariant == Spec => []GraphInv
BY InitGraph, GraphStep, PTL DEF Spec

(* A loaded package has its dependencies loaded, in the midst of every     *)
(* load and unload too, whatever files the operator puts in place.         *)
THEOREM DependenciesStay == Spec => []DependenciesLoaded
<1>1. GraphInv => DependenciesLoaded
  BY DEF GraphInv
<1> QED BY <1>1, GraphInvariant, PTL

(* _package_unload never calls itself for a package that it is unloading:  *)
(* its recursion is bounded by the number of loaded packages.              *)
THEOREM UnloadNeverReenters == Spec => []NoReentry
<1>1. GraphInv => NoReentry
  BY DependentsAreYounger DEF NoReentry, At
<1> QED BY <1>1, GraphInvariant, PTL

(* Loaded packages never depend on each other in a circle: among any of    *)
(* them there is one that depends on none of the others.                   *)
THEOREM DependenciesAreAcyclic == Spec => []NoCircle
<1>1. GraphInv => NoCircle
  <2> SUFFICES ASSUME GraphInv, NEW S \in SUBSET packages_loaded, S # {}
               PROVE  \E p \in S : record[p].dependencies \cap S = {}
    BY DEF NoCircle
  <2> DEFINE R == StrictSubsetOrdering(Packages)
             T == {older[p] : p \in S}
  <2>1. S \subseteq Packages
    BY DEF GraphInv, GraphTypes
  <2>2. T \subseteq SUBSET Packages /\ T # {}
    BY SMTT(30), <2>1 DEF GraphInv, GraphTypes
  <2>3. IsWellFoundedOn(R, SUBSET Packages)
    <3>1. IsFiniteSet(Packages)
      BY PackagesAssumption
    <3>2. FiniteSubsetsOf(Packages) = SUBSET Packages
      BY <3>1, FS_FiniteSubsetsOfFinite
    <3>3. IsWellFoundedOn(R, FiniteSubsetsOf(Packages))
      BY FS_StrictSubsetOrderingWellFounded
    <3> HIDE DEF R
    <3> QED BY <3>2, <3>3
  <2>4. PICK x \in T : \A y \in T : ~(<<y, x>> \in R)
    <3> HIDE DEF R, T
    <3> QED BY <2>2, <2>3, WFMin
  <2>5. PICK p \in S : x = older[p]
    BY <2>4
  <2>6. ASSUME NEW d \in record[p].dependencies \cap S PROVE FALSE
    <3>1. d \in older[p] /\ older[d] \subseteq older[p] /\ d \notin older[d]
      <4>1. d \in Packages /\ p \in Packages /\ p \in packages_loaded
        BY <2>1
      <4>2. d \in older[p]
        BY <2>6, <4>1 DEF GraphInv, RecordsOrdered
      <4> QED BY <4>1, <4>2 DEF GraphInv, RecordsOrdered
    <3>2. older[d] \in T /\ older[d] # older[p]
      BY <2>6, <3>1
    <3>3. <<older[d], older[p]>> \in R
      BY SMTT(30), <2>1, <2>2, <2>6, <3>1, <3>2 DEF StrictSubsetOrdering
    <3> QED BY <2>4, <2>5, <3>2, <3>3
  <2> QED BY <2>6
<1> QED BY <1>1, GraphInvariant, PTL

-----------------------------------------------------------------------------
(* The resource registry.                                                  *)

(* Which steps change it.                                                  *)
LEMMA RegistrySteps ==
  ASSUME [Next]_vars
  PROVE  \/ UNCHANGED <<registry, owned>>
         \/ Restart
         \/ \E p \in Packages : Register(p) \/ Unload(p)
BY ZenonT(60) DEF Next, vars, memory, Command, LoadAuto, LoadCommand, ReloadCommand, UpdateCommand,
   UpdateListCommand, UnloadCommand, DeleteCommand, UnloadAllCommand, TerminateCommand,
   UpdateAllCommand, Begin, Dies, Work, TakeLoad, TakeUnload, TakeUnloadAll, TakeRestore, TakeSave,
   TakeDelete, Quit, Done, unchangedByCalls, Load, LoadRefused, LoadFind, Import, ImportFails,
   DependencyLoop, LoadDependency, AddDependent, DependencyFailed, Create, CreateFails, RunRaises,
   Record, StopDependent, DependentStopped, Upload

(* They keep it exact.                                                     *)
LEMMA RegistryStep == GraphInv /\ RegistryExact /\ [Next]_vars => RegistryExact'
<1> SUFFICES ASSUME GraphInv, RegistryExact, [Next]_vars PROVE RegistryExact'
  OBVIOUS
<1>1. DOMAIN owned = Packages
  BY DEF GraphInv, GraphTypes
<1>2. CASE UNCHANGED <<registry, owned>>
  BY <1>2 DEF RegistryExact
<1>3. CASE Restart
  BY <1>3 DEF Restart, RegistryExact
<1>4. ASSUME NEW p \in Packages, Register(p) PROVE RegistryExact'
  <2>1. PICK id : id \notin registry /\ registry' = registry \cup {id}
                  /\ owned' = [owned EXCEPT ![p] = @ \cup {id}]
    BY <1>4 DEF Register
  <2> QED BY SMTT(30), <1>1, <2>1 DEF RegistryExact
<1>5. ASSUME NEW p \in Packages, Unload(p) PROVE RegistryExact'
  <2>1. registry' = registry \ owned[p] /\ owned' = [owned EXCEPT ![p] = {}]
    BY <1>5 DEF Unload
  <2> QED BY SMTT(30), <1>1, <2>1 DEF RegistryExact
<1> QED BY <1>2, <1>3, <1>4, <1>5, RegistrySteps

(* A registered identifier has one owner and what a package owns is        *)
(* registered, through failed loads and conflicting registrations too.     *)
THEOREM RegistryIsExact == Spec => []RegistryExact
<1>1. Init => RegistryExact
  BY SMTT(30) DEF Init, RegistryExact
<1> QED BY <1>1, GraphInvariant, RegistryStep, PTL DEF Spec
-----------------------------------------------------------------------------
(* The resources that loaded packages use.                                 *)

(* The steps that change what ResourcesStay rests on.                      *)
Telling ==
  \/ Restart \/ TakeDelete \/ \E u \in Uploads : Upload(u)
  \/ \E p \in Packages :
       Import(p) \/ ImportFails(p) \/ Create(p) \/ Register(p) \/ Record(p) \/ Unload(p)

(* No call gets as far as run().                                           *)
NoRun == \A q \in Packages : act'[q].pc = "run" => act[q].pc = "run" /\ act'[q] = act[q]

(* What the other steps leave alone.                                       *)
Idle ==
  /\ UNCHANGED <<files, modules, owned, registry, packages_loaded>> /\ NoRun
  /\ \A q \in Packages : /\ record'[q].cls = record[q].cls
                         /\ record'[q].dependencies = record[q].dependencies

(* Calls and returns.                                                      *)
LEMMA CallsIdle ==
  ASSUME GraphInv, UNCHANGED <<files, modules, owned, registry, packages_loaded, record>>,
         NEW p \in Packages,
         \/ UNCHANGED act
         \/ \E a : Enter(p, a) /\ a.pc # "run"
         \/ Return(p)
  PROVE  Idle
<1>1. DOMAIN act = Packages
  BY DEF GraphInv, GraphTypes
<1>2. ASSUME NEW a, Enter(p, a), a.pc # "run" PROVE NoRun
  BY <1>1, <1>2 DEF Enter, NoRun
<1>3. ASSUME Return(p) PROVE NoRun
  <2>1. NoAct.pc # "run"
    BY DEF NoAct
  <2> QED BY <1>1, <1>3, <2>1 DEF Return, NoRun
<1> QED BY <1>2, <1>3 DEF Idle, NoRun

(* They are the only ones.                                                 *)
LEMMA TellingSteps ==
  ASSUME GraphInv, [Next]_vars
  PROVE  Telling \/ Idle
<1>0. /\ DOMAIN act = Packages /\ DOMAIN record = Packages
      /\ \A q \in Packages : DOMAIN act[q] = DOMAIN NoAct /\ DOMAIN record[q] = DOMAIN NoRecord
      /\ \A q \in Packages : act[q].left \subseteq Packages
  BY DEF GraphInv, GraphTypes
<1>1. CASE Command \/ TakeRestore \/ TakeSave \/ Quit \/ Done \/ UNCHANGED vars
  <2>1. UNCHANGED <<files, modules, owned, registry, packages_loaded, record, act>>
    BY <1>1 DEF Command, LoadAuto, LoadCommand, ReloadCommand, UpdateCommand, UpdateListCommand,
       UnloadCommand, DeleteCommand, UnloadAllCommand, TerminateCommand, UpdateAllCommand, Begin,
       Dies, TakeRestore, TakeSave, Quit, Done, unchangedByCalls, vars, memory
  <2> QED BY <2>1 DEF Idle, NoRun
<1>2. CASE TakeLoad \/ TakeUnload \/ TakeUnloadAll
  <2>1. UNCHANGED <<files, modules, owned, registry, packages_loaded, record>>
    BY <1>2 DEF TakeLoad, TakeUnload, TakeUnloadAll, unchangedByCalls
  <2>2. \/ UNCHANGED act
        \/ \E p \in Packages : \E sum, auto, ext : Enter(p, LoadCall(sum, auto, ext))
        \/ \E p \in Packages : Enter(p, UnloadCall(p))
    BY <1>2 DEF TakeLoad, TakeUnload, TakeUnloadAll, GraphInv, GraphTypes
  <2>3. \A sum, auto, ext, p : LoadCall(sum, auto, ext).pc # "run" /\ UnloadCall(p).pc # "run"
    BY DEF LoadCall, UnloadCall, NoAct
  <2>4. CASE UNCHANGED act
    BY <2>1, <2>4 DEF Idle, NoRun
  <2> QED BY <2>1, <2>2, <2>3, <2>4, CallsIdle
<1>3. ASSUME NEW p \in Packages,
             \/ LoadRefused(p) \/ DependencyLoop(p) \/ DependencyFailed(p) \/ CreateFails(p) \/ RunRaises(p)
      PROVE  Idle
  <2>1. UNCHANGED <<files, modules, owned, registry, packages_loaded, record>> /\ Return(p)
    BY <1>3 DEF LoadRefused, DependencyLoop, DependencyFailed, CreateFails, RunRaises, unchangedByLoad
  <2> QED BY <2>1, CallsIdle
<1>4. ASSUME NEW p \in Packages, DependentStopped(p) PROVE Idle
  <2>1. /\ UNCHANGED <<files, modules, owned, registry, packages_loaded, record>>
        /\ Return(p) \/ act' = [act EXCEPT ![p].pc = "stop", ![p].dep = None]
    BY <1>4 DEF DependentStopped, unchangedByLoad
  <2>2. CASE act' = [act EXCEPT ![p].pc = "stop", ![p].dep = None]
    <3>1. act'[p].pc = "stop" /\ \A q \in Packages : q # p => act'[q] = act[q]
      BY <1>0, <2>2 DEF NoAct
    <3> QED BY <2>1, <3>1 DEF Idle, NoRun
  <2> QED BY <2>1, <2>2, CallsIdle
<1>5. ASSUME NEW p \in Packages, StopDependent(p) PROVE Idle
  <2>1. UNCHANGED <<files, modules, owned, registry, packages_loaded, record>> /\ act[p].pc = "stop"
    BY <1>5 DEF StopDependent, At, unchangedByLoad
  <2>2. PICK d \in act[p].left :
          \/ act' = [act EXCEPT ![p].pc = "await", ![p].dep = d, ![p].left = @ \ {d}, ![d] = UnloadCall(d)]
          \/ act' = [act EXCEPT ![p].left = @ \ {d}]
    BY <1>5 DEF StopDependent
  <2>3. d \in Packages /\ UnloadCall(d).pc = "stop"
    BY <1>0, <2>2 DEF UnloadCall, NoAct
  <2>4. CASE act' = [act EXCEPT ![p].pc = "await", ![p].dep = d, ![p].left = @ \ {d}, ![d] = UnloadCall(d)]
    <3>1. /\ act'[d].pc # "run" /\ act'[p].pc # "run"
          /\ \A q \in Packages : q # p /\ q # d => act'[q] = act[q]
      BY SMTT(30), <1>0, <2>3, <2>4 DEF NoAct
    <3> QED BY <2>1, <3>1 DEF Idle, NoRun
  <2>5. CASE act' = [act EXCEPT ![p].left = @ \ {d}]
    <3>1. act'[p].pc = "stop" /\ \A q \in Packages : q # p => act'[q] = act[q]
      BY SMTT(30), <1>0, <2>1, <2>5 DEF NoAct
    <3> QED BY <2>1, <3>1 DEF Idle, NoRun
  <2> QED BY <2>2, <2>4, <2>5
<1>6. ASSUME NEW p \in Packages, LoadFind(p) PROVE Idle
  <2>1. /\ UNCHANGED <<files, modules, owned, registry, packages_loaded, record>>
        /\ \E x : act' = [act EXCEPT ![p].pc = "import", ![p].ext = x,
                                     ![p].sum = IF @ = None THEN files[p][x] ELSE @]
    BY <1>6 DEF LoadFind, unchangedByLoad
  <2>2. act'[p].pc = "import" /\ \A q \in Packages : q # p => act'[q] = act[q]
    BY SMTT(30), <1>0, <2>1 DEF NoAct
  <2> QED BY <2>1, <2>2 DEF Idle, NoRun
<1>7. ASSUME NEW p \in Packages, LoadDependency(p) PROVE Idle
  <2>1. UNCHANGED <<files, modules, owned, registry, packages_loaded, record>>
    BY <1>7 DEF LoadDependency, unchangedByLoad
  <2>2. PICK d \in act[p].left :
          act' = [act EXCEPT ![p].pc = "check", ![p].dep = d, ![d] = LoadCall(None, FALSE, None)]
    BY <1>7 DEF LoadDependency
  <2>3. d \in Packages /\ LoadCall(None, FALSE, None).pc = "find"
    BY <1>0, <2>2 DEF LoadCall, NoAct
  <2>4. /\ act'[d].pc # "run" /\ act'[p].pc # "run"
        /\ \A q \in Packages : q # p /\ q # d => act'[q] = act[q]
    <3> DEFINE new == LoadCall(None, FALSE, None)
    <3>1. act' = [act EXCEPT ![p].pc = "check", ![p].dep = d, ![d] = new] /\ new.pc = "find"
      BY <2>2, <2>3
    <3> HIDE DEF new
    <3> QED BY SMTT(30), <1>0, <2>3, <3>1 DEF NoAct
  <2> QED BY <2>1, <2>4 DEF Idle, NoRun
<1>8. ASSUME NEW p \in Packages, AddDependent(p) PROVE Idle
  <2>1. UNCHANGED <<files, modules, owned, registry, packages_loaded>>
    BY <1>8 DEF AddDependent, unchangedByLoad
  <2>2. PICK d \in act[p].left :
          /\ record' = [record EXCEPT ![d].dependents = @ \cup {p}]
          /\ act' = [act EXCEPT ![p].pc = "deps", ![p].dep = None, ![p].left = @ \ {d}]
    BY <1>8 DEF AddDependent
  <2>3. act'[p].pc = "deps" /\ \A q \in Packages : q # p => act'[q] = act[q]
    BY <1>0, <2>2 DEF NoAct
  <2>4. d \in Packages
    BY <1>0, <2>2
  <2>5. \A q \in Packages : record'[q].cls = record[q].cls /\ record'[q].dependencies = record[q].dependencies
    BY SMTT(30), <1>0, <2>2, <2>4 DEF NoRecord
  <2> QED BY <2>1, <2>3, <2>5 DEF Idle, NoRun
<1> QED
  BY <1>1, <1>2, <1>3, <1>4, <1>5, <1>6, <1>7, <1>8 DEF Next, Work, Load, Telling

(* What p may give to others and what it has from them.                    *)
Held(p) ==
  LET m == modules[p] IN
  /\ \A e \in Ext : files[p][e] \in Contents(p) \cup {None}
  /\ m.cls # None =>
       /\ m.cls \in Contents(p) /\ Code[m.cls].hasclass
       /\ Code[m.cls].hasdeps => m.deps # None /\ (m.deps = m.cls \/ ~Code[m.deps].hasclass)
  /\ m.deps # None => m.deps \in Contents(p) /\ Code[m.deps].hasdeps
  /\ owned[p] \subseteq Provides(p)
  /\ act[p].pc = "run" =>
       act[p].ids \subseteq Provides(p) /\ m.cls # None /\ Code[m.cls].uses \subseteq registry
  /\ p \in packages_loaded =>
       /\ Code[record[p].cls].uses \subseteq registry
       /\ \A q \in Packages \ {p} :
            Code[record[p].cls].uses \cap Provides(q) # {} => q \in record[p].dependencies

(* A step that takes nothing from p keeps it.                              *)
LEMMA HeldFrame ==
  ASSUME NEW p \in Packages, Held(p),
         \A e \in Ext : files'[p][e] \in Contents(p) \cup {None},
         modules'[p] = modules[p], owned'[p] = owned[p], registry \subseteq registry',
         act'[p].pc = "run" => act[p].pc = "run" /\ act'[p] = act[p],
         p \in packages_loaded' =>
           /\ p \in packages_loaded
           /\ record'[p].cls = record[p].cls /\ record'[p].dependencies = record[p].dependencies
  PROVE  Held(p)'
BY DEF Held

(* The operator only puts in place what Contents says.                     *)
LEMMA FilesHeld ==
  ASSUME GraphInv, \A p \in Packages : Held(p), TakeDelete \/ \E u \in Uploads : Upload(u)
  PROVE  \A p \in Packages : Held(p)'
<1> SUFFICES ASSUME NEW p \in Packages PROVE Held(p)'
  OBVIOUS
<1>1. UNCHANGED <<modules, owned, registry, packages_loaded, record, act>>
  BY DEF TakeDelete, Upload, memory
<1>2. \A q \in Packages : \A e \in Ext : files[q][e] \in Contents(q) \cup {None}
  BY DEF Held
<1>3. files \in FilesType
  BY DEF GraphInv, GraphTypes, FilesType
<1>4. \A e \in Ext : files'[p][e] \in Contents(p) \cup {None}
  <2>1. ASSUME NEW q, NEW kept,
               files' = [files EXCEPT ![q] = [e \in Ext |-> IF e \in kept THEN @[e] ELSE None]]
        PROVE  \A e \in Ext : files'[p][e] \in Contents(p) \cup {None}
    BY <1>2, <1>3, <2>1 DEF FilesType
  <2>2. ASSUME NEW u \in Uploads, files' = [files EXCEPT ![u.pkg][u.ext] = u.ver]
        PROVE  \A e \in Ext : files'[p][e] \in Contents(p) \cup {None}
    <3>1. u.pkg \in Packages /\ u.ext \in Ext /\ u.ver \in Versions \cup {None}
      BY SMTT(30), PackagesAssumption
    <3>2. u.ver \in Contents(u.pkg) \cup {None}
      BY <3>1 DEF Contents
    <3>3. \A e \in Ext : files'[p][e] = files[p][e] \/ (p = u.pkg /\ files'[p][e] = u.ver)
      BY SMTT(30), <1>3, <2>2, <3>1 DEF FilesType
    <3> QED BY <1>2, <3>2, <3>3
  <2>3. CASE TakeDelete
    <3>1. PICK kept : files' = [files EXCEPT ![Head(todo).pkg] =
                                  [e \in Ext |-> IF e \in kept THEN @[e] ELSE None]]
      BY <2>3 DEF TakeDelete
    <3> QED BY <2>1, <3>1
  <2>4. ASSUME NEW u \in Uploads, Upload(u)
        PROVE  \A e \in Ext : files'[p][e] \in Contents(p) \cup {None}
    BY <2>2, <2>4 DEF Upload
  <2> QED BY <2>3, <2>4
<1> QED BY <1>1, <1>4, HeldFrame

(* The file is read into the namespace of the module.                      *)
LEMMA ImportHeld ==
  ASSUME GraphInv, \A q \in Packages : Held(q), NEW p \in Packages, Import(p) \/ ImportFails(p)
  PROVE  \A q \in Packages : Held(q)'
<1> DEFINE v == files[p][act[p].ext]
<1>1. /\ UNCHANGED <<files, owned, registry, packages_loaded, record>> /\ act[p].pc = "import"
      /\ DOMAIN act = Packages /\ DOMAIN modules = Packages /\ act[p].ext \in Ext
      /\ DOMAIN act[p] = DOMAIN NoAct /\ modules[p] \in [deps : Versions \cup {None}, cls : Versions \cup {None}]
  BY DEF Import, ImportFails, At, unchangedByLoad, GraphInv, GraphTypes
<1>2. \A q \in Packages \ {p} : modules'[q] = modules[q] /\ act'[q] = act[q]
  BY <1>1 DEF Import, ImportFails, Return
<1>3. act'[p].pc # "run"
  <2>1. NoAct.pc # "run"
    BY DEF NoAct
  <2>2. ASSUME NEW x, act' = [act EXCEPT ![p].pc = "deps", ![p].left = x] PROVE act'[p].pc # "run"
    BY SMTT(30), <1>1, <2>2 DEF NoAct
  <2>3. (\E x : act' = [act EXCEPT ![p].pc = "deps", ![p].left = x]) \/ Return(p)
    BY DEF Import, ImportFails
  <2>4. CASE Return(p)
    BY <1>1, <2>1, <2>4 DEF Return
  <2> QED BY <2>2, <2>3, <2>4
<1>4. ASSUME NEW q \in Packages, q # p PROVE Held(q)'
  BY ZenonT(60), <1>1, <1>2, <1>4, HeldFrame DEF Held
<1>5. \/ modules'[p] = modules[p]
      \/ modules'[p] = NoModule
      \/ v # None /\ modules'[p] = Namespace(modules[p], v)
  BY <1>1 DEF Import, ImportFails
<1>6. Held(p)'
  <2>1. CASE modules'[p] = modules[p]
    BY <1>1, <1>3, <2>1, HeldFrame DEF Held
  <2>2. CASE modules'[p] = NoModule
    <3>1. modules'[p].cls = None /\ modules'[p].deps = None
      BY SMTT(30), <2>2 DEF NoModule
    <3> QED BY <1>1, <1>3, <3>1 DEF Held
  <2>3. CASE v # None /\ modules'[p] = Namespace(modules[p], v)
    <3>1. v \in Contents(p)
      BY <1>1, <2>3 DEF Held
    <3>2. /\ modules'[p].cls = IF Code[v].hasclass THEN v ELSE modules[p].cls
          /\ modules'[p].deps = IF Code[v].hasdeps THEN v ELSE modules[p].deps
      BY SMTT(30), <2>3 DEF Namespace
    <3> HIDE DEF v
    <3> QED BY <1>1, <1>3, <2>3, <3>1, <3>2 DEF Held
  <2> QED BY <1>5, <2>1, <2>2, <2>3
<1> QED BY <1>4, <1>6

(* PackageClass is instantiated, and run() registers.                      *)
LEMMA RunHeld ==
  ASSUME GraphInv, \A q \in Packages : Held(q), NEW p \in Packages, Create(p) \/ Register(p)
  PROVE  \A q \in Packages : Held(q)'
<1>1. /\ UNCHANGED <<files, modules, packages_loaded, record>>
      /\ DOMAIN act = Packages /\ DOMAIN owned = Packages /\ DOMAIN act[p] = DOMAIN NoAct
  BY DEF Create, Register, unchangedByLoad, GraphInv, GraphTypes
<1>2. CASE Create(p)
  <2>1. /\ UNCHANGED <<owned, registry>> /\ modules[p].cls # None
        /\ Code[modules[p].cls].uses \subseteq registry
        /\ act' = [act EXCEPT ![p].pc = "run", ![p].ids = Code[modules[p].cls].res]
    BY <1>2 DEF Create
  <2>2. act'[p].ids = Code[modules[p].cls].res /\ \A q \in Packages : q # p => act'[q] = act[q]
    BY SMTT(30), <1>1, <2>1 DEF NoAct
  <2>3. Code[modules[p].cls].res \subseteq Provides(p)
    <3>1. modules[p].cls \in Contents(p) /\ Code[modules[p].cls].hasclass
      BY <2>1 DEF Held
    <3> QED BY <3>1 DEF Provides
  <2>4. Held(p)'
    BY <1>1, <2>1, <2>2, <2>3 DEF Held
  <2>5. ASSUME NEW q \in Packages, q # p PROVE Held(q)'
    BY <1>1, <2>1, <2>2, <2>5, HeldFrame DEF Held
  <2> QED BY <2>4, <2>5
<1>3. CASE Register(p)
  <2>1. PICK id \in act[p].ids :
          /\ registry' = registry \cup {id} /\ owned' = [owned EXCEPT ![p] = @ \cup {id}]
          /\ act' = [act EXCEPT ![p].ids = @ \ {id}]
    BY <1>3 DEF Register
  <2>2. /\ act'[p].ids = act[p].ids \ {id} /\ \A q \in Packages : q # p => act'[q] = act[q]
        /\ owned'[p] = owned[p] \cup {id} /\ \A q \in Packages : q # p => owned'[q] = owned[q]
    BY SMTT(30), <1>1, <2>1 DEF NoAct
  <2>3. act[p].pc = "run" /\ id \in Provides(p)
    BY <1>3 DEF Register, At, Held
  <2>4. Held(p)'
    BY <1>1, <2>1, <2>2, <2>3 DEF Held
  <2>5. ASSUME NEW q \in Packages, q # p PROVE Held(q)'
    BY <1>1, <2>1, <2>2, <2>5, HeldFrame DEF Held
  <2> QED BY <2>4, <2>5
<1> QED BY <1>2, <1>3

(* What run() got is declared.                                             *)
LEMMA RecordHeld ==
  ASSUME UsesDeclared, GraphInv, \A q \in Packages : Held(q), NEW p \in Packages, Record(p)
  PROVE  \A q \in Packages : Held(q)'
<1>1. /\ UNCHANGED <<files, modules, owned, registry>> /\ act[p].pc = "run"
      /\ packages_loaded' = packages_loaded \cup {p}
      /\ DOMAIN act = Packages /\ DOMAIN record = Packages
      /\ act' = [act EXCEPT ![p] = NoAct]
  BY DEF Record, At, Return, unchangedByLoad, GraphInv, GraphTypes
<1>2. /\ \A q \in Packages : q # p => record'[q] = record[q] /\ act'[q] = act[q]
      /\ record'[p].cls = modules[p].cls /\ record'[p].dependencies = Dependencies(modules[p])
      /\ act'[p].pc # "run"
  BY <1>1 DEF Record, NoAct
<1>3. ASSUME NEW q \in Packages, q # p PROVE Held(q)'
  BY <1>1, <1>2, <1>3, HeldFrame DEF Held
<1>4. /\ modules[p].cls \in Contents(p) /\ Code[modules[p].cls].hasclass
      /\ Code[modules[p].cls].uses \subseteq registry
      /\ Code[modules[p].cls].hasdeps =>
           /\ modules[p].deps # None /\ modules[p].deps \in Contents(p) /\ Code[modules[p].deps].hasdeps
           /\ modules[p].deps = modules[p].cls \/ ~Code[modules[p].deps].hasclass
  BY <1>1 DEF Held
<1>5. ASSUME NEW q \in Packages \ {p}, Code[modules[p].cls].uses \cap Provides(q) # {}
      PROVE  q \in Dependencies(modules[p])
  BY <1>4, <1>5 DEF UsesDeclared, Dependencies
<1>6. Held(p)'
  <2>1. /\ Code[record'[p].cls].uses \subseteq registry'
        /\ \A q \in Packages \ {p} :
             Code[record'[p].cls].uses \cap Provides(q) # {} => q \in record'[p].dependencies
    BY <1>1, <1>2, <1>4, <1>5
  <2> QED BY <1>1, <1>2, <2>1 DEF Held
<1> QED BY <1>3, <1>6

(* Whoever uses what p registered depends on p and went before.            *)
LEMMA UnloadHeld ==
  ASSUME GraphInv, \A q \in Packages : Held(q), NEW p \in Packages, Unload(p)
  PROVE  \A q \in Packages : Held(q)'
<1>1. /\ UNCHANGED <<files, modules>> /\ act[p].pc = "stop" /\ act[p].left = {}
      /\ registry' = registry \ owned[p] /\ owned' = [owned EXCEPT ![p] = {}]
      /\ packages_loaded' = packages_loaded \ {p} /\ act' = [act EXCEPT ![p] = NoAct]
      /\ DOMAIN act = Packages /\ DOMAIN owned = Packages
  BY DEF Unload, At, Return, GraphInv, GraphTypes
<1>2. \A q \in Packages : q # p => act'[q] = act[q] /\ owned'[q] = owned[q]
  BY <1>1
<1>3. act'[p].pc # "run" /\ owned'[p] = {}
  BY <1>1 DEF NoAct
<1>4. \A q \in Packages : q # p =>
         record'[q].cls = record[q].cls /\ record'[q].dependencies = record[q].dependencies
  <2> SUFFICES ASSUME NEW q \in Packages, q # p
               PROVE  record'[q].cls = record[q].cls /\ record'[q].dependencies = record[q].dependencies
    OBVIOUS
  <2>1. record'[q] = record[q] \/ record'[q] = [record[q] EXCEPT !.dependents = @ \ {p}]
    BY DEF Unload
  <2>2. DOMAIN record[q] = DOMAIN NoRecord
    BY DEF GraphInv, GraphTypes
  <2> QED BY SMTT(30), <2>1, <2>2 DEF NoRecord
<1>5. record[p].dependents \cap packages_loaded = {}
  BY <1>1 DEF GraphInv, UnloadingOK
<1>6. \A q \in Packages : act[q].pc # "run"
  BY <1>1, AllUnload
<1>7. ASSUME NEW q \in Packages, q # p PROVE Held(q)'
  <2>1. ASSUME q \in packages_loaded PROVE Code[record[q].cls].uses \subseteq registry'
    <3>1. p \notin record[q].dependencies
      BY <1>5, <2>1 DEF GraphInv, DependenciesLoaded
    <3>2. Code[record[q].cls].uses \cap Provides(p) = {}
      BY <1>7, <2>1, <3>1 DEF Held
    <3> QED BY <1>1, <2>1, <3>2 DEF Held
  <2> QED BY <1>1, <1>2, <1>4, <1>6, <1>7, <2>1 DEF Held
<1>8. Held(p)'
  BY <1>1, <1>3 DEF Held
<1> QED BY <1>7, <1>8

(* Every step keeps what packages hold.                                    *)
LEMMA HeldStep ==
  ASSUME UsesDeclared, GraphInv, \A p \in Packages : Held(p), [Next]_vars
  PROVE  \A p \in Packages : Held(p)'
<1>1. CASE Restart
  <2>1. \A p \in Packages : \A e \in Ext : files[p][e] \in Contents(p) \cup {None}
    BY DEF Held
  <2>2. \A p \in Packages : \A e \in Ext : files'[p][e] \in Contents(p) \cup {None}
    <3>1. \/ files' = files
          \/ \E p \in Packages : files' = [files EXCEPT ![p] = [e \in Ext |-> None]]
      BY <1>1 DEF Restart, Rewritten
    <3>2. DOMAIN files = Packages
      BY DEF GraphInv, GraphTypes
    <3>3. ASSUME NEW p \in Packages, files' = [files EXCEPT ![p] = [e \in Ext |-> None]]
          PROVE  \A q \in Packages : files'[q] = files[q] \/ files'[q] = [e \in Ext |-> None]
      BY <3>2, <3>3
    <3>4. \A q \in Packages : files'[q] = files[q] \/ files'[q] = [e \in Ext |-> None]
      BY <3>1, <3>3
    <3>5. \A e \in Ext : [f \in Ext |-> None][e] = None
      OBVIOUS
    <3> QED BY <2>1, <3>4, <3>5
  <2> QED BY <1>1, <2>2 DEF Restart, Held, NoModule, NoAct
<1>2. CASE Idle
  BY <1>2, HeldFrame DEF Idle, NoRun, Held
<1> QED
  BY <1>1, <1>2, TellingSteps, FilesHeld, ImportHeld, RunHeld, RecordHeld, UnloadHeld DEF Telling

(* What a loaded package got from the registry stays registered as long as *)
(* it is loaded, if packages list the packages whose resources they get.   *)
THEOREM ResourcesAreKept == ASSUME UsesDeclared PROVE Spec => []ResourcesStay
<1> DEFINE Inv == GraphInv /\ \A p \in Packages : Held(p)
<1>1. Init => Inv
  <2> SUFFICES ASSUME Init, NEW p \in Packages PROVE Held(p)
    BY InitGraph
  <2>1. \A e \in Ext : files[p][e] \in Contents(p) \cup {None}
    <3>1. files = InitFiles
      BY DEF Init
    <3> SUFFICES ASSUME NEW e \in Ext PROVE files[p][e] \in Contents(p) \cup {None}
      OBVIOUS
    <3>2. InitFiles \in [Packages -> [Ext -> Versions \cup {None}]]
      BY PackagesAssumption
    <3>3. InitFiles[p][e] \in Versions \cup {None}
      BY <3>2
    <3>4. InitFiles[p][e] \in Versions => InitFiles[p][e] \in Contents(p)
      BY DEF Contents
    <3> QED BY <3>1, <3>3, <3>4
  <2> QED BY <2>1 DEF Init, Held, NoModule, NoAct
<1>2. Inv /\ [Next]_vars => Inv'
  BY GraphStep, HeldStep
<1>3. Inv => ResourcesStay
  BY DEF ResourcesStay, Held, GraphInv, GraphTypes
<1> QED BY <1>1, <1>2, <1>3, PTL DEF Spec

-----------------------------------------------------------------------------
(* The commands, now that GraphInv holds throughout.                       *)

(* The calls of every command stay in order.                               *)
THEOREM CommandsInOrder == Spec => []CommandInv
<1>1. GraphInv /\ CommandInv /\ [Next]_vars => CommandInv'
  BY CommandStep
<1> QED BY <1>1, CommandStart, GraphInvariant, PTL DEF Spec

(* AskedIsListed: whenever the thread waits for a command, the packages    *)
(* that the last one named with option -r, and loaded by its own calls,    *)
(* are on the start-up list.                                               *)
THEOREM AskedAreListed == Spec => []AskedIsListed
BY CommandLists, CommandsInOrder, PTL

(* ReloadSameFile: when reload comes to its end, what it unloaded and its  *)
(* own calls loaded again came from a file of the same extension.          *)
THEOREM ReloadsSameFile == Spec => []ReloadSameFile
BY CommandReloads, CommandsInOrder, PTL

=============================================================================
