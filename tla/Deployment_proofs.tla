-------------------------- MODULE Deployment_proofs --------------------------
(***************************************************************************)
(* Proofs about the deployment scripts, for any set of releases and any    *)
(* sequence of scripts that break off anywhere.                            *)
(***************************************************************************)
EXTENDS Deployment, SequenceTheorems, TLAPS

CommandNames == {"fetch", "checkout", "sync", "save", "mark", "read", "scheduler", "web"}

(* What is left to do of a script before its i-th command. *)
Rest(kind, i) == SubSeq(Commands[kind], i, Len(Commands[kind]))

LEMMA CommandLists ==
  /\ Commands["deploy"] \in Seq(CommandNames) /\ Len(Commands["deploy"]) = 7
  /\ Commands["rollback"] \in Seq(CommandNames) /\ Len(Commands["rollback"]) = 6
BY DEF Commands, CommandNames

LEMMA RestSteps ==
  ASSUME NEW kind \in {"deploy", "rollback"}, NEW i \in 1..Len(Commands[kind])
  PROVE  /\ Rest(kind, i) # <<>>
         /\ Head(Rest(kind, i)) = Commands[kind][i]
         /\ Tail(Rest(kind, i)) = Rest(kind, i + 1)
<1>1. Commands[kind] \in Seq(CommandNames) /\ Len(Commands[kind]) \in Nat
  BY CommandLists
<1>2. Head(Rest(kind, i)) = Commands[kind][i] /\ Tail(Rest(kind, i)) = Rest(kind, i + 1)
  <2>1. Len(Commands[kind]) \in i..Len(Commands[kind])
    BY <1>1
  <2>. QED  BY <1>1, <2>1, HeadTailOfSubSeq DEF Rest
<1>3. Len(Rest(kind, i)) = Len(Commands[kind]) - i + 1
  BY <1>1, SubSeqProperties DEF Rest
<1>. QED  BY <1>1, <1>2, <1>3

LEMMA RestEnds == Rest("deploy", 8) = <<>> /\ Rest("rollback", 7) = <<>>
BY CommandLists, SubSeqEmpty DEF Rest

LEMMA RestStarts == \A kind \in {"deploy", "rollback"} : Rest(kind, 1) = Commands[kind]
BY CommandLists, SubSeqFull DEF Rest

-----------------------------------------------------------------------------
(* The host as a script has left it before its i-th command.               *)
Deploying(i) ==
  /\ script.kind = "deploy" /\ script.todo = Rest("deploy", i) /\ script.sha \in Releases
  /\ i >= 3 => host.checkout = script.sha
  /\ i >= 4 => host.deps = script.sha /\ script.sha \in installed
  /\ i >= 6 => host.marker = script.sha
  /\ resting = None

RollingBack(i) ==
  /\ script.kind = "rollback" /\ script.todo = Rest("rollback", i)
  /\ i >= 2 => script.sha # None /\ script.sha = host.previous
  /\ i >= 3 => host.checkout = script.sha
  /\ i >= 4 => host.deps = script.sha
  /\ i >= 5 => host.marker = script.sha

(* The inductive invariant. *)
Types ==
  /\ host \in Host /\ running \in [Services -> Releases \cup {None}]
  /\ script \in [kind: {"none", "deploy", "rollback"}, sha: Releases \cup {None},
                 todo: Seq(CommandNames)]
  /\ installed \subseteq Releases

AtRest ==
  resting # None =>
    /\ resting \in Host /\ resting.previous = host.previous
    /\ {resting.checkout, resting.deps, resting.marker} = {host.previous}

Progress ==
  \/ script = Idle
  \/ \E i \in 1..8 : Deploying(i)
  \/ \E i \in 1..7 : RollingBack(i)

Inv == Types /\ OnlyInstalledReleases /\ AtRest /\ Progress

-----------------------------------------------------------------------------
LEMMA InitInv == Init => Inv
BY DeploymentAssumption
   DEF Init, Inv, Types, Host, Services, Idle, OnlyInstalledReleases, AtRest, Progress

(* A script at its i-th command, and the rest of it after that one. *)
DeployAt(i)   == Deploying(i) /\ Tail(script.todo) = Rest("deploy", i + 1)
RollbackAt(i) == RollingBack(i) /\ Tail(script.todo) = Rest("rollback", i + 1)

(* Where a script stands whose next command is known. *)
LEMMA Where ==
  ASSUME Progress, NEW command, Due(command)
  PROVE  \/ \E i \in 1..7 : DeployAt(i) /\ Commands["deploy"][i] = command
         \/ \E i \in 1..6 : RollbackAt(i) /\ Commands["rollback"][i] = command
<1>1. script # Idle
  BY DEF Due, Idle
<1>2. CASE \E i \in 1..8 : Deploying(i)
  <2>1. PICK i \in 1..8 : Deploying(i)
    BY <1>2
  <2>2. i # 8
    BY <2>1, RestEnds DEF Deploying, Due
  <2>3. i \in 1..Len(Commands["deploy"]) /\ i \in 1..7
    BY <2>2, CommandLists
  <2>. QED  BY <2>1, <2>3, RestSteps DEF Deploying, DeployAt, Due
<1>3. CASE \E i \in 1..7 : RollingBack(i)
  <2>1. PICK i \in 1..7 : RollingBack(i)
    BY <1>3
  <2>2. i # 7
    BY <2>1, RestEnds DEF RollingBack, Due
  <2>3. i \in 1..Len(Commands["rollback"]) /\ i \in 1..6
    BY <2>2, CommandLists
  <2>. QED  BY <2>1, <2>3, RestSteps DEF RollingBack, RollbackAt, Due
<1>. QED  BY <1>1, <1>2, <1>3 DEF Progress

(* The place of each command in the two scripts. *)
LEMMA Places ==
  /\ \A i \in 1..7 :
       /\ Commands["deploy"][i] = "fetch"     <=> i = 1
       /\ Commands["deploy"][i] = "checkout"  <=> i = 2
       /\ Commands["deploy"][i] = "sync"      <=> i = 3
       /\ Commands["deploy"][i] = "save"      <=> i = 4
       /\ Commands["deploy"][i] = "mark"      <=> i = 5
       /\ Commands["deploy"][i] = "scheduler" <=> i = 6
       /\ Commands["deploy"][i] = "web"       <=> i = 7
       /\ Commands["deploy"][i] # "read"
  /\ \A i \in 1..6 :
       /\ Commands["rollback"][i] = "read"      <=> i = 1
       /\ Commands["rollback"][i] = "checkout"  <=> i = 2
       /\ Commands["rollback"][i] = "sync"      <=> i = 3
       /\ Commands["rollback"][i] = "mark"      <=> i = 4
       /\ Commands["rollback"][i] = "scheduler" <=> i = 5
       /\ Commands["rollback"][i] = "web"       <=> i = 6
       /\ Commands["rollback"][i] \notin {"fetch", "save"}
BY DEF Commands

(* Which places a due command has. *)
LEMMA WhereDue ==
  ASSUME Progress
  PROVE  /\ Due("fetch")     => DeployAt(1)
         /\ Due("save")      => DeployAt(4)
         /\ Due("read")      => RollbackAt(1)
         /\ Due("checkout")  => DeployAt(2) \/ RollbackAt(2)
         /\ Due("sync")      => DeployAt(3) \/ RollbackAt(3)
         /\ Due("mark")      => DeployAt(5) \/ RollbackAt(4)
         /\ Due("scheduler") => DeployAt(6) \/ RollbackAt(5)
         /\ Due("web")       => DeployAt(7) \/ RollbackAt(6)
<1>1. ASSUME Due("fetch") PROVE DeployAt(1)
  BY <1>1, Where, Places
<1>2. ASSUME Due("save") PROVE DeployAt(4)
  BY <1>2, Where, Places
<1>3. ASSUME Due("read") PROVE RollbackAt(1)
  BY <1>3, Where, Places
<1>4. ASSUME Due("checkout") PROVE DeployAt(2) \/ RollbackAt(2)
  BY <1>4, Where, Places
<1>5. ASSUME Due("sync") PROVE DeployAt(3) \/ RollbackAt(3)
  BY <1>5, Where, Places
<1>6. ASSUME Due("mark") PROVE DeployAt(5) \/ RollbackAt(4)
  BY <1>6, Where, Places
<1>7. ASSUME Due("scheduler") PROVE DeployAt(6) \/ RollbackAt(5)
  BY <1>7, Where, Places
<1>8. ASSUME Due("web") PROVE DeployAt(7) \/ RollbackAt(6)
  BY <1>8, Where, Places
<1>. QED  BY <1>1, <1>2, <1>3, <1>4, <1>5, <1>6, <1>7, <1>8

-----------------------------------------------------------------------------
(* A script breaks off: nothing depends on how far it was. *)
LEMMA BreaksOff ==
  ASSUME Inv, host' \in Host, script' = Idle, running' = running, resting' = resting,
         installed \subseteq installed', installed' \subseteq Releases,
         {host'.marker, host'.previous} \subseteq installed' \cup {None},
         resting # None => host'.previous = host.previous
  PROVE  Inv'
<1>1. Types'
  BY DEF Inv, Types, Idle
<1>2. OnlyInstalledReleases'
  BY DEF Inv, OnlyInstalledReleases
<1>3. AtRest' /\ Progress'
  BY DEF Inv, AtRest, Progress, Idle
<1>. QED  BY <1>1, <1>2, <1>3 DEF Inv

(* A command succeeds: the script stands at its next place. *)
LEMMA GoesOn ==
  ASSUME Inv, host' \in Host, script' = [script EXCEPT !.todo = Tail(@)], script.todo # <<>>,
         running' \in [Services -> Releases \cup {None}], resting' = resting,
         {running'["scheduler"], running'["web"]} \subseteq installed' \cup {None},
         installed \subseteq installed', installed' \subseteq Releases,
         {host'.marker, host'.previous} \subseteq installed' \cup {None},
         resting # None => host'.previous = host.previous,
         Progress'
  PROVE  Inv'
<1>1. Tail(script.todo) \in Seq(CommandNames)
  BY HeadTailProperties DEF Inv, Types
<1>2. Types'
  BY <1>1 DEF Inv, Types
<1>3. OnlyInstalledReleases'
  BY DEF Inv, OnlyInstalledReleases
<1>4. AtRest'
  BY DEF Inv, AtRest
<1>. QED  BY <1>2, <1>3, <1>4 DEF Inv

LEMMA FetchStep == ASSUME Inv, Fetch PROVE Inv'
<1>. USE DEF Inv
<1>1. script.todo # <<>> /\ host' = host /\ UNCHANGED <<running, resting, installed>>
  BY DEF Fetch, Remote, Due
<1>2. CASE script' = Idle
  BY <1>1, <1>2, BreaksOff DEF Types, OnlyInstalledReleases
<1>3. CASE script' = [script EXCEPT !.todo = Tail(@)]
  <2>1. DeployAt(1)
    BY WhereDue DEF Fetch, Remote
  <2>2. Deploying(2)'
    BY <1>1, <1>3, <2>1 DEF DeployAt, Deploying, Types
  <2>3. Progress'
    BY <2>2 DEF Progress
  <2>. QED  BY <1>1, <1>3, <2>3, GoesOn DEF Types, OnlyInstalledReleases
<1>. QED  BY <1>2, <1>3 DEF Fetch, Remote

LEMMA CheckoutStep == ASSUME Inv, Checkout PROVE Inv'
<1>. USE DEF Inv
<1>1. /\ script.todo # <<>> /\ UNCHANGED <<running, resting, installed>>
      /\ host' \in Host /\ host'.marker = host.marker /\ host'.previous = host.previous
  BY DEF Checkout, Remote, Due, Types, Host
<1>2. CASE script' = Idle
  BY <1>1, <1>2, BreaksOff DEF Types, OnlyInstalledReleases
<1>3. CASE /\ script' = [script EXCEPT !.todo = Tail(@)]
           /\ host' = [host EXCEPT !.checkout = script.sha]
  <2>1. DeployAt(2) => Deploying(3)'
    BY <1>1, <1>3 DEF DeployAt, Deploying, Types, Host
  <2>2. RollbackAt(2) => RollingBack(3)'
    BY <1>1, <1>3 DEF RollbackAt, RollingBack, Types, Host
  <2>3. Progress'
    BY <2>1, <2>2, WhereDue DEF Progress, Checkout, Remote
  <2>. QED  BY <1>1, <1>3, <2>3, GoesOn DEF Types, OnlyInstalledReleases
<1>. QED  BY <1>2, <1>3 DEF Checkout, Remote

LEMMA SyncStep == ASSUME Inv, Sync PROVE Inv'
<1>. USE DEF Inv
<1>1. /\ script.todo # <<>> /\ UNCHANGED <<running, resting>>
      /\ host' \in Host /\ host'.marker = host.marker /\ host'.previous = host.previous
  BY DEF Sync, Remote, Due, Types, Host
<1>2. installed \subseteq installed' /\ installed' \subseteq Releases
  <2>1. host'.deps \in Releases \cup {None} /\ host.checkout \in Releases \cup {None}
    BY <1>1 DEF Types, Host
  <2>2. Due("sync") => host.checkout \in Releases
    BY WhereDue, DeploymentAssumption
       DEF DeployAt, Deploying, RollbackAt, RollingBack, Types, Host
  <2>. QED  BY <2>1, <2>2 DEF Sync, Remote, Types
<1>3. CASE script' = Idle
  BY <1>1, <1>2, <1>3, BreaksOff DEF OnlyInstalledReleases
<1>4. CASE /\ script' = [script EXCEPT !.todo = Tail(@)]
           /\ host' = [host EXCEPT !.deps = host.checkout]
  <2>1. host'.deps = host.checkout /\ host'.checkout = host.checkout
    BY <1>4 DEF Types, Host
  <2>2. installed' = installed \cup {host.checkout}
    BY <2>1 DEF Sync
  <2>3. DeployAt(3) => Deploying(4)'
    BY <1>1, <1>4, <2>1, <2>2 DEF DeployAt, Deploying, Types
  <2>4. RollbackAt(3) => RollingBack(4)'
    BY <1>1, <1>4, <2>1 DEF RollbackAt, RollingBack, Types
  <2>5. Progress'
    BY <2>3, <2>4, WhereDue DEF Progress, Sync, Remote
  <2>. QED  BY <1>1, <1>2, <1>4, <2>5, GoesOn DEF Types, OnlyInstalledReleases
<1>. QED  BY <1>3, <1>4 DEF Sync, Remote

(* Saved, lost or left as it was, the way back is one of the markers the   *)
(* host had. *)
LEMMA SaveStep == ASSUME Inv, Save PROVE Inv'
<1>. USE DEF Inv
<1>1. DeployAt(4)
  BY WhereDue DEF Save
<1>2. /\ script.todo # <<>> /\ UNCHANGED <<running, resting, installed>>
      /\ host' \in Host /\ host'.checkout = host.checkout /\ host'.deps = host.deps
      /\ host'.marker = host.marker /\ host'.previous \in {host.previous, host.marker, None}
  BY DEF Save, Due, Types, Host
<1>3. resting = None
  BY <1>1 DEF DeployAt, Deploying
<1>4. CASE script' = Idle
  BY <1>2, <1>3, <1>4, BreaksOff DEF Types, OnlyInstalledReleases
<1>5. CASE script' = [script EXCEPT !.todo = Tail(@)]
  <2>1. Deploying(5)'
    BY <1>1, <1>2, <1>5 DEF DeployAt, Deploying, Types, Host
  <2>2. Progress'
    BY <2>1 DEF Progress
  <2>. QED  BY <1>2, <1>3, <1>5, <2>2, GoesOn DEF Types, OnlyInstalledReleases
<1>. QED  BY <1>4, <1>5 DEF Save

LEMMA MarkStep == ASSUME Inv, Mark PROVE Inv'
<1>. USE DEF Inv
<1>1. DeployAt(5) \/ RollbackAt(4)
  BY WhereDue DEF Mark, Remote
<1>2. /\ script.todo # <<>> /\ UNCHANGED <<running, resting, installed>>
      /\ host' \in Host /\ host'.checkout = host.checkout /\ host'.deps = host.deps
      /\ host'.previous = host.previous /\ host'.marker \in {host.marker, script.sha, None}
  BY DEF Mark, Remote, Due, Types, Host
<1>3. script.sha \in installed
  BY <1>1, DeploymentAssumption
     DEF DeployAt, Deploying, RollbackAt, RollingBack, OnlyInstalledReleases, Types
<1>4. CASE script' = Idle
  BY <1>2, <1>3, <1>4, BreaksOff DEF Types, OnlyInstalledReleases
<1>5. CASE /\ script' = [script EXCEPT !.todo = Tail(@)]
           /\ host' = [host EXCEPT !.marker = script.sha]
  <2>1. DeployAt(5) => Deploying(6)'
    BY <1>2, <1>3, <1>5 DEF DeployAt, Deploying, Types, Host
  <2>2. RollbackAt(4) => RollingBack(5)'
    BY <1>2, <1>5 DEF RollbackAt, RollingBack, Types, Host
  <2>3. Progress'
    BY <1>1, <2>1, <2>2 DEF Progress
  <2>. QED  BY <1>2, <1>3, <1>5, <2>3, GoesOn DEF Types, OnlyInstalledReleases
<1>. QED  BY <1>4, <1>5 DEF Mark, Remote

LEMMA ReadStep == ASSUME Inv, Read PROVE Inv'
<1>. USE DEF Inv
<1>1. RollbackAt(1) /\ script.todo # <<>>
  BY WhereDue DEF Read, Due
<1>2. UNCHANGED <<host, running, installed, resting>>
  BY DEF Read
<1>3. CASE script' = Idle
  BY <1>2, <1>3, BreaksOff DEF Types, OnlyInstalledReleases
<1>4. CASE /\ host.previous # None
           /\ script' = [script EXCEPT !.sha = host.previous, !.todo = Tail(@)]
  <2>1. Tail(script.todo) \in Seq(CommandNames) /\ host.previous \in Releases \cup {None}
    BY <1>1, HeadTailProperties DEF Types, Host
  <2>2. Types'
    BY <1>2, <1>4, <2>1 DEF Types
  <2>3. RollingBack(2)'
    BY <1>1, <1>2, <1>4 DEF RollbackAt, RollingBack, Types
  <2>4. Progress'
    BY <2>3 DEF Progress
  <2>. QED  BY <1>2, <2>2, <2>4 DEF OnlyInstalledReleases, AtRest
<1>. QED  BY <1>3, <1>4 DEF Read

LEMMA RestartStep == ASSUME Inv, NEW s \in Services, Restart(s) PROVE Inv'
<1>. USE DEF Inv
<1>1. /\ script.todo # <<>> /\ UNCHANGED <<host, installed, resting>>
      /\ \/ DeployAt(6) \/ DeployAt(7) \/ RollbackAt(5) \/ RollbackAt(6)
  BY WhereDue DEF Restart, Due, Services
<1>2. host.checkout \in installed
  BY <1>1, DeploymentAssumption
     DEF DeployAt, Deploying, RollbackAt, RollingBack, OnlyInstalledReleases, Types
<1>3. /\ running' \in [Services -> Releases \cup {None}]
      /\ {running'["scheduler"], running'["web"]} \subseteq installed' \cup {None}
  BY <1>1, <1>2 DEF Restart, Types, Services, OnlyInstalledReleases
<1>4. CASE script' = Idle
  <2>1. Types'
    BY <1>1, <1>3, <1>4 DEF Types, Idle
  <2>2. OnlyInstalledReleases' /\ AtRest'
    BY <1>1, <1>3 DEF OnlyInstalledReleases, AtRest
  <2>. QED  BY <1>4, <2>1, <2>2 DEF Progress, Idle
<1>5. CASE script' = [script EXCEPT !.todo = Tail(@)]
  <2>1. DeployAt(6) => Deploying(7)'
    BY <1>1, <1>5 DEF DeployAt, Deploying, Types
  <2>2. DeployAt(7) => Deploying(8)'
    BY <1>1, <1>5 DEF DeployAt, Deploying, Types
  <2>3. RollbackAt(5) => RollingBack(6)'
    BY <1>1, <1>5 DEF RollbackAt, RollingBack, Types
  <2>4. RollbackAt(6) => RollingBack(7)'
    BY <1>1, <1>5 DEF RollbackAt, RollingBack, Types
  <2>5. Progress'
    BY <1>1, <2>1, <2>2, <2>3, <2>4 DEF Progress
  <2>. QED  BY <1>1, <1>3, <1>5, <2>5, GoesOn DEF Types, OnlyInstalledReleases
<1>. QED  BY <1>4, <1>5 DEF Restart

LEMMA StartStep == ASSUME Inv, Deploy \/ Rollback PROVE Inv'
<1>. USE DEF Inv
<1>1. UNCHANGED <<host, running, installed>>
  BY DEF Deploy, Rollback, Start
<1>2. OnlyInstalledReleases'
  BY <1>1 DEF OnlyInstalledReleases
<1>3. ASSUME Deploy PROVE Inv'
  <2>1. PICK r \in Releases : Start("deploy", r) /\ resting' = None
    BY <1>3 DEF Deploy
  <2>2. Types'
    BY <1>1, <2>1, CommandLists DEF Types, Start, Host
  <2>3. Deploying(1)'
    BY <2>1, RestStarts DEF Deploying, Start
  <2>4. Progress'
    BY <2>3 DEF Progress
  <2>. QED  BY <1>2, <2>1, <2>2, <2>4 DEF AtRest
<1>4. ASSUME Rollback PROVE Inv'
  <2>1. Start("rollback", None) /\ resting' = resting
    BY <1>4 DEF Rollback
  <2>2. Types'
    BY <1>1, <2>1, CommandLists DEF Types, Start, Host
  <2>3. RollingBack(1)'
    BY <2>1, RestStarts DEF RollingBack, Start
  <2>4. Progress'
    BY <2>3 DEF Progress
  <2>. QED  BY <1>1, <1>2, <2>1, <2>2, <2>4 DEF AtRest
<1>. QED  BY <1>3, <1>4

(* A script that has run all its commands. *)
LEMMA WholeAt == ASSUME Progress, Whole PROVE Deploying(8) \/ RollingBack(7)
<1>1. script # Idle /\ script.todo = <<>>
  BY DEF Whole
<1>2. \A i \in 1..7 : ~Deploying(i)
  BY <1>1, RestSteps, CommandLists DEF Deploying
<1>3. \A i \in 1..6 : ~RollingBack(i)
  BY <1>1, RestSteps, CommandLists DEF RollingBack
<1>. QED  BY <1>1, <1>2, <1>3 DEF Progress

LEMMA FinishStep == ASSUME Inv, Finish PROVE Inv'
<1>. USE DEF Inv
<1>1. Deploying(8) \/ RollingBack(7)
  BY WholeAt DEF Finish
<1>2. script' = Idle /\ UNCHANGED <<host, running, installed>>
  BY DEF Finish
<1>3. Types'
  BY <1>2 DEF Types, Idle
<1>4. AtRest'
  BY <1>1, <1>2 DEF Finish, AtRest, Deploying, RollingBack, Types
<1>5. OnlyInstalledReleases' /\ Progress'
  BY <1>2 DEF OnlyInstalledReleases, Progress, Idle
<1>. QED  BY <1>3, <1>4, <1>5

-----------------------------------------------------------------------------
LEMMA NextInv == Inv /\ [Next]_vars => Inv'
<1>. SUFFICES ASSUME Inv, [Next]_vars PROVE Inv'
  OBVIOUS
<1>1. CASE UNCHANGED vars
  BY <1>1 DEF vars, Inv, Types, OnlyInstalledReleases, AtRest, Progress, Deploying, RollingBack
<1>2. CASE Next
  BY <1>2, StartStep, FetchStep, CheckoutStep, SyncStep, SaveStep, MarkStep, ReadStep,
     RestartStep, FinishStep DEF Next
<1>. QED  BY <1>1, <1>2

(* The inductive invariant: the host as the script under way has left it   *)
(* so far, markers and services on installed releases only, and, since the *)
(* last whole rollback, the way back it took.                              *)
THEOREM Invariance == Spec => []Inv
BY InitInv, NextInv, PTL DEF Spec

(* Type correctness: a script under way is a suffix of its command list. *)
THEOREM TypeCorrect == Spec => []TypeOK
<1>1. Inv => TypeOK
  <2>. SUFFICES ASSUME Inv PROVE TypeOK
    OBVIOUS
  <2>1. \E kind \in DOMAIN Commands, i \in 1..7 : script.todo = Rest(kind, i)
    <3>1. DOMAIN Commands = {"deploy", "rollback"}
      BY DEF Commands
    <3>2. CASE script = Idle
      BY <3>1, <3>2, RestEnds DEF Idle
    <3>3. CASE \E i \in 1..8 : Deploying(i)
      <4>1. PICK i \in 1..8 : script.todo = Rest("deploy", i)
        BY <3>3 DEF Deploying
      <4>2. CASE i = 8
        BY <3>1, <4>1, <4>2, RestEnds
      <4>3. CASE i \in 1..7
        BY <3>1, <4>1, <4>3
      <4>. QED  BY <4>2, <4>3
    <3>4. CASE \E i \in 1..7 : RollingBack(i)
      BY <3>1, <3>4 DEF RollingBack
    <3>. QED  BY <3>2, <3>3, <3>4 DEF Inv, Progress
  <2>2. resting \in Host \cup {None}
    BY DEF Inv, AtRest
  <2>. QED  BY <2>1, <2>2 DEF Inv, Types, TypeOK, Rest
<1>. QED  BY <1>1, Invariance, PTL

(* Whatever broke off before, a service is only started from, and a        *)
(* rollback only goes to, a release that was once installed.               *)
THEOREM OnlyInstalled == Spec => []OnlyInstalledReleases
<1>1. Inv => OnlyInstalledReleases
  BY DEF Inv
<1>. QED  BY <1>1, Invariance, PTL

(* A script that ends well leaves its release checked out, installed and   *)
(* marked, whatever the scripts before it broke off with.                  *)
THEOREM WholeScripts == Spec => []WholeScriptsAgree
<1>1. Inv => WholeScriptsAgree
  BY WholeAt DEF Inv, WholeScriptsAgree, Deploying, RollingBack
<1>. QED  BY <1>1, Invariance, PTL

(* Rolling back again, however often it broke off in between, changes      *)
(* nothing on the host.                                                    *)
THEOREM Repeatable == Spec => []RollbackIsRepeatable
<1>1. ASSUME Inv, Whole, script.kind = "rollback", resting # None PROVE host = resting
  <2>1. RollingBack(7)
    BY <1>1, WholeAt DEF Inv, Deploying
  <2>2. \A f \in {"checkout", "deps", "marker", "previous"} : host[f] = resting[f]
    BY <1>1, <2>1 DEF Inv, AtRest, RollingBack
  <2>3. host \in Host /\ resting \in Host
    BY <1>1 DEF Inv, Types, AtRest
  <2>. QED  BY <2>2, <2>3 DEF Host
<1>2. Inv => RollbackIsRepeatable
  BY <1>1 DEF RollbackIsRepeatable
<1>. QED  BY <1>2, Invariance, PTL
=============================================================================
