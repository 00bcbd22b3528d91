----------------------------- MODULE Deployment -----------------------------
(***************************************************************************)
(* The production host and the two scripts the operator runs against it    *)
(* (scripts/deploy.sh, scripts/rollback.sh), one at a time.  A script is a *)
(* list of remote commands under "set -e": the first that fails, or whose  *)
(* ssh connection breaks, ends it with the host wherever it is by then.    *)
(***************************************************************************)
EXTENDS Naturals, Sequences

CONSTANTS
  Releases,   \* the SHAs the operator deploys
  None        \* a marker file that is missing or empty, a work tree or an
              \* environment between two releases, a service that is down

ASSUME DeploymentAssumption == None \notin Releases

VARIABLES
  host,       \* checkout, deps (what uv sync installed), marker (.deploy-sha)
              \* and previous (.deploy-sha.prev)
  running,    \* the release each service was last started from
  script,     \* the script under way: kind, sha, commands to do
  installed,  \* history: the releases whose dependencies were ever synced
  resting     \* history: the host after the last whole rollback, None from
              \* the start of the next deployment

vars == <<host, running, script, installed, resting>>

Services == {"scheduler", "web"}
Host == [{"checkout", "deps", "marker", "previous"} -> Releases \cup {None}]

Idle == [kind |-> "none", sha |-> None, todo |-> <<>>]

Init ==
  /\ \E r \in Releases :
       /\ host = [checkout |-> r, deps |-> r, marker |-> None, previous |-> None]
       /\ installed = {r}
  /\ running = [s \in Services |-> None]
  /\ script = Idle /\ resting = None

-----------------------------------------------------------------------------
(* Faulty variants of definitions below; no specification uses them. *)

MarksFirst ==
  [deploy   |-> <<"fetch", "save", "mark", "checkout", "sync", "scheduler", "web">>,
   rollback |-> <<"read", "checkout", "sync", "mark", "scheduler", "web">>]

RollbackSkipsSync ==
  [deploy   |-> <<"fetch", "checkout", "sync", "save", "mark", "scheduler", "web">>,
   rollback |-> <<"read", "checkout", "mark", "scheduler", "web">>]

RollbackSavesToo ==
  [deploy   |-> <<"fetch", "checkout", "sync", "save", "mark", "scheduler", "web">>,
   rollback |-> <<"read", "checkout", "sync", "save", "mark", "scheduler", "web">>]

-----------------------------------------------------------------------------
Commands ==
  [deploy   |-> <<"fetch", "checkout", "sync", "save", "mark", "scheduler", "web">>,
   rollback |-> <<"read", "checkout", "sync", "mark", "scheduler", "web">>]

Start(kind, sha) ==
  /\ script = Idle
  /\ script' = [kind |-> kind, sha |-> sha, todo |-> Commands[kind]]
  /\ UNCHANGED <<host, running, installed>>

Deploy   == \E r \in Releases : Start("deploy", r) /\ resting' = None
Rollback == Start("rollback", None) /\ UNCHANGED resting

Due(command) == script.todo # <<>> /\ Head(script.todo) = command

(* A command succeeds and the script goes on, or it breaks off, or its     *)
(* reply is lost: then the script ends, the effect there, absent or partly *)
(* there.                                                                  *)
Remote(command, after, broken) ==
  /\ Due(command)
  /\ \/ host' = after /\ script' = [script EXCEPT !.todo = Tail(@)]
     \/ host' \in {host, after} \cup broken /\ script' = Idle
  /\ UNCHANGED <<running, resting>>

Fetch == Remote("fetch", host, {}) /\ UNCHANGED installed

Checkout ==
  /\ Remote("checkout", [host EXCEPT !.checkout = script.sha],
                        {[host EXCEPT !.checkout = None]})
  /\ UNCHANGED installed

Sync ==
  /\ Remote("sync", [host EXCEPT !.deps = host.checkout], {[host EXCEPT !.deps = None]})
  /\ installed' = installed \cup ({host'.deps} \cap {host.checkout})

(* cat .deploy-sha > .deploy-sha.prev || true: no marker, empty file.  The  *)
(* shell empties the file it redirects to before it writes to it, and the  *)
(* "|| true" hides that the file could not be opened or written: with the  *)
(* marker saved, lost, or the old way back left in place, the script goes  *)
(* on all the same.                                                        *)
Save ==
  /\ Due("save")
  /\ \E saved \in {host.marker, None, host.previous} :
       host' = [host EXCEPT !.previous = saved]
  /\ script' \in {Idle, [script EXCEPT !.todo = Tail(@)]}
  /\ UNCHANGED <<running, installed, resting>>

Mark ==
  /\ Remote("mark", [host EXCEPT !.marker = script.sha], {[host EXCEPT !.marker = None]})
  /\ UNCHANGED installed

(* Without a rollback target the script exits before it touches the host.  *)
Read ==
  /\ Due("read")
  /\ script' \in {Idle, IF host.previous = None THEN Idle
                        ELSE [script EXCEPT !.sha = host.previous, !.todo = Tail(@)]}
  /\ UNCHANGED <<host, running, installed, resting>>

(* systemctl restart ... || echo: the unit may be missing or may not come  *)
(* up, and the script goes on.                                             *)
Restart(s) ==
  /\ Due(s)
  /\ \E r \in {running[s], None, host.checkout} : running' = [running EXCEPT ![s] = r]
  /\ script' \in {Idle, [script EXCEPT !.todo = Tail(@)]}
  /\ UNCHANGED <<host, installed, resting>>

Whole == script # Idle /\ script.todo = <<>>

(* The smoke test and the Discord message: neither can fail the script.    *)
Finish ==
  /\ Whole
  /\ script' = Idle
  /\ resting' = IF script.kind = "rollback" THEN host ELSE resting
  /\ UNCHANGED <<host, running, installed>>

Next ==
  \/ Deploy \/ Rollback
  \/ Fetch \/ Checkout \/ Sync \/ Save \/ Mark \/ Read
  \/ \E s \in Services : Restart(s)
  \/ Finish

Spec == Init /\ [][Next]_vars

-----------------------------------------------------------------------------
TypeOK ==
  /\ host \in Host
  /\ running \in [Services -> Releases \cup {None}]
  /\ script.kind \in {"none", "deploy", "rollback"}
  /\ script.sha \in Releases \cup {None}
  /\ \E kind \in DOMAIN Commands, i \in 1..7 :
       script.todo = SubSeq(Commands[kind], i, Len(Commands[kind]))
  /\ installed \subseteq Releases
  /\ resting \in Host \cup {None}

(* Whatever was cut short and retried before, a service is only started    *)
(* from, and a rollback only goes to, a release whose dependencies were    *)
(* once installed.                                                         *)
OnlyInstalledReleases ==
  {host.marker, host.previous, running["scheduler"], running["web"]} \subseteq installed \cup {None}

(* A script that ends without an error leaves its release checked out,     *)
(* installed and marked, whatever earlier scripts left half done.  Of the  *)
(* way back it promises nothing: deploy.sh goes on when it was not saved.  *)
WholeScriptsAgree ==
  Whole => {host.checkout, host.deps, host.marker} = {script.sha}

(* "Running rollback twice in a row is a no-op": as long as no deployment  *)
(* starts, every whole rollback leaves the host as the first one did, those *)
(* that were cut short in between included.                                *)
RollbackIsRepeatable ==
  (Whole /\ script.kind = "rollback" /\ resting # None) => host = resting
=============================================================================
