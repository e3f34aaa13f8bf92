------------------------------- MODULE Install -------------------------------
(***************************************************************************)
(* What `boostopt init` puts on a machine and what `boostopt-uninstall`    *)
(* takes away again: the Ollama runtime, its models, the receipt that says *)
(* which of them are ours, and each project's pointer and configuration.   *)
(*                                                                         *)
(* A command (cli/main.py _init, uninstall.py run) is a sequence of steps, *)
(* one per call that leaves the process: a probe, an installer, a pull, a  *)
(* read or a write of the receipt.  Any of them may fail, and the command  *)
(* may be killed between two of them.                                      *)
(***************************************************************************)
EXTENDS Naturals

CONSTANTS
    Project,       \* the projects of the machine, each with its own directory
    Tag,           \* our re-tag (boostopt2.5-coder:7b), built from Base
    Base,          \* the model its recipe starts FROM
    Other,         \* a model we ship no recipe for
    None,          \* absent file, absent model, no flag
    Torn,          \* a file that was cut off while it was rewritten
    Asked,         \* the values of --model (None: not given)
    UserRepulls,   \* may the user install again what the receipt still claims?
    MaxCommands,   \* bound: commands started
    MaxCrashes     \* bound: commands killed

ASSUME InstallAssumption ==
    /\ Tag # Base /\ Other \notin {Tag, Base} /\ None # Torn
    /\ {None, Torn, "ollama"} \intersect {Tag, Base, Other} = {}
    /\ "ollama" \notin {None, Torn}
    /\ \A s \in SUBSET {Tag, Base, Other, "ollama"} : s \notin {None, Torn}
    /\ Asked \subseteq {None, Tag, Other} /\ UserRepulls \in BOOLEAN
    /\ MaxCommands \in Nat /\ MaxCrashes \in Nat

Model == {Tag, Base, Other}
Item == Model \union {"ollama"}

VARIABLES
    present,     \* the models Ollama holds
    putBy,       \* history: who made each present model present
    ollama,      \* the runtime, as a probe and `which ollama` see it
    ollamaBy,    \* history: who installed it
    receipt,     \* installed.json: the set of what it claims as ours
    pointer,     \* .boostopt/model of each project (None: no workspace)
    toml,        \* llm_model of each project's committed .boostopt.toml
    global,      \* llm_model of ~/.config/boostopt/config.toml
    cmd,         \* the command each project is running
    started,     \* commands started
    alone,       \* history: no two commands have run at the same time
    crashes

vars == <<present, putBy, ollama, ollamaBy, receipt, pointer, toml, global,
          cmd, started, alone, crashes>>
machine == <<present, putBy, ollama, ollamaBy>>
files == <<pointer, toml, global>>
counts == <<started, alone, crashes>>

Idle == [at |-> "idle"]
Quiet == \A p \in Project : cmd[p] = Idle
Starts(p, c) ==
    /\ cmd[p] = Idle /\ started < MaxCommands
    /\ cmd' = [cmd EXCEPT ![p] = c]
    /\ started' = started + 1
    /\ alone' = (alone /\ Quiet)

(* A receipt that is absent or does not parse claims nothing.              *)
Claimed == IF receipt \in {None, Torn} THEN {} ELSE receipt
OwnedModels == Claimed \ {"ollama"}
OwnsOllama == "ollama" \in Claimed

BaseOf(m) == IF m = Tag THEN Base ELSE None
(* As a bug would have it: the fallback of a model without a recipe is lost.*)
FallbackLost(m) == BaseOf(m)
Fallback(m) == IF BaseOf(m) = None THEN m ELSE BaseOf(m)
Reachable == ollama \in {"up", "remote"}
HasCLI == ollama \in {"up", "down"}

(* The project file wins over the machine-wide one, which wins over the    *)
(* default.                                                                *)
Configured(p) == IF toml[p] # None THEN toml[p]
                 ELSE IF global # None THEN global ELSE Tag

Goto(p, at) == cmd' = [cmd EXCEPT ![p].at = at]
Claim(p, item) == cmd' = [cmd EXCEPT ![p].at = "claim", ![p].claim = item]
Settle(p, m, isReady) ==
    cmd' = [cmd EXCEPT ![p].at = "point", ![p].mdl = m, ![p].ready = isReady]

(* What init writes for a file that holds `old`: the workspace and both    *)
(* configurations only fill in what is missing.                            *)
FillIn(old, m) == IF old = None THEN m ELSE old
WritePointer(p, m) == pointer' = [pointer EXCEPT ![p] = FillIn(@, m)]
WriteStarterConfig(p, m) == toml' = [toml EXCEPT ![p] = FillIn(@, m)]
WriteGlobalConfig(m) == global' = FillIn(global, m)

-----------------------------------------------------------------------------
(* boostopt init.  Whether --pull and --install-ollama were given (and to  *)
(* boostopt-uninstall --with-ollama) stays open until it is looked at,     *)
(* which each command does once.                                           *)

StartInit(p) ==
    /\ \E ask \in Asked :
         LET req == FillIn(ask, Configured(p)) IN
           /\ WritePointer(p, req)
           /\ Starts(p, [at |-> "probe", req |-> req, recorded |-> pointer'[p],
                claim |-> None, mdl |-> None, ready |-> FALSE, snap |-> {}])
    /\ UNCHANGED <<machine, receipt, toml, global, crashes>>

(* What a daemon that answers is asked for: the model itself, else a pull  *)
(* where --pull allows one, else our tag from the base that is there.      *)
Reached(p) ==
    LET c == cmd[p] IN
    \/ c.req \in present /\ Settle(p, c.req, TRUE)
    \/ /\ c.req \notin present /\ BaseOf(c.req) = None
       /\ (HasCLI /\ Goto(p, "pull")) \/ Settle(p, c.req, FALSE)
    \/ /\ c.req \notin present /\ BaseOf(c.req) # None
       /\ \/ ~HasCLI /\ Settle(p, Base, Base \in present)
          \/ HasCLI /\ Base \in present /\ Goto(p, "create")
          \/ /\ HasCLI /\ Base \notin present
             /\ Goto(p, "pull") \/ Settle(p, Base, FALSE)

Probe(p) ==
    /\ cmd[p].at = "probe"
    /\ \/ Reachable /\ Reached(p)
       \/ ollama = "absent" /\ Goto(p, "install")
       \/ ollama \in {"absent", "down"} /\ Settle(p, Fallback(cmd[p].req), FALSE)
    /\ UNCHANGED <<machine, receipt, files, counts>>

(* Declined, not scriptable here, or failed; or installed, and claimed     *)
(* before its service is waited for.                                       *)
InstallOllama(p) ==
    /\ cmd[p].at = "install"
    /\ \/ /\ Settle(p, Fallback(cmd[p].req), FALSE)
          /\ UNCHANGED <<ollama, ollamaBy>>
       \/ /\ ollama' = "down" /\ ollamaBy' = "ours"
          /\ Claim(p, "ollama")
    /\ UNCHANGED <<present, putBy, receipt, files, counts>>

WaitOllama(p) ==
    /\ cmd[p].at = "wait"
    /\ \/ Reachable /\ Goto(p, "reprobe")
       \/ ~Reachable /\ Settle(p, Fallback(cmd[p].req), FALSE)
    /\ UNCHANGED <<machine, receipt, files, counts>>

Reprobe(p) ==
    /\ cmd[p].at = "reprobe"
    /\ IF Reachable THEN Reached(p) ELSE Settle(p, Fallback(cmd[p].req), FALSE)
    /\ UNCHANGED <<machine, receipt, files, counts>>

Put(m) == /\ present' = present \union {m}
          /\ putBy' = [putBy EXCEPT ![m] = IF m \in present THEN @ ELSE "ours"]

(* As a bug would have it: our tag is built whether or not the pull failed.*)
PullUnchecked(p) ==
    /\ cmd[p].at = "pull"
    /\ LET m == Fallback(cmd[p].req) IN
         \/ Reachable /\ Put(m) /\ Claim(p, m)
         \/ Goto(p, "create") /\ UNCHANGED <<present, putBy>>
    /\ UNCHANGED <<ollama, ollamaBy, receipt, files, counts>>

Pull(p) ==
    /\ cmd[p].at = "pull"
    /\ LET m == Fallback(cmd[p].req) IN
         \/ Reachable /\ Put(m) /\ Claim(p, m)
         \/ Settle(p, m, FALSE) /\ UNCHANGED <<present, putBy>>
    /\ UNCHANGED <<ollama, ollamaBy, receipt, files, counts>>

(* As a bug would have it: the base that the tag was built from is claimed.*)
CreateClaimsBase(p) ==
    /\ cmd[p].at = "create"
    /\ \/ Reachable /\ Put(Tag) /\ Claim(p, Base)
       \/ Settle(p, Base, TRUE) /\ UNCHANGED <<present, putBy>>
    /\ UNCHANGED <<ollama, ollamaBy, receipt, files, counts>>

Create(p) ==
    /\ cmd[p].at = "create"
    /\ \/ Reachable /\ Put(Tag) /\ Claim(p, Tag)
       \/ Settle(p, Base, TRUE) /\ UNCHANGED <<present, putBy>>
    /\ UNCHANGED <<ollama, ollamaBy, receipt, files, counts>>

(* record_ollama_install and record_model: read the whole receipt, ...     *)
LoadReceipt(p) ==
    /\ cmd[p].at = "claim"
    /\ cmd' = [cmd EXCEPT ![p].at = "save",
                          ![p].snap = Claimed \union {cmd[p].claim}]
    /\ UNCHANGED <<machine, receipt, files, counts>>

(* ... and write the whole receipt.  write_text truncates the file in      *)
(* place and an OSError is swallowed: a write that fails leaves the old    *)
(* receipt or a part of the new one, and the command goes on.              *)
SaveReceipt(p) ==
    /\ cmd[p].at = "save"
    /\ receipt' \in {cmd[p].snap, receipt, Torn}
    /\ CASE cmd[p].claim = "ollama" -> Goto(p, "wait")
         [] cmd[p].claim = Base     -> Goto(p, "create")
         [] OTHER                   -> Settle(p, cmd[p].req, TRUE)
    /\ UNCHANGED <<machine, files, counts>>

(* The pointer follows what this machine has, unless it names a third      *)
(* party's model.                                                          *)
FollowReality(p, c) ==
    pointer' = [pointer EXCEPT ![p] =
        IF c.recorded \in {c.req, BaseOf(c.req)} THEN c.mdl ELSE @]

(* As a bug would have it: the committed file records what the machine has,*)
(* not what the project asked for.                                         *)
PointCommitsFallback(p) ==
    LET c == cmd[p] IN
    /\ c.at = "point"
    /\ FollowReality(p, c)
    /\ WriteStarterConfig(p, c.mdl)
    /\ WriteGlobalConfig(c.req) \/ UNCHANGED global
    /\ cmd' = [cmd EXCEPT ![p] = Idle]
    /\ UNCHANGED <<machine, receipt, counts>>

(* The configurations record what was asked for; --global is optional.     *)
Point(p) ==
    LET c == cmd[p] IN
    /\ c.at = "point"
    /\ FollowReality(p, c)
    /\ WriteStarterConfig(p, c.req)
    /\ WriteGlobalConfig(c.req) \/ UNCHANGED global
    /\ cmd' = [cmd EXCEPT ![p] = Idle]
    /\ UNCHANGED <<machine, receipt, counts>>

-----------------------------------------------------------------------------
(* boostopt-uninstall --yes (without it nothing is changed).               *)

StartUninstall(p) ==
    /\ OwnedModels # {} \/ OwnsOllama \/ pointer[p] # None \/ global # None
    /\ Starts(p, [at |-> "rm", todo |-> OwnedModels, ours |-> OwnsOllama,
                  config |-> global # None])
    /\ UNCHANGED <<machine, receipt, files, crashes>>

(* Our re-tags go before what they were built from.  The outcome of        *)
(* `ollama rm` is not looked at.                                           *)
RemoveModel(p) ==
    /\ cmd[p].at = "rm" /\ cmd[p].todo # {}
    /\ LET todo == cmd[p].todo IN
       \E m \in (IF Tag \in todo THEN {Tag} ELSE todo) :
         /\ cmd' = [cmd EXCEPT ![p].todo = @ \ {m}]
         /\ \/ /\ ollama = "up" /\ m \in present
               /\ present' = present \ {m}
               /\ putBy' = [putBy EXCEPT ![m] = None]
            \/ UNCHANGED <<present, putBy>>
    /\ UNCHANGED <<ollama, ollamaBy, receipt, files, counts>>

RemoveFiles(p) ==
    /\ cmd[p].at = "rm" /\ cmd[p].todo = {}
    /\ pointer' = [pointer EXCEPT ![p] = None]
    /\ global' = IF cmd[p].config THEN None ELSE global
    /\ Goto(p, "teardown")
    /\ UNCHANGED <<machine, receipt, toml, counts>>

Gone(p, gone) == cmd' = [cmd EXCEPT ![p] = [at |-> "forget", gone |-> gone]]

(* As a bug would have it: Ollama counts as gone once its teardown ran.    *)
TeardownUnchecked(p) ==
    /\ cmd[p].at = "teardown"
    /\ \/ /\ cmd[p].ours
          /\ \/ ollama' = "absent" /\ ollamaBy' = None
             \/ UNCHANGED <<ollama, ollamaBy>>
          /\ Gone(p, TRUE)
       \/ UNCHANGED <<ollama, ollamaBy>> /\ Gone(p, ~cmd[p].ours)
    /\ UNCHANGED <<present, putBy, receipt, files, counts>>

(* An Ollama of ours, if that was asked for and consented to: every command*)
(* of the teardown runs, and it is gone only if all succeed.  A late one   *)
(* may fail when the runtime itself is already removed.                    *)
Teardown(p) ==
    /\ cmd[p].at = "teardown"
    /\ \/ /\ cmd[p].ours
          /\ ollama' = "absent" /\ ollamaBy' = None
          /\ \E all \in BOOLEAN : Gone(p, all)
       \/ UNCHANGED <<ollama, ollamaBy>> /\ Gone(p, ~cmd[p].ours)
    /\ UNCHANGED <<present, putBy, receipt, files, counts>>

Forget(p) ==
    /\ cmd[p].at = "forget"
    /\ receipt' = IF cmd[p].gone THEN None ELSE receipt
    /\ cmd' = [cmd EXCEPT ![p] = Idle]
    /\ UNCHANGED <<machine, files, counts>>

-----------------------------------------------------------------------------
(* The environment.                                                        *)

(* A killed command leaves what it has done.  The receipt is rewritten in  *)
(* place, so a kill inside the write may leave half of it.                 *)
Crash(p) ==
    /\ cmd[p] # Idle /\ crashes < MaxCrashes
    /\ crashes' = crashes + 1
    /\ receipt' \in IF cmd[p].at = "save" THEN {receipt, Torn} ELSE {receipt}
    /\ cmd' = [cmd EXCEPT ![p] = Idle]
    /\ UNCHANGED <<machine, files, started, alone>>

(* Between commands, the user pulls and removes models of their own and    *)
(* installs Ollama.                                                        *)
UserPulls(m) ==
    /\ Quiet /\ Reachable /\ m \in {Base, Other} \ present
    /\ UserRepulls \/ m \notin Claimed
    /\ present' = present \union {m}
    /\ putBy' = [putBy EXCEPT ![m] = "user"]
    /\ UNCHANGED <<ollama, ollamaBy, receipt, files, cmd, counts>>

UserRemoves(m) ==
    /\ Quiet /\ Reachable /\ m \in present
    /\ present' = present \ {m}
    /\ putBy' = [putBy EXCEPT ![m] = None]
    /\ UNCHANGED <<ollama, ollamaBy, receipt, files, cmd, counts>>

UserInstalls ==
    /\ Quiet /\ ollama = "absent"
    /\ UserRepulls \/ "ollama" \notin Claimed
    /\ ollama' = "up" /\ ollamaBy' = "user"
    /\ UNCHANGED <<present, putBy, receipt, files, cmd, counts>>

(* The service comes up at any time and stops between commands (inside one *)
(* every step that needs it may fail).                                     *)
Service ==
    /\ \/ ollama = "down" /\ ollama' = "up"
       \/ Quiet /\ ollama = "up" /\ ollama' = "down"
    /\ UNCHANGED <<present, putBy, ollamaBy, receipt, files, cmd, counts>>

-----------------------------------------------------------------------------
Init ==
    /\ ollama \in {"absent", "up", "remote"}
    /\ ollamaBy = IF ollama = "absent" THEN None ELSE "user"
    /\ present \in IF ollama = "absent" THEN {{}} ELSE SUBSET {Base}
    /\ putBy = [m \in Model |-> IF m \in present THEN "user" ELSE None]
    /\ receipt = None
    /\ pointer = [p \in Project |-> None]
    /\ toml = [p \in Project |-> None]
    /\ global = None
    /\ cmd = [p \in Project |-> Idle]
    /\ started = 0 /\ alone = TRUE /\ crashes = 0

InitStep(p) ==
    \/ StartInit(p) \/ Probe(p) \/ InstallOllama(p) \/ WaitOllama(p) \/ Reprobe(p)
    \/ Pull(p) \/ Create(p) \/ LoadReceipt(p) \/ SaveReceipt(p) \/ Point(p)
UninstallStep(p) ==
    \/ StartUninstall(p) \/ RemoveModel(p) \/ RemoveFiles(p) \/ Teardown(p) \/ Forget(p)

Next ==
    \/ \E p \in Project : InitStep(p) \/ UninstallStep(p) \/ Crash(p)
    \/ \E m \in Model : UserPulls(m) \/ UserRemoves(m)
    \/ UserInstalls \/ Service

Spec == Init /\ [][Next]_vars

-----------------------------------------------------------------------------
(* Properties.                                                             *)

(* The types of the machine's state, the files and the running commands.   *)
InstallTypeOK ==
    /\ present \in SUBSET Model
    /\ putBy \in [Model -> {None, "ours", "user"}]
    /\ ollama \in {"absent", "down", "up", "remote"}
    /\ ollamaBy \in {None, "ours", "user"}
    /\ receipt \in {None, Torn} \union SUBSET Item
    /\ pointer \in [Project -> Model \union {None}]
    /\ toml \in [Project -> Model \union {None}]
    /\ global \in Model \union {None}
    /\ \A p \in Project : cmd[p].at \in {"idle", "probe", "install", "wait",
         "reprobe", "pull", "create", "claim", "save", "point", "rm", "teardown",
         "forget"}
    /\ started \in 0 .. MaxCommands /\ alone \in BOOLEAN
    /\ crashes \in 0 .. MaxCrashes

(* "`boostopt uninstall` removes ONLY what this file claims as ours;       *)
(* anything pre-existing is never touched" (receipt.py:9): through failed  *)
(* pulls, killed commands, torn and rewritten receipts, a model or a       *)
(* runtime that an uninstall takes away was put there by an init.          *)
OnlyOursRemoved ==
    [][\A p \in Project :
         /\ cmd[p].at = "rm" => \A m \in present \ present' : putBy[m] = "ours"
         /\ (cmd[p].at = "teardown" /\ ollama # "absent" /\ ollama' = "absent")
              => ollamaBy = "ours"]_vars

(* "dropping it while our Ollama is still installed would strand it"       *)
(* (uninstall.py:112): as long as the runtime an init installed is there   *)
(* and claimed, no uninstall, whatever was declined or failed in it, drops *)
(* the receipt.  (Two commands at the same time do: an uninstall reads the *)
(* claim once, up front.)                                                  *)
OllamaClaimKept ==
    [][(alone /\ "ollama" \in Claimed /\ receipt' = None)
         => (ollama = "absent" \/ ollamaBy # "ours")]_vars

(* "ready: that tag is present in Ollama right now" (provision.py:84):     *)
(* whatever path of probes, pulls and fallbacks an init took, a model it   *)
(* reports ready and writes to the pointer is held by Ollama, unless an    *)
(* uninstall runs at the same time.                                        *)
ReadyIsTrue ==
    \A p \in Project :
      (alone /\ cmd[p].at = "point" /\ cmd[p].ready) => cmd[p].mdl \in present

(* A fallback is this machine's state, never the project's intent          *)
(* (cli/main.py:203, "self-perpetuating: Config.load reads it back"): no   *)
(* sequence of failed inits and uninstalls makes a later init ask for the  *)
(* base model that nobody asked for.                                       *)
FallbackIsNotIntent == \A p \in Project : Configured(p) # Base
=============================================================================
