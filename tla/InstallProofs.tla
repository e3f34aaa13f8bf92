---------------------------- MODULE InstallProofs ----------------------------
(***************************************************************************)
(* For any set of projects, commands and kills: what an uninstall takes    *)
(* away an init has put there, the claim on Ollama outlives every command  *)
(* that does not remove it, "ready" is true, and a fallback never becomes  *)
(* what a project asks for.                                                *)
(***************************************************************************)
EXTENDS Install, TLAPS

InitCommand == [at : {"probe", "install", "wait", "reprobe", "pull", "create",
                      "claim", "save", "point"},
                req : {Tag, Other}, recorded : Model \union {None}, claim : Item \union {None},
                mdl : Model \union {None}, ready : BOOLEAN, snap : SUBSET Item]
Removal == [at : {"rm", "teardown"}, todo : SUBSET Model, ours : BOOLEAN,
            config : BOOLEAN]
Ending == [at : {"forget"}, gone : BOOLEAN]
Commands == {Idle} \union InitCommand \union Removal \union Ending

(* The types, the commands' positions apart.                               *)
MachineTypes ==
    /\ present \in SUBSET Model
    /\ putBy \in [Model -> {None, "ours", "user"}]
    /\ ollama \in {"absent", "down", "up", "remote"}
    /\ ollamaBy \in {None, "ours", "user"}
    /\ receipt \in {None, Torn} \union SUBSET Item
    /\ started \in 0 .. MaxCommands /\ alone \in BOOLEAN
    /\ crashes \in 0 .. MaxCrashes

(* Nobody has asked for the base model.                                    *)
FileTypes ==
    /\ pointer \in [Project -> Model \union {None}]
    /\ toml \in [Project -> {Tag, Other, None}]
    /\ global \in {Tag, Other, None}

(* An item is gone, or an init put it there.                               *)
Mine(i) == IF i = "ollama" THEN ollama = "absent" \/ ollamaBy = "ours"
                           ELSE i \in present => putBy[i] = "ours"

(* What a command is about to claim, or to remove.                         *)
Taken(p) ==
    CASE cmd[p].at = "claim"    -> {cmd[p].claim}
      [] cmd[p].at = "save"     -> cmd[p].snap
      [] cmd[p].at = "rm"       -> cmd[p].todo \union (IF cmd[p].ours THEN {"ollama"} ELSE {})
      [] cmd[p].at = "teardown" -> IF cmd[p].ours THEN {"ollama"} ELSE {}
      [] OTHER                  -> {}

TakesOurs(p) ==
    /\ Taken(p) \subseteq Item
    /\ \A i \in Taken(p) : Mine(i)
    /\ cmd[p].at = "pull" => Mine(Fallback(cmd[p].req))

(* The base is pulled for our tag, which is then built from it.            *)
Fits(p) ==
    /\ cmd[p].at \in {"claim", "save"} =>
          \/ cmd[p].claim \in {"ollama", cmd[p].req}
          \/ cmd[p].claim = Base /\ cmd[p].req = Tag
    /\ cmd[p].at = "create" => cmd[p].req = Tag

(* What a command on its own knows of the machine.                         *)
Knows(p) ==
    /\ (cmd[p].at \in {"claim", "save"} /\ cmd[p].claim # "ollama") =>
          cmd[p].claim \in present
    /\ cmd[p].at = "create" => Base \in present
    /\ (cmd[p].at = "point" /\ cmd[p].ready) => cmd[p].mdl \in present
    /\ cmd[p].at \in {"rm", "teardown"} => cmd[p].ours = OwnsOllama
    /\ (cmd[p].at = "forget" /\ cmd[p].gone) => (ollama = "absent" \/ ~OwnsOllama)

Sound(p) == cmd[p] \in Commands /\ TakesOurs(p) /\ Fits(p) /\ (alone => Knows(p))

Lone == alone => \A p, q \in Project : cmd[p] # Idle /\ cmd[q] # Idle => p = q

(* The claims of the receipt are true, and so is what any command holds.   *)
Claims == Mine(Tag) /\ \A i \in Claimed : Mine(i)

InstallInv == /\ MachineTypes /\ FileTypes /\ DOMAIN cmd = Project
              /\ Claims /\ Lone /\ \A p \in Project : Sound(p)

-----------------------------------------------------------------------------
(* The constants, spelt out.                                               *)
LEMMA Distinct ==
    /\ Tag # Base /\ Tag # Other /\ Base # Other
    /\ None \notin Item /\ Torn \notin Item /\ "ollama" \notin Model
    /\ \A s \in SUBSET Item : s # None /\ s # Torn
    /\ Asked \subseteq {None, Tag, Other}
  BY InstallAssumption DEF InstallAssumption, Item, Model

(* A claimed set is a set of items.                                        *)
LEMMA ClaimedItems ==
    ASSUME MachineTypes
    PROVE  Claimed \subseteq Item /\ Claimed \in SUBSET Item
  BY DEF MachineTypes, Claimed

(* What is ours stays ours when a step leaves the models and the runtime.  *)
LEMMA MachineStays ==
    ASSUME UNCHANGED machine
    PROVE  \A i : Mine(i)' <=> Mine(i)
  BY DEF machine, Mine

(* A step of one command: the others know nothing new, and what is ours    *)
(* stays ours.  While commands are alone, there are no others.             *)
LEMMA OneSteps ==
    ASSUME InstallInv, NEW p \in Project,
           MachineTypes', FileTypes', Claims', Sound(p)',
           DOMAIN cmd' = Project,
           \A q \in Project : q # p => cmd'[q] = cmd[q],
           \A i \in Item : Mine(i) => Mine(i)',
           alone' => alone /\ \A q \in Project : q # p => cmd[q] = Idle
    PROVE  InstallInv'
  <1>1. ASSUME NEW q \in Project, q # p PROVE Sound(q)'
    <2>1. cmd'[q] = cmd[q] /\ Sound(q)
      BY <1>1 DEF InstallInv
    <2>2. CASE alone'
      <3>1. cmd'[q] = Idle
        BY <1>1, <2>1, <2>2
      <3> QED BY <3>1 DEF Sound, Idle, Commands, TakesOurs, Taken, Fits, Knows
    <2>3. CASE ~alone'
      <3>1. Taken(q)' = Taken(q)
        BY <2>1 DEF Taken
      <3>2. cmd[q].at = "pull" => Fallback(cmd[q].req) \in Item
        BY <2>1, Distinct DEF Sound, Commands, Idle, InitCommand, Removal, Ending, Fallback,
           BaseOf, Item, Model
      <3>3. TakesOurs(q)'
        BY <2>1, <3>1, <3>2 DEF Sound, TakesOurs
      <3> QED BY <2>1, <2>3, <3>3 DEF Sound, Fits
    <2> QED BY <2>2, <2>3
  <1>2. Lone'
    BY DEF Lone
  <1> QED BY <1>1, <1>2 DEF InstallInv

(* The same for a step of a command that was running.                      *)
LEMMA RunningSteps ==
    ASSUME InstallInv, NEW p \in Project, cmd[p] # Idle, NEW c,
           cmd' = [cmd EXCEPT ![p] = c], alone' = alone,
           MachineTypes', FileTypes', Claims', Sound(p)',
           \A i \in Item : Mine(i) => Mine(i)'
    PROVE  InstallInv'
  <1>1. DOMAIN cmd' = Project /\ \A q \in Project : q # p => cmd'[q] = cmd[q]
    BY DEF InstallInv
  <1>2. alone => \A q \in Project : q # p => cmd[q] = Idle
    BY DEF InstallInv, Lone
  <1> QED BY <1>1, <1>2, OneSteps

(* And for one that leaves models and runtime, and claims what is ours.    *)
LEMMA QuietSteps ==
    ASSUME InstallInv, NEW p \in Project, cmd[p] # Idle, NEW c,
           cmd' = [cmd EXCEPT ![p] = c], UNCHANGED <<machine, counts>>,
           receipt' \in {receipt, Torn} \/ (receipt' \in SUBSET Item /\ \A i \in receipt' : Mine(i)),
           FileTypes', Sound(p)'
    PROVE  InstallInv'
  <1>1. MachineTypes'
    BY DEF InstallInv, MachineTypes, machine, counts
  <1>2. \A i : Mine(i)' <=> Mine(i)
    BY MachineStays
  <1>3. \A i \in Claimed' : Mine(i)
    BY DEF InstallInv, Claims, Claimed
  <1>4. Claims'
    BY <1>2, <1>3 DEF InstallInv, Claims
  <1> QED BY <1>1, <1>2, <1>4, RunningSteps DEF counts

-----------------------------------------------------------------------------
(* boostopt init.                                                          *)

(* What is asked for: never the base model.                                *)
LEMMA StartInitKeeps ==
    ASSUME InstallInv, NEW p \in Project, StartInit(p)
    PROVE  InstallInv'
  <1>1. PICK ask \in Asked :
          LET req == FillIn(ask, Configured(p)) IN
           /\ WritePointer(p, req)
           /\ Starts(p, [at |-> "probe", req |-> req, recorded |-> pointer'[p],
                claim |-> None, mdl |-> None, ready |-> FALSE, snap |-> {}])
    BY DEF StartInit
  <1> DEFINE req == FillIn(ask, Configured(p))
             c == [at |-> "probe", req |-> req, recorded |-> pointer'[p],
                   claim |-> None, mdl |-> None, ready |-> FALSE, snap |-> {}]
  <1>2. req \in {Tag, Other}
    BY Distinct DEF FillIn, Configured, InstallInv, FileTypes
  <1>3. /\ pointer' \in [Project -> Model \union {None}]
        /\ pointer'[p] \in Model \union {None}
    BY <1>1, <1>2 DEF WritePointer, FillIn, InstallInv, FileTypes, Model
  <1>4. /\ cmd' = [cmd EXCEPT ![p] = c] /\ cmd[p] = Idle
        /\ started < MaxCommands /\ started' = started + 1
        /\ alone' = (alone /\ Quiet)
        /\ UNCHANGED <<machine, receipt, toml, global, crashes>>
    BY <1>1 DEF Starts, StartInit
  <1> HIDE DEF req
  <1>5. c \in InitCommand
    BY <1>2, <1>3 DEF InitCommand
  <1>6. cmd'[p] = c /\ c.at = "probe"
    BY <1>4 DEF InstallInv
  <1>7. Sound(p)'
    BY <1>5, <1>6 DEF Sound, Commands, TakesOurs, Taken, Fits, Knows
  <1> HIDE DEF c
  <1>8. MachineTypes'
    BY <1>4, InstallAssumption DEF InstallInv, MachineTypes, machine, InstallAssumption
  <1>9. FileTypes'
    BY <1>3, <1>4 DEF InstallInv, FileTypes
  <1>10. \A i : Mine(i)' <=> Mine(i)
    BY <1>4, MachineStays
  <1>11. Claims'
    BY <1>4, <1>10 DEF InstallInv, Claims, Claimed
  <1>12. DOMAIN cmd' = Project /\ \A q \in Project : q # p => cmd'[q] = cmd[q]
    BY <1>4 DEF InstallInv
  <1>13. alone' => alone /\ \A q \in Project : q # p => cmd[q] = Idle
    BY <1>4 DEF Quiet
  <1> QED BY <1>7, <1>8, <1>9, <1>10, <1>11, <1>12, <1>13, OneSteps

(* A command that goes on, or settles on a model.                          *)
LEMMA GoesOn ==
    ASSUME InstallInv, NEW p \in Project, cmd[p] \in InitCommand, NEW a,
           a \in {"probe", "install", "wait", "reprobe", "pull", "create",
                      "claim", "save", "point"}, Goto(p, a)
    PROVE  /\ cmd'[p] \in InitCommand /\ cmd[p] # Idle
           /\ cmd'[p] = [cmd[p] EXCEPT !.at = a]
           /\ cmd' = [cmd EXCEPT ![p] = [cmd[p] EXCEPT !.at = a]]
  <1>1. cmd' = [cmd EXCEPT ![p] = [cmd[p] EXCEPT !.at = a]] /\ p \in DOMAIN cmd
    BY DEF Goto, InstallInv
  <1>2. cmd'[p] = [cmd[p] EXCEPT !.at = a]
    BY <1>1
  <1>3. cmd'[p] \in InitCommand
    BY <1>2 DEF InitCommand
  <1>4. cmd[p] # Idle
    BY DEF InitCommand, Idle
  <1> QED BY <1>1, <1>2, <1>3, <1>4

LEMMA Settles ==
    ASSUME InstallInv, NEW p \in Project, cmd[p] \in InitCommand,
           NEW m \in Model, NEW r \in BOOLEAN, Settle(p, m, r)
    PROVE  /\ cmd'[p] \in InitCommand /\ cmd[p] # Idle
           /\ cmd'[p].at = "point" /\ cmd'[p].mdl = m /\ cmd'[p].ready = r
           /\ \E c : cmd' = [cmd EXCEPT ![p] = c]
  <1> DEFINE c == [cmd[p] EXCEPT !.at = "point", !.mdl = m, !.ready = r]
  <1>1. cmd' = [cmd EXCEPT ![p] = c] /\ p \in DOMAIN cmd
    BY DEF Settle, InstallInv
  <1>2. cmd'[p] = c
    BY <1>1
  <1>3. c \in InitCommand /\ c.at = "point" /\ c.mdl = m /\ c.ready = r
    BY DEF InitCommand
  <1>4. cmd[p] # Idle
    BY DEF InitCommand, Idle
  <1> QED BY <1>1, <1>2, <1>3, <1>4

LEMMA ClaimsItem ==
    ASSUME InstallInv, NEW p \in Project, cmd[p] \in InitCommand,
           NEW i \in Item, Claim(p, i)
    PROVE  /\ cmd'[p] \in InitCommand /\ cmd[p] # Idle
           /\ cmd'[p].at = "claim" /\ cmd'[p].claim = i /\ cmd'[p].req = cmd[p].req
           /\ \E c : cmd' = [cmd EXCEPT ![p] = c]
  <1> DEFINE c == [cmd[p] EXCEPT !.at = "claim", !.claim = i]
  <1>1. cmd' = [cmd EXCEPT ![p] = c] /\ p \in DOMAIN cmd
    BY DEF Claim, InstallInv
  <1>2. cmd'[p] = c
    BY <1>1
  <1>3. c \in InitCommand /\ c.at = "claim" /\ c.claim = i /\ c.req = cmd[p].req
    BY DEF InitCommand
  <1>4. cmd[p] # Idle
    BY DEF InitCommand, Idle
  <1> QED BY <1>1, <1>2, <1>3, <1>4

(* A command at a step of init's is an init.                               *)
LEMMA IsInit ==
    ASSUME InstallInv, NEW p \in Project,
           cmd[p].at \in {"probe", "install", "wait", "reprobe", "pull", "create",
                      "claim", "save", "point"}
    PROVE  /\ cmd[p] \in InitCommand /\ cmd[p].req \in {Tag, Other}
           /\ Fallback(cmd[p].req) \in Model
  <1>1. cmd[p] \in InitCommand
    BY DEF InstallInv, Sound, Commands, Idle, Removal, Ending
  <1>2. cmd[p].req \in {Tag, Other}
    BY <1>1 DEF InitCommand
  <1>3. Fallback(cmd[p].req) \in Model
    BY <1>2, Distinct DEF Fallback, BaseOf, Model
  <1> QED BY <1>1, <1>2, <1>3

-----------------------------------------------------------------------------
(* Steps that only look: the outcome is a position, or a model with a      *)
(* "ready" that is true.                                                   *)
LEMMA SettlingKeeps ==
    ASSUME InstallInv, NEW p \in Project, cmd[p] \in InitCommand,
           NEW m \in Model, NEW r \in BOOLEAN, Settle(p, m, r), alone /\ r => m \in present,
           UNCHANGED <<machine, files, counts>>,
           receipt' \in {receipt, Torn} \/ (receipt' \in SUBSET Item /\ \A i \in receipt' : Mine(i))
    PROVE  InstallInv'
  <1>1. /\ cmd'[p] \in InitCommand /\ cmd[p] # Idle
        /\ cmd'[p].at = "point" /\ cmd'[p].mdl = m /\ cmd'[p].ready = r
    BY Settles
  <1>2. PICK c : cmd' = [cmd EXCEPT ![p] = c]
    BY Settles
  <1>3. Sound(p)'
    BY <1>1 DEF Sound, Commands, TakesOurs, Taken, Fits, Knows, machine, counts
  <1>4. FileTypes'
    BY DEF InstallInv, FileTypes, files
  <1> QED BY <1>1, <1>2, <1>3, <1>4, QuietSteps

LEMMA MovingKeeps ==
    ASSUME InstallInv, NEW p \in Project, cmd[p] \in InitCommand,
           NEW a, a \in {"install", "wait", "reprobe", "pull", "create"}, Goto(p, a),
           a = "pull" => Mine(Fallback(cmd[p].req)),
           a = "create" => cmd[p].req = Tag /\ (alone => Base \in present),
           UNCHANGED <<machine, files, counts>>,
           receipt' \in {receipt, Torn} \/ (receipt' \in SUBSET Item /\ \A i \in receipt' : Mine(i))
    PROVE  InstallInv'
  <1>1. /\ cmd'[p] \in InitCommand /\ cmd[p] # Idle
        /\ cmd'[p] = [cmd[p] EXCEPT !.at = a]
    BY GoesOn
  <1>2. PICK c : cmd' = [cmd EXCEPT ![p] = c]
    BY GoesOn
  <1>3. cmd'[p].at = a /\ cmd'[p].req = cmd[p].req
    BY <1>1 DEF InitCommand
  <1>4. Mine(Fallback(cmd[p].req)) => Mine(Fallback(cmd[p].req))'
    BY <1>3 DEF Mine, machine, Fallback, BaseOf
  <1>5. TakesOurs(p)'
    BY <1>3, <1>4 DEF TakesOurs, Taken
  <1>6. Sound(p)'
    BY <1>1, <1>3, <1>5 DEF Sound, Commands, Fits, Knows, machine, counts
  <1>7. FileTypes'
    BY DEF InstallInv, FileTypes, files
  <1> QED BY <1>1, <1>2, <1>6, <1>7, QuietSteps

(* A pull is decided on when the model is not there.                       *)
LEMMA ReachedKeeps ==
    ASSUME InstallInv, NEW p \in Project, cmd[p].at \in {"probe", "reprobe"},
           Reached(p), UNCHANGED <<machine, receipt, files, counts>>
    PROVE  InstallInv'
  <1>1. cmd[p] \in InitCommand /\ cmd[p].req \in {Tag, Other} /\ cmd[p].req \in Model
    BY IsInit DEF Model
  <1>2. Base \in Model /\ None \notin Model /\ Other # Tag /\ "ollama" \notin Model
    BY Distinct DEF Model, Item
  <1> DEFINE req == cmd[p].req
  <1>3. CASE req \in present /\ Settle(p, req, TRUE)
    BY <1>1, <1>3, SettlingKeeps
  <1>4. CASE req \notin present /\ Settle(p, req, FALSE)
    BY <1>1, <1>4, SettlingKeeps
  <1>5. CASE req \notin present /\ BaseOf(req) = None /\ Goto(p, "pull")
    <2>1. Mine(Fallback(req))
      BY <1>1, <1>2, <1>5 DEF Mine, Fallback
    <2> QED BY <1>1, <1>5, <2>1, MovingKeeps
  <1>6. CASE Settle(p, Base, Base \in present)
    <2>1. CASE Base \in present
      <3>1. Settle(p, Base, TRUE)
        BY <1>6, <2>1
      <3> QED BY <1>1, <1>2, <2>1, <3>1, SettlingKeeps
    <2>2. CASE Base \notin present
      <3>1. (Base \in present) = FALSE
        BY <2>2
      <3>2. Settle(p, Base, FALSE)
        BY <1>6, <3>1
      <3> QED BY <1>1, <1>2, <3>2, SettlingKeeps
    <2> QED BY <2>1, <2>2
  <1>7. CASE Settle(p, Base, FALSE)
    BY <1>1, <1>2, <1>7, SettlingKeeps
  <1>8. CASE BaseOf(req) # None /\ Base \in present /\ Goto(p, "create")
    <2>1. req = Tag
      BY <1>8 DEF BaseOf
    <2> QED BY <1>1, <1>8, <2>1, MovingKeeps
  <1>9. CASE BaseOf(req) # None /\ Base \notin present /\ Goto(p, "pull")
    <2>1. Fallback(req) = Base
      BY <1>9 DEF BaseOf, Fallback
    <2>2. Mine(Fallback(req))
      BY <1>2, <1>9, <2>1 DEF Mine
    <2> QED BY <1>1, <1>9, <2>2, MovingKeeps
  <1> QED BY <1>3, <1>4, <1>5, <1>6, <1>7, <1>8, <1>9 DEF Reached

LEMMA ProbesKeep ==
    ASSUME InstallInv, NEW p \in Project, Probe(p) \/ WaitOllama(p) \/ Reprobe(p)
    PROVE  InstallInv'
  <1>1. /\ cmd[p].at \in {"probe", "wait", "reprobe"}
        /\ UNCHANGED <<machine, receipt, files, counts>>
    BY DEF Probe, WaitOllama, Reprobe
  <1>2. cmd[p] \in InitCommand /\ Fallback(cmd[p].req) \in Model
    BY <1>1, IsInit
  <1>3. CASE cmd[p].at \in {"probe", "reprobe"} /\ Reached(p)
    BY <1>1, <1>3, ReachedKeeps
  <1>4. CASE Goto(p, "install")
    BY <1>1, <1>2, <1>4, MovingKeeps
  <1>5. CASE Goto(p, "reprobe")
    BY <1>1, <1>2, <1>5, MovingKeeps
  <1>6. CASE Settle(p, Fallback(cmd[p].req), FALSE)
    BY <1>1, <1>2, <1>6, SettlingKeeps
  <1> QED BY <1>3, <1>4, <1>5, <1>6 DEF Probe, WaitOllama, Reprobe

-----------------------------------------------------------------------------
(* Steps that put something there, and claim it.                           *)
LEMMA ClaimingKeeps ==
    ASSUME InstallInv, NEW p \in Project, cmd[p] \in InitCommand,
           NEW i \in Item, Claim(p, i), Mine(i)', i # "ollama" => i \in present',
           \/ i \in {"ollama", cmd[p].req}
           \/ i = Base /\ cmd[p].req = Tag,
           MachineTypes', \A j \in Item : Mine(j) => Mine(j)',
           UNCHANGED <<receipt, files, counts>>
    PROVE  InstallInv'
  <1>1. /\ cmd'[p] \in InitCommand /\ cmd[p] # Idle
        /\ cmd'[p].at = "claim" /\ cmd'[p].claim = i /\ cmd'[p].req = cmd[p].req
    BY ClaimsItem
  <1>2. PICK c : cmd' = [cmd EXCEPT ![p] = c]
    BY ClaimsItem
  <1>3. Taken(p)' = {i}
    BY <1>1 DEF Taken
  <1>4. TakesOurs(p)'
    BY <1>1, <1>3 DEF TakesOurs
  <1>5. Sound(p)'
    BY <1>1, <1>4 DEF Sound, Commands, Fits, Knows
  <1>6. FileTypes'
    BY DEF InstallInv, FileTypes, files
  <1>7. Claims'
    BY ClaimedItems DEF InstallInv, Claims, Claimed, Item, Model
  <1> QED BY <1>1, <1>2, <1>5, <1>6, <1>7, RunningSteps DEF counts

(* Put: what is there already keeps its maker.                             *)
LEMMA PuttingKeeps ==
    ASSUME InstallInv, NEW m \in Model, Mine(m), Put(m),
           UNCHANGED <<ollama, ollamaBy, receipt, files, counts>>
    PROVE  /\ MachineTypes' /\ Mine(m)' /\ m \in present'
           /\ \A j \in Item : Mine(j) => Mine(j)'
  <1>1. MachineTypes'
    BY DEF InstallInv, MachineTypes, Put, counts
  <1>2. m # "ollama"
    BY Distinct
  <1>3. Mine(m)' /\ m \in present'
    BY <1>2 DEF InstallInv, MachineTypes, Mine, Put
  <1>4. \A j \in Item : j # m => (Mine(j) => Mine(j)')
    BY DEF InstallInv, MachineTypes, Mine, Put, Item
  <1> QED BY <1>1, <1>3, <1>4

LEMMA PullKeeps ==
    ASSUME InstallInv, NEW p \in Project, Pull(p)
    PROVE  InstallInv'
  <1>1. cmd[p] \in InitCommand /\ cmd[p].at = "pull"
    BY IsInit DEF Pull
  <1>2. PICK m \in Model : m = Fallback(cmd[p].req)
    BY <1>1, IsInit
  <1>3. Mine(m)
    BY <1>1, <1>2 DEF InstallInv, Sound, TakesOurs
  <1>4. CASE Put(m) /\ Claim(p, m)
    <2>1. UNCHANGED <<ollama, ollamaBy, receipt, files, counts>>
      BY DEF Pull
    <2>2. \/ m \in {"ollama", cmd[p].req}
          \/ m = Base /\ cmd[p].req = Tag
      BY <1>2 DEF Fallback, BaseOf
    <2>3. m \in Item
      BY DEF Item
    <2>4. /\ MachineTypes' /\ Mine(m)' /\ m \in present'
          /\ \A j \in Item : Mine(j) => Mine(j)'
      BY <1>3, <1>4, <2>1, PuttingKeeps
    <2> QED BY <1>1, <1>4, <2>1, <2>2, <2>3, <2>4, ClaimingKeeps
  <1>5. CASE Settle(p, m, FALSE) /\ UNCHANGED <<present, putBy>>
    BY <1>1, <1>5, SettlingKeeps DEF Pull, machine
  <1> QED BY <1>2, <1>4, <1>5 DEF Pull

LEMMA CreateKeeps ==
    ASSUME InstallInv, NEW p \in Project, Create(p)
    PROVE  InstallInv'
  <1>1. cmd[p] \in InitCommand /\ cmd[p].at = "create"
    BY IsInit DEF Create
  <1>2. Mine(Tag) /\ Tag \in Model /\ Tag \in Item /\ Base \in Model
    BY DEF InstallInv, Claims, Model, Item
  <1>3. CASE Put(Tag) /\ Claim(p, Tag)
    <2>1. UNCHANGED <<ollama, ollamaBy, receipt, files, counts>>
      BY DEF Create
    <2>2. cmd[p].req = Tag
      BY <1>1 DEF InstallInv, Sound, Fits
    <2>3. /\ MachineTypes' /\ Mine(Tag)' /\ Tag \in present'
          /\ \A j \in Item : Mine(j) => Mine(j)'
      BY <1>2, <1>3, <2>1, PuttingKeeps
    <2> QED BY <1>1, <1>2, <1>3, <2>1, <2>2, <2>3, ClaimingKeeps
  <1>4. CASE Settle(p, Base, TRUE) /\ UNCHANGED <<present, putBy>>
    <2>1. alone => Base \in present
      BY <1>1 DEF InstallInv, Sound, Knows
    <2> QED BY <1>1, <1>2, <1>4, <2>1, SettlingKeeps DEF Create, machine
  <1> QED BY <1>3, <1>4 DEF Create

LEMMA InstallOllamaKeeps ==
    ASSUME InstallInv, NEW p \in Project, InstallOllama(p)
    PROVE  InstallInv'
  <1>1. cmd[p] \in InitCommand /\ Fallback(cmd[p].req) \in Model
    BY IsInit DEF InstallOllama
  <1>2. UNCHANGED <<present, putBy, receipt, files, counts>>
    BY DEF InstallOllama
  <1>3. CASE Settle(p, Fallback(cmd[p].req), FALSE) /\ UNCHANGED <<ollama, ollamaBy>>
    BY <1>1, <1>2, <1>3, SettlingKeeps DEF machine
  <1>4. CASE ollama' = "down" /\ ollamaBy' = "ours" /\ Claim(p, "ollama")
    <2>1. MachineTypes'
      BY <1>2, <1>4 DEF InstallInv, MachineTypes, counts
    <2>2. "ollama" \in Item /\ Mine("ollama")' /\ \A j \in Item : Mine(j) => Mine(j)'
      BY <1>2, <1>4 DEF Item, Mine
    <2> QED BY <1>1, <1>2, <1>4, <2>1, <2>2, ClaimingKeeps
  <1> QED BY <1>2, <1>3, <1>4 DEF InstallOllama

-----------------------------------------------------------------------------
(* The receipt: read, changed and written as a whole.                      *)
LEMMA LoadKeeps ==
    ASSUME InstallInv, NEW p \in Project, LoadReceipt(p)
    PROVE  InstallInv'
  <1>1. cmd[p] \in InitCommand /\ cmd[p].at = "claim"
    BY IsInit DEF LoadReceipt
  <1> DEFINE c == [cmd[p] EXCEPT !.at = "save", !.snap = Claimed \union {cmd[p].claim}]
  <1>2. cmd' = [cmd EXCEPT ![p] = c] /\ UNCHANGED <<machine, receipt, files, counts>>
    BY DEF LoadReceipt
  <1>3. cmd'[p] = c /\ cmd[p] # Idle
    BY <1>1, <1>2 DEF InstallInv, InitCommand, Idle
  <1>4. Taken(p) = {cmd[p].claim} /\ Taken(p) \subseteq Item /\ Mine(cmd[p].claim)
    BY <1>1 DEF Taken, InstallInv, Sound, TakesOurs
  <1>5. c \in InitCommand /\ c.at = "save" /\ c.claim = cmd[p].claim /\ c.req = cmd[p].req
        /\ c.snap = Claimed \union {cmd[p].claim}
    BY <1>1, <1>4, ClaimedItems DEF InstallInv, InitCommand
  <1> HIDE DEF c
  <1>6. Taken(p)' = Claimed \union {cmd[p].claim}
    BY <1>3, <1>5 DEF Taken
  <1>7. \A i \in Claimed \union {cmd[p].claim} : Mine(i)'
    BY <1>2, <1>4, MachineStays DEF InstallInv, Claims
  <1>8. TakesOurs(p)'
    BY <1>3, <1>4, <1>5, <1>6, <1>7, ClaimedItems DEF TakesOurs, InstallInv
  <1>9. Sound(p)'
    BY <1>1, <1>2, <1>3, <1>5, <1>8
       DEF InstallInv, Sound, Commands, Fits, Knows, machine, counts
  <1>10. FileTypes'
    BY <1>2 DEF InstallInv, FileTypes, files
  <1> QED BY <1>2, <1>3, <1>9, <1>10, QuietSteps

LEMMA SaveKeeps ==
    ASSUME InstallInv, NEW p \in Project, SaveReceipt(p)
    PROVE  InstallInv'
  <1>1. cmd[p] \in InitCommand /\ cmd[p].at = "save" /\ cmd[p].req \in Model
        /\ cmd[p].req # Base /\ UNCHANGED <<machine, files, counts>>
    BY IsInit, Distinct DEF SaveReceipt, Model
  <1>2. receipt' \in {receipt, Torn} \/ (receipt' \in SUBSET Item /\ \A i \in receipt' : Mine(i))
    BY <1>1 DEF SaveReceipt, InstallInv, Sound, TakesOurs, Taken
  <1>3. \/ cmd[p].claim \in {"ollama", cmd[p].req}
        \/ cmd[p].claim = Base /\ cmd[p].req = Tag
    BY <1>1 DEF InstallInv, Sound, Fits
  <1>4. alone /\ cmd[p].claim # "ollama" => cmd[p].claim \in present
    BY <1>1 DEF InstallInv, Sound, Knows
  <1>5. CASE Goto(p, "wait")
    BY <1>1, <1>2, <1>5, MovingKeeps
  <1>6. CASE cmd[p].claim = Base /\ Goto(p, "create")
    <2>1. cmd[p].claim # "ollama" /\ cmd[p].req = Tag
      BY <1>1, <1>3, <1>6, Distinct DEF Model
    <2> QED BY <1>1, <1>2, <1>4, <1>6, <2>1, MovingKeeps
  <1>7. CASE cmd[p].claim \notin {"ollama", Base} /\ Settle(p, cmd[p].req, TRUE)
    BY <1>1, <1>2, <1>3, <1>4, <1>7, SettlingKeeps
  <1> QED BY <1>5, <1>6, <1>7 DEF SaveReceipt

(* A command that is over.                                                 *)
LEMMA EndingKeeps ==
    ASSUME InstallInv, NEW p \in Project, cmd[p] # Idle,
           cmd' = [cmd EXCEPT ![p] = Idle], MachineTypes', FileTypes',
           UNCHANGED <<machine, alone>>, Claimed' \subseteq Claimed
    PROVE  InstallInv'
  <1>1. cmd'[p] = Idle
    BY DEF InstallInv
  <1>2. Sound(p)'
    BY <1>1 DEF Sound, Idle, Commands, TakesOurs, Taken, Fits, Knows
  <1>3. Claims'
    BY MachineStays DEF InstallInv, Claims
  <1> QED BY <1>2, <1>3, MachineStays, RunningSteps

(* The files record what was asked for, the pointer what there is.         *)
LEMMA PointKeeps ==
    ASSUME InstallInv, NEW p \in Project, Point(p)
    PROVE  InstallInv'
  <1>1. cmd[p] \in InitCommand /\ cmd[p] # Idle
    BY IsInit DEF Point, InitCommand, Idle
  <1>2. cmd[p].req \in {Tag, Other} /\ cmd[p].mdl \in Model \union {None}
    BY <1>1 DEF InitCommand
  <1>3. pointer' \in [Project -> Model \union {None}]
    BY <1>2 DEF Point, FollowReality, InstallInv, FileTypes
  <1>4. toml' \in [Project -> {Tag, Other, None}] /\ global' \in {Tag, Other, None}
    BY <1>2 DEF Point, WriteStarterConfig, WriteGlobalConfig, FillIn, InstallInv, FileTypes
  <1>5. FileTypes'
    BY <1>3, <1>4 DEF FileTypes
  <1>6. /\ UNCHANGED <<machine, receipt, counts>> /\ cmd' = [cmd EXCEPT ![p] = Idle]
    BY DEF Point
  <1>7. MachineTypes' /\ Claimed' = Claimed
    BY <1>6 DEF InstallInv, MachineTypes, machine, counts, Claimed
  <1> QED BY <1>1, <1>5, <1>6, <1>7, EndingKeeps DEF counts

-----------------------------------------------------------------------------
(* boostopt-uninstall.                                                     *)

LEMMA IsRemoval ==
    ASSUME InstallInv, NEW p \in Project, cmd[p].at \in {"rm", "teardown"}
    PROVE  cmd[p] \in Removal /\ cmd[p] # Idle
  BY DEF InstallInv, Sound, Commands, Idle, InitCommand, Ending

(* It takes what the receipt claims, once, at its start.                   *)
LEMMA StartUninstallKeeps ==
    ASSUME InstallInv, NEW p \in Project, StartUninstall(p)
    PROVE  InstallInv'
  <1>1. Starts(p, [at |-> "rm", todo |-> OwnedModels, ours |-> OwnsOllama,
                   config |-> global # None])
    BY DEF StartUninstall
  <1> DEFINE c == [at |-> "rm", todo |-> OwnedModels, ours |-> OwnsOllama,
                   config |-> global # None]
  <1>2. /\ cmd' = [cmd EXCEPT ![p] = c] /\ cmd[p] = Idle
        /\ started < MaxCommands /\ started' = started + 1
        /\ alone' = (alone /\ Quiet)
        /\ UNCHANGED <<machine, receipt, files, crashes>>
    BY <1>1 DEF Starts, StartUninstall
  <1>3. OwnedModels \in SUBSET Model
    BY ClaimedItems DEF OwnedModels, InstallInv, Item
  <1>4. OwnsOllama \in BOOLEAN /\ (global # None) \in BOOLEAN
    BY DEF OwnsOllama
  <1>5. c \in Removal
    BY <1>3, <1>4 DEF Removal
  <1>6. c.at = "rm" /\ c.todo = OwnedModels /\ c.ours = OwnsOllama
    OBVIOUS
  <1> HIDE DEF c
  <1>7. cmd'[p] = c
    BY <1>2 DEF InstallInv
  <1>8. Taken(p)' \subseteq Claimed
    BY <1>6, <1>7 DEF Taken, OwnedModels, OwnsOllama
  <1>9. \A i : Mine(i)' <=> Mine(i)
    BY <1>2, MachineStays
  <1>10. TakesOurs(p)'
    BY <1>6, <1>7, <1>8, <1>9, ClaimedItems DEF TakesOurs, InstallInv, Claims
  <1>11. OwnsOllama' = OwnsOllama
    BY <1>2 DEF OwnsOllama, Claimed
  <1>12. Sound(p)'
    BY <1>5, <1>6, <1>7, <1>10, <1>11 DEF Sound, Commands, Fits, Knows
  <1>13. MachineTypes'
    BY <1>2, InstallAssumption DEF InstallInv, MachineTypes, machine, InstallAssumption
  <1>14. FileTypes'
    BY <1>2 DEF InstallInv, FileTypes, files
  <1>15. Claims'
    BY <1>2, <1>9 DEF InstallInv, Claims, Claimed
  <1>16. DOMAIN cmd' = Project /\ \A q \in Project : q # p => cmd'[q] = cmd[q]
    BY <1>2 DEF InstallInv
  <1>17. alone' => alone /\ \A q \in Project : q # p => cmd[q] = Idle
    BY <1>2 DEF Quiet
  <1> QED BY <1>9, <1>12, <1>13, <1>14, <1>15, <1>16, <1>17, OneSteps

LEMMA RemoveModelKeeps ==
    ASSUME InstallInv, NEW p \in Project, RemoveModel(p)
    PROVE  InstallInv'
  <1>1. cmd[p] \in Removal /\ cmd[p] # Idle /\ cmd[p].at = "rm"
    BY IsRemoval DEF RemoveModel
  <1>2. PICK m \in cmd[p].todo :
          /\ cmd' = [cmd EXCEPT ![p].todo = @ \ {m}]
          /\ \/ /\ present' = present \ {m}
                /\ putBy' = [putBy EXCEPT ![m] = None]
             \/ UNCHANGED <<present, putBy>>
    BY DEF RemoveModel
  <1>3. UNCHANGED <<ollama, ollamaBy, receipt, files, counts>>
    BY DEF RemoveModel
  <1> DEFINE c == [cmd[p] EXCEPT !.todo = @ \ {m}]
  <1>4. c \in Removal /\ c.at = "rm" /\ c.ours = cmd[p].ours /\ c.todo = cmd[p].todo \ {m}
    BY <1>1 DEF Removal
  <1>5. cmd' = [cmd EXCEPT ![p] = c]
    BY <1>2
  <1> HIDE DEF c
  <1>6. cmd'[p] = c
    BY <1>5 DEF InstallInv
  <1>7. m \in Model
    BY <1>1, <1>2 DEF Removal
  <1>8. MachineTypes'
    BY <1>2, <1>3, <1>7 DEF InstallInv, MachineTypes, counts
  <1>9. \A i \in Item : Mine(i) => Mine(i)'
    BY <1>2, <1>3, <1>7 DEF InstallInv, MachineTypes, Mine, Item
  <1>10. Taken(p)' \subseteq Taken(p)
    BY <1>1, <1>4, <1>6 DEF Taken
  <1>11. TakesOurs(p)'
    BY <1>4, <1>6, <1>9, <1>10 DEF InstallInv, Sound, TakesOurs
  <1>12. OwnsOllama' = OwnsOllama
    BY <1>3 DEF OwnsOllama, Claimed
  <1>13. Sound(p)'
    BY <1>1, <1>3, <1>4, <1>6, <1>11, <1>12
       DEF InstallInv, Sound, Commands, Fits, Knows, counts
  <1>14. FileTypes'
    BY <1>3 DEF InstallInv, FileTypes, files
  <1>15. Claims'
    BY <1>3, <1>9, ClaimedItems DEF InstallInv, Claims, Claimed, Item, Model
  <1> QED BY <1>1, <1>3, <1>5, <1>8, <1>9, <1>13, <1>14, <1>15, RunningSteps DEF counts

LEMMA RemoveFilesKeeps ==
    ASSUME InstallInv, NEW p \in Project, RemoveFiles(p)
    PROVE  InstallInv'
  <1>1. cmd[p] \in Removal /\ cmd[p] # Idle /\ cmd[p].at = "rm"
    BY IsRemoval DEF RemoveFiles
  <1> DEFINE c == [cmd[p] EXCEPT !.at = "teardown"]
  <1>2. cmd' = [cmd EXCEPT ![p] = c] /\ UNCHANGED <<machine, receipt, counts>>
    BY DEF RemoveFiles, Goto
  <1>3. c \in Removal /\ c.at = "teardown" /\ c.ours = cmd[p].ours
    BY <1>1 DEF Removal
  <1> HIDE DEF c
  <1>4. cmd'[p] = c
    BY <1>2 DEF InstallInv
  <1>5. Taken(p)' \subseteq Taken(p)
    BY <1>1, <1>3, <1>4 DEF Taken
  <1>6. TakesOurs(p)'
    BY <1>2, <1>3, <1>4, <1>5, MachineStays DEF InstallInv, Sound, TakesOurs
  <1>7. OwnsOllama' = OwnsOllama
    BY <1>2 DEF OwnsOllama, Claimed
  <1>8. Sound(p)'
    BY <1>1, <1>2, <1>3, <1>4, <1>6, <1>7
       DEF InstallInv, Sound, Commands, Fits, Knows, counts
  <1>9. FileTypes'
    BY DEF RemoveFiles, InstallInv, FileTypes
  <1> QED BY <1>1, <1>2, <1>8, <1>9, QuietSteps

(* Whatever fails in it, "gone" means gone or not ours.                    *)
LEMMA TeardownKeeps ==
    ASSUME InstallInv, NEW p \in Project, Teardown(p)
    PROVE  InstallInv'
  <1>1. cmd[p] \in Removal /\ cmd[p] # Idle /\ cmd[p].at = "teardown"
    BY IsRemoval DEF Teardown
  <1>2. PICK g \in BOOLEAN :
          /\ Gone(p, g)
          /\ \/ ollama' = "absent" /\ ollamaBy' = None
             \/ UNCHANGED <<ollama, ollamaBy>> /\ (g => ~cmd[p].ours)
    BY <1>1 DEF Teardown, Removal
  <1>3. UNCHANGED <<present, putBy, receipt, files, counts>>
    BY DEF Teardown
  <1> DEFINE c == [at |-> "forget", gone |-> g]
  <1>4. cmd' = [cmd EXCEPT ![p] = c] /\ c.at = "forget" /\ c.gone = g /\ c \in Ending
    BY <1>2 DEF Gone, Ending
  <1> HIDE DEF c
  <1>5. cmd'[p] = c
    BY <1>4 DEF InstallInv
  <1>6. MachineTypes'
    BY <1>2, <1>3 DEF InstallInv, MachineTypes, counts
  <1>7. \A i \in Item : Mine(i) => Mine(i)'
    BY <1>2, <1>3 DEF Mine
  <1>8. TakesOurs(p)'
    BY <1>4, <1>5 DEF TakesOurs, Taken
  <1>9. OwnsOllama' = OwnsOllama
    BY <1>3 DEF OwnsOllama, Claimed
  <1>10. alone => (g => ollama' = "absent" \/ ~OwnsOllama)
    BY <1>1, <1>2 DEF InstallInv, Sound, Knows
  <1>11. Sound(p)'
    BY <1>3, <1>4, <1>5, <1>8, <1>9, <1>10 DEF Sound, Commands, Fits, Knows, counts
  <1>12. FileTypes'
    BY <1>3 DEF InstallInv, FileTypes, files
  <1>13. Claims'
    BY <1>3, <1>7, ClaimedItems DEF InstallInv, Claims, Claimed, Item, Model
  <1> QED BY <1>1, <1>3, <1>4, <1>6, <1>7, <1>11, <1>12, <1>13, RunningSteps DEF counts

(* The last step of an uninstall, and a kill at any step.                  *)
LEMMA LastStepsKeep ==
    ASSUME InstallInv, NEW p \in Project, Forget(p) \/ Crash(p)
    PROVE  InstallInv'
  <1>1. /\ cmd[p] # Idle /\ cmd' = [cmd EXCEPT ![p] = Idle]
        /\ UNCHANGED <<machine, files, started, alone>>
        /\ crashes' \in 0 .. MaxCrashes /\ receipt' \in {receipt, None, Torn}
    BY InstallAssumption
       DEF Forget, Crash, Idle, counts, InstallInv, MachineTypes, InstallAssumption
  <1>2. MachineTypes' /\ FileTypes'
    BY <1>1 DEF InstallInv, MachineTypes, FileTypes, machine, files
  <1>3. Claimed' \subseteq Claimed
    BY <1>1 DEF Claimed
  <1> QED BY <1>1, <1>2, <1>3, EndingKeeps

-----------------------------------------------------------------------------
(* The user acts between commands, and does not install again what the     *)
(* receipt still claims.                                                   *)
LEMMA UserKeeps ==
    ASSUME ~UserRepulls, InstallInv, Quiet,
           UserInstalls \/ \E m \in Model : UserPulls(m) \/ UserRemoves(m)
    PROVE  InstallInv'
  <1>1. UNCHANGED <<receipt, files, cmd, counts>>
    BY DEF UserInstalls, UserPulls, UserRemoves
  <1>2. \A p \in Project : cmd'[p] = Idle
    BY <1>1 DEF Quiet
  <1>3. \A p \in Project : Sound(p)'
    BY <1>2 DEF Sound, Idle, Commands, TakesOurs, Taken, Fits, Knows
  <1>4. Lone' /\ FileTypes' /\ DOMAIN cmd' = Project
    BY <1>1, <1>2 DEF InstallInv, Lone, FileTypes, files
  <1>5. MachineTypes'
    BY <1>1 DEF UserInstalls, UserPulls, UserRemoves, InstallInv, MachineTypes, counts
  <1>6. \A i \in Item : Mine(i) /\ i \notin (Item \ Claimed) \ {Tag} => Mine(i)'
    <2>1. CASE UserInstalls
      BY <2>1, Distinct DEF UserInstalls, Mine, Item, Model
    <2>2. ASSUME NEW m \in Model, UserPulls(m)
          PROVE  \A i \in Item : Mine(i) /\ i \notin (Item \ Claimed) \ {Tag} => Mine(i)'
      BY <2>2, Distinct DEF UserPulls, Mine, Item, InstallInv, MachineTypes
    <2>3. ASSUME NEW m \in Model, UserRemoves(m)
          PROVE  \A i \in Item : Mine(i) => Mine(i)'
      BY <2>3 DEF UserRemoves, Mine, Item, InstallInv, MachineTypes
    <2> QED BY <2>1, <2>2, <2>3
  <1>7. Claims'
    BY <1>1, <1>6, ClaimedItems DEF InstallInv, Claims, Claimed, Item, Model
  <1> QED BY <1>3, <1>4, <1>5, <1>7 DEF InstallInv

(* The service starts and stops; the runtime is there all the same.        *)
LEMMA ServiceKeeps ==
    ASSUME InstallInv, Service \/ UNCHANGED vars
    PROVE  InstallInv'
  <1>1. /\ UNCHANGED <<present, putBy, ollamaBy, receipt, files, cmd, counts>>
        /\ ollama' \in {"absent", "down", "up", "remote"}
        /\ (ollama' = "absent") = (ollama = "absent")
    BY DEF Service, vars, files, counts, InstallInv, MachineTypes
  <1>2. \A i : Mine(i)' <=> Mine(i)
    BY <1>1 DEF Mine
  <1>3. MachineTypes' /\ FileTypes' /\ Lone'
    BY <1>1 DEF InstallInv, MachineTypes, FileTypes, Lone, files, counts
  <1>4. Claims'
    BY <1>1, <1>2 DEF InstallInv, Claims, Claimed
  <1>5. ASSUME NEW p \in Project PROVE Sound(p)'
    <2>1. TakesOurs(p)'
      BY <1>1, <1>2 DEF InstallInv, Sound, TakesOurs, Taken, Fallback, BaseOf
    <2>2. Knows(p) => Knows(p)'
      BY <1>1 DEF Knows, OwnsOllama, Claimed
    <2> QED BY <1>1, <2>1, <2>2 DEF InstallInv, Sound, Fits, counts
  <1> QED BY <1>1, <1>3, <1>4, <1>5 DEF InstallInv

LEMMA InitInv == Init => InstallInv
  <1> SUFFICES ASSUME Init PROVE InstallInv
    OBVIOUS
  <1>1. MachineTypes
    BY InstallAssumption DEF Init, MachineTypes, Model, InstallAssumption
  <1>2. FileTypes /\ DOMAIN cmd = Project /\ Claims /\ Lone
    BY Distinct DEF Init, FileTypes, Claims, Claimed, Mine, Lone, Model, Item
  <1>3. \A p \in Project : Sound(p)
    BY DEF Init, Sound, Idle, Commands, TakesOurs, Taken, Fits, Knows
  <1> QED BY <1>1, <1>2, <1>3 DEF InstallInv

LEMMA NextKeeps ==
    ASSUME ~UserRepulls, InstallInv, [Next]_vars
    PROVE  InstallInv'
  <1>1. ASSUME NEW p \in Project, InitStep(p) PROVE InstallInv'
    BY <1>1, StartInitKeeps, ProbesKeep, InstallOllamaKeeps, PullKeeps, CreateKeeps,
       LoadKeeps, SaveKeeps, PointKeeps DEF InitStep
  <1>2. ASSUME NEW p \in Project, UninstallStep(p) \/ Crash(p) PROVE InstallInv'
    BY <1>2, StartUninstallKeeps, RemoveModelKeeps, RemoveFilesKeeps, TeardownKeeps,
       LastStepsKeep DEF UninstallStep
  <1>3. ASSUME UserInstalls \/ \E m \in Model : UserPulls(m) \/ UserRemoves(m)
        PROVE  InstallInv'
    BY <1>3, UserKeeps DEF UserInstalls, UserPulls, UserRemoves
  <1> QED BY <1>1, <1>2, <1>3, ServiceKeeps DEF Next

(* The invariant holds for ever.                                           *)
THEOREM InstallInvariance ==
    ASSUME ~UserRepulls
    PROVE  Spec => []InstallInv
  BY InitInv, NextKeeps, PTL DEF Spec

-----------------------------------------------------------------------------
(* Every variable and every running command keeps its kind.                *)
THEOREM InstallTypes ==
    ASSUME ~UserRepulls
    PROVE  Spec => []InstallTypeOK
  <1>1. InstallInv => InstallTypeOK
    BY DEF InstallInv, MachineTypes, FileTypes, Sound, Commands, Idle, InitCommand,
       Removal, Ending, InstallTypeOK, Model
  <1> QED BY <1>1, InstallInvariance, PTL

(* Which steps take something away.                                        *)
LEMMA WhatIsRemoved ==
    ASSUME InstallInv, [Next]_vars
    PROVE  /\ \/ present \subseteq present' \/ Quiet
              \/ \E p \in Project : RemoveModel(p)
           /\ \/ ollama' # "absent" \/ ollama' = ollama
              \/ \E p \in Project : Teardown(p)
  <1>1. CASE \E p \in Project : InitStep(p)
    BY <1>1 DEF InitStep, StartInit, Probe, InstallOllama, WaitOllama, Reprobe, Pull, Create,
       LoadReceipt, SaveReceipt, Point, Put, machine
  <1>2. CASE \E p \in Project : UninstallStep(p) \/ Crash(p)
    BY <1>2 DEF UninstallStep, StartUninstall, RemoveModel, RemoveFiles, Teardown, Forget,
       Crash, machine
  <1>3. CASE \/ UserInstalls \/ Service \/ UNCHANGED vars
             \/ \E m \in Model : UserPulls(m) \/ UserRemoves(m)
    BY <1>3 DEF UserInstalls, Service, vars, UserPulls, UserRemoves
  <1> QED BY <1>1, <1>2, <1>3 DEF Next

(* receipt.py:9: an uninstall takes away only what an init has put there,  *)
(* whatever failed or was killed before, and however commands interleave.  *)
THEOREM RemovesOnlyOurs ==
    ASSUME ~UserRepulls
    PROVE  Spec => OnlyOursRemoved
  <1>1. ASSUME InstallInv, [Next]_vars, NEW p \in Project
        PROVE  /\ cmd[p].at = "rm" => \A m \in present \ present' : putBy[m] = "ours"
               /\ (cmd[p].at = "teardown" /\ ollama # "absent" /\ ollama' = "absent")
                     => ollamaBy = "ours"
    <2>1. Quiet => cmd[p].at = "idle"
      BY DEF Quiet, Idle
    <2>2. ASSUME NEW q \in Project, RemoveModel(q)
          PROVE  \A m \in present \ present' : putBy[m] = "ours"
      <3>1. \A m \in present \ present' : m \in cmd[q].todo /\ cmd[q].at = "rm"
        BY <2>2 DEF RemoveModel
      <3>2. \A m \in present \ present' : m \in Taken(q) /\ m # "ollama"
        BY <1>1, <3>1, Distinct DEF Taken, InstallInv, MachineTypes
      <3> QED BY <1>1, <3>2 DEF InstallInv, Sound, TakesOurs, Mine
    <2>3. ASSUME NEW q \in Project, Teardown(q), ollama' # ollama
          PROVE  ollama = "absent" \/ ollamaBy = "ours"
      <3>1. cmd[q].at = "teardown" /\ cmd[q].ours
        BY <2>3 DEF Teardown
      <3>2. "ollama" \in Taken(q)
        BY <3>1 DEF Taken
      <3> QED BY <1>1, <3>2 DEF InstallInv, Sound, TakesOurs, Mine
    <2> QED BY <1>1, <2>1, <2>2, <2>3, WhatIsRemoved
  <1>2. InstallInv /\ [Next]_vars =>
          \A p \in Project :
             /\ cmd[p].at = "rm" => \A m \in present \ present' : putBy[m] = "ours"
             /\ (cmd[p].at = "teardown" /\ ollama # "absent" /\ ollama' = "absent")
                   => ollamaBy = "ours"
    BY <1>1
  <1> QED BY <1>2, InstallInvariance, PTL DEF Spec, OnlyOursRemoved

(* uninstall.py:112: the receipt is dropped only when the Ollama it claims *)
(* is gone.                                                                *)
THEOREM ClaimOutlives ==
    ASSUME ~UserRepulls
    PROVE  Spec => OllamaClaimKept
  <1>1. ASSUME InstallInv, [Next]_vars, alone, "ollama" \in Claimed, receipt' = None
        PROVE  ollama = "absent" \/ ollamaBy # "ours"
    <2>1. receipt # None
      BY <1>1 DEF Claimed
    <2>2. \E p \in Project : SaveReceipt(p) \/ Forget(p)
      BY <1>1, <2>1, InstallAssumption
         DEF Next, InitStep, StartInit, Probe, InstallOllama, WaitOllama, Reprobe,
         Pull, Create, LoadReceipt, Point, UninstallStep, StartUninstall, RemoveModel,
         RemoveFiles, Teardown, Crash, UserInstalls, UserPulls, UserRemoves, Service, vars,
         InstallAssumption
    <2>3. ASSUME NEW p \in Project, SaveReceipt(p) PROVE FALSE
      <3>1. cmd[p] \in InitCommand /\ receipt' \in {cmd[p].snap, receipt, Torn}
        BY <1>1, <2>3, IsInit DEF SaveReceipt
      <3>2. cmd[p].snap \in SUBSET Item
        BY <3>1 DEF InitCommand
      <3> QED BY <1>1, <2>1, <3>1, <3>2, Distinct, InstallAssumption
    <2>4. ASSUME NEW p \in Project, Forget(p) PROVE ollama = "absent"
      <3>1. cmd[p].at = "forget" /\ cmd[p].gone
        BY <1>1, <2>1, <2>4 DEF Forget
      <3> QED BY <1>1, <3>1 DEF InstallInv, Sound, Knows, OwnsOllama
    <2> QED BY <2>2, <2>3, <2>4
  <1> QED BY <1>1, InstallInvariance, PTL DEF Spec, OllamaClaimKept

(* provision.py:84: what init calls ready Ollama holds.                    *)
THEOREM ReadyHolds ==
    ASSUME ~UserRepulls
    PROVE  Spec => []ReadyIsTrue
  <1>1. InstallInv => ReadyIsTrue
    BY DEF InstallInv, Sound, Knows, ReadyIsTrue
  <1> QED BY <1>1, InstallInvariance, PTL

(* cli/main.py:203: a fallback to the base model stays in the pointer.     *)
THEOREM FallbackStaysLocal ==
    ASSUME ~UserRepulls
    PROVE  Spec => []FallbackIsNotIntent
  <1>1. InstallInv => FallbackIsNotIntent
    BY Distinct DEF InstallInv, FileTypes, FallbackIsNotIntent, Configured, Item, Model
  <1> QED BY <1>1, InstallInvariance, PTL
=============================================================================
