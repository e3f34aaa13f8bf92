---------------------------- MODULE WorkersProofs ----------------------------
(***************************************************************************)
(* For any workers, units, versions, runs and failing writes: a variant    *)
(* swapped into a source is taken back unless the write that restores it   *)
(* fails; objects hold what their keys say; without the sanitizers no      *)
(* build reads a source another one is writing; and one worker at a time   *)
(* accepts nothing that breaks the project's tests.                        *)
(*                                                                         *)
(* The invariant: a unit has one owner, whose position says which version  *)
(* its source holds; a lone worker finds everything else clean.            *)
(***************************************************************************)
EXTENDS Workers, FiniteSetTheorems, TLAPS

HoldsVariant == {"test", "passed", "failed", "after", "faster", "slower"}
SwappedAt == HoldsVariant \cup {"raised"}
OracleAt == {"baseline", "swap", "before"} \cup SwappedAt
VariantAt == {"build", "apply"} \cup OracleAt

ArchiveJob == [at : {"archive", "object"}, unit : Unit, others : SUBSET Unit,
               obj : Unit \cup {None}, key : Bytes \cup {None}]
VariantJob == [at : VariantAt, harness : BOOLEAN, unit : Unit, from : Version,
               builds : [Kind -> Stage]]

JobTypes == job \in [Worker -> {Idle} \cup ArchiveJob \cup VariantJob]

DataTypes ==
    /\ mode \in Modes
    /\ tree \in [Unit -> Bytes]
    /\ objs \in [Source -> Bytes \union {None}]
    /\ ccsrc \in [Program -> {"none", "part", "whole"}]
    /\ exes \subseteq Program \X BOOLEAN
    /\ baseline \in [Program -> BOOLEAN \union {None}]
    /\ taken \subseteq Unit /\ accepted \subseteq Program /\ applied \subseteq accepted
    /\ unrestored \subseteq Unit /\ cut \subseteq Program
    /\ runs \in 1 .. MaxRuns /\ killed \in BOOLEAN /\ fails \in 0 .. MaxFails

Busy(w) == job[w].at # "idle"

Owners ==
    /\ \A w \in Worker : Busy(w) => job[w].unit \in taken
    /\ \A w, x \in Worker : Busy(w) /\ Busy(x) /\ job[w].unit = job[x].unit => w = x

(* --jobs 1 is one worker at a time.                                       *)
Lone == mode.jobs = 1 => \A w, x \in Worker : Busy(w) /\ Busy(x) => w = x

(* What a worker's position says about the command line and its source.    *)
(* Where the swap failed it says nothing of the source.                    *)
Positioned(w) ==
    /\ job[w].at \in OracleAt => mode.tests
    /\ job[w].at = "apply" => mode.apply /\ <<job[w].unit, Variant(w)>> \in accepted
    /\ job[w].at \in VariantAt =>
         /\ Variant(w) \in Version
         /\ job[w].at \in HoldsVariant => tree[job[w].unit] = Variant(w)
         /\ job[w].at \notin SwappedAt => TextOf(tree[job[w].unit]) = job[w].from
Positions == \A w \in Worker : Positioned(w)

(* A run that was not killed starts from, and goes back to, clean sources. *)
CleanVersion(u, b) == u \in unrestored \/ TextOf(b) = 0 \/ <<u, b>> \in applied
CleanAt(u) == Swapped(u) \/ CleanVersion(u, tree[u])
CleanStart(w) == job[w].at \in VariantAt => CleanVersion(job[w].unit, job[w].from)
Clean == ~killed => /\ \A w \in Worker : CleanStart(w)
                    /\ \A u \in Unit : CleanAt(u)

(* The second reading of a source finds what the first one found.          *)
Steady == mode.jobs = 1 \/ ~(mode.tests \/ mode.apply)
ReadsAlike(w) == job[w].at = "object" => job[w].obj \in Unit /\ job[w].key = tree[job[w].obj]
ReadTwice ==
    /\ \A w \in Worker : job[w].at = "object" => job[w].obj \in Unit /\ job[w].key \in Bytes
    /\ Steady => \A w \in Worker : ReadsAlike(w)

(* Without the sanitizers a source that is written in part is so because   *)
(* its write was cut short, or is being written by the one build of it     *)
(* that runs; that build does not compile it before it is whole.           *)
Plain(w) == job[w].at = "build" => job[w].builds["san"] = "done"
Whole(w) == \A k \in Kind : At(w, k, "compile") => Compiles(w, k) \/ Prog(w, k) \in cut
Writer(p) == \E x \in Worker, l \in Kind : At(x, l, "write") /\ Prog(x, l) = p
PartOf(p) == ccsrc[p] = "part" => p \in cut \/ Writer(p)
WholeSources == ~mode.san => /\ \A w \in Worker : Plain(w) /\ Whole(w)
                             /\ \A p \in Program : PartOf(p)

(* One worker, no kill: the tests always pass on the original, and never   *)
(* on a breaking variant.                                                  *)
Sequential == mode.tests /\ mode.jobs = 1 /\ ~killed /\ unrestored = {}
Told(w) == job[w].at \in {"passed", "before", "after", "faster"} => job[w].unit \notin Breaking
BaselinesPass == Sequential => \A p \in Program : baseline[p] # FALSE
TestsTell == BaselinesPass /\ (Sequential => \A w \in Worker : Told(w))

WorkersInv == /\ JobTypes /\ DataTypes /\ Owners /\ Lone /\ Positions /\ Clean
              /\ ReadTwice /\ ObjectMatchesKey /\ WholeSources
              /\ TestsTell /\ AcceptedPassedTests

-----------------------------------------------------------------------------
(* What a step does to the jobs.                                           *)

OthersStay(w) == \A x \in Worker : x # w => job'[x] = job[x]

(* The worker goes on with the unit it has, or is done with it.            *)
GoesOn(w) ==
    /\ Busy(w) /\ taken' = taken
    /\ job'[w].at # "idle" => job'[w].unit = job[w].unit

(* A worker's position says which record it holds (Take, Propose, End).    *)
LEMMA Shape ==
    ASSUME JobTypes, NEW w \in Worker
    PROVE  /\ job[w].at \in {"idle", "archive", "object"} \cup VariantAt
           /\ job[w].at = "idle" <=> job[w] = Idle
           /\ job[w].at \in {"archive", "object"} <=> job[w] \in ArchiveJob
           /\ job[w].at \in VariantAt <=> job[w] \in VariantJob
  <1>1. job[w] \in {Idle} \cup ArchiveJob \cup VariantJob
    BY DEF JobTypes
  <1>2. CASE job[w] = Idle
    BY <1>2 DEF Idle, ArchiveJob, VariantJob, VariantAt, OracleAt, SwappedAt, HoldsVariant
  <1>3. CASE job[w] \in ArchiveJob
    BY <1>3 DEF Idle, ArchiveJob, VariantJob, VariantAt, OracleAt, SwappedAt, HoldsVariant
  <1>4. CASE job[w] \in VariantJob
    BY <1>4 DEF Idle, ArchiveJob, VariantJob, VariantAt, OracleAt, SwappedAt, HoldsVariant
  <1> QED BY <1>1, <1>2, <1>3, <1>4

(* A new job for one worker leaves the others theirs.                      *)
LEMMA NewJob ==
    ASSUME JobTypes, NEW w \in Worker, NEW j \in {Idle} \cup ArchiveJob \cup VariantJob,
           job' = [job EXCEPT ![w] = j]
    PROVE  JobTypes' /\ OthersStay(w) /\ job'[w] = j
  BY DEF JobTypes, OthersStay

(* End: the worker is free for the next unit.                              *)
LEMMA Ending ==
    ASSUME JobTypes, NEW w \in Worker, End(w)
    PROVE  JobTypes' /\ OthersStay(w) /\ job'[w] = Idle /\ job'[w].at = "idle"
  <1>1. Idle.at = "idle"
    BY DEF Idle
  <1>2. job' = [job EXCEPT ![w] = Idle]
    BY DEF End
  <1> QED BY <1>1, <1>2, NewJob

(* Step: only the position of a job on a variant changes.                  *)
LEMMA Stepping ==
    ASSUME JobTypes, NEW w \in Worker, job[w].at \in VariantAt,
           NEW at \in VariantAt, Step(w, at)
    PROVE  /\ JobTypes' /\ OthersStay(w)
           /\ job'[w] \in VariantJob /\ job'[w].at = at
           /\ job'[w].unit = job[w].unit /\ job'[w].from = job[w].from
           /\ job'[w].harness = job[w].harness
  <1> DEFINE j == [job[w] EXCEPT !.at = at]
  <1>1. job[w] \in VariantJob
    BY Shape
  <1>2. /\ j \in VariantJob /\ j.at = at /\ j.unit = job[w].unit /\ j.from = job[w].from
        /\ j.harness = job[w].harness
    BY <1>1 DEF VariantJob
  <1>3. job' = [job EXCEPT ![w] = j]
    BY DEF Step
  <1> HIDE DEF j
  <1> QED BY <1>2, <1>3, NewJob

(* Accept: with --apply the worker goes on to the write, otherwise it ends.*)
LEMMA Accepting ==
    ASSUME JobTypes, NEW w \in Worker, job[w].at \in VariantAt, Accept(w)
    PROVE  /\ JobTypes' /\ OthersStay(w)
           /\ accepted' = accepted \union {<<job[w].unit, Variant(w)>>}
           /\ \/ job'[w].at = "idle"
              \/ /\ mode.apply /\ job'[w].at = "apply" /\ job'[w].unit = job[w].unit
                 /\ job'[w].from = job[w].from
  <1>1. CASE mode.apply
    <2>1. Step(w, "apply") /\ "apply" \in VariantAt
      BY <1>1 DEF Accept, VariantAt
    <2> QED BY <1>1, <2>1, Stepping DEF Accept
  <1>2. CASE ~mode.apply
    BY <1>2, Ending DEF Accept
  <1> QED BY <1>1, <1>2

-----------------------------------------------------------------------------
(* What a step leaves alone.                                               *)

(* Every step of a worker but Take: at most its own source changes.        *)
OwnStep(w) ==
    /\ GoesOn(w) /\ OthersStay(w) /\ JobTypes'
    /\ mode' = mode /\ killed' = killed
    /\ accepted \subseteq accepted' /\ applied \subseteq applied'
    /\ unrestored \subseteq unrestored'
    /\ \A u \in Unit : u # job[w].unit => tree'[u] = tree[u]
    /\ mode.tests \/ mode.apply \/ tree' = tree

(* No other worker has this worker's unit, and alone it has no other at all.*)
LEMMA NobodyElse ==
    ASSUME JobTypes, Owners, Lone, NEW w \in Worker, Busy(w), NEW x \in Worker, x # w, Busy(x)
    PROVE  job[x].unit # job[w].unit /\ mode.jobs # 1
  BY DEF Owners, Lone

(* A worker with a job has a unit.                                         *)
LEMMA HasUnit ==
    ASSUME JobTypes, NEW w \in Worker, Busy(w)
    PROVE  job[w].unit \in Unit
  BY Shape DEF Busy, ArchiveJob, VariantJob

(* Ownership survives, since nobody takes a unit.                          *)
LEMMA OwnersKept ==
    ASSUME JobTypes, Owners, Lone, NEW w \in Worker, OwnStep(w)
    PROVE  Owners' /\ Lone'
  <1>1. \A x \in Worker : Busy(x)' => Busy(x) /\ job'[x].unit = job[x].unit
    BY DEF OwnStep, GoesOn, OthersStay, Busy
  <1>2. taken' = taken /\ mode' = mode
    BY DEF OwnStep, GoesOn
  <1>3. Owners'
    BY <1>1, <1>2 DEF Owners
  <1>4. Lone'
    BY <1>1, <1>2 DEF Lone
  <1> QED BY <1>3, <1>4

(* Another worker's position still describes its own source.               *)
LEMMA OthersPositioned ==
    ASSUME WorkersInv, NEW w \in Worker, OwnStep(w), NEW x \in Worker, x # w
    PROVE  Positioned(x)' /\ (~killed => CleanStart(x)') /\ (Sequential => Told(x)')
  <1>1. /\ job'[x] = job[x] /\ mode' = mode /\ accepted \subseteq accepted'
        /\ applied \subseteq applied' /\ unrestored \subseteq unrestored'
    BY DEF OwnStep, OthersStay
  <1>2. Variant(x)' = Variant(x)
    BY <1>1 DEF Variant
  <1>3. Positioned(x) /\ (~killed => CleanStart(x)) /\ (Sequential => Told(x))
    BY DEF WorkersInv, Positions, Clean, TestsTell
  <1>4. job[x].at \in VariantAt => tree'[job[x].unit] = tree[job[x].unit]
    <2> HAVE job[x].at \in VariantAt
    <2>1. Busy(x) /\ Busy(w) /\ JobTypes /\ Owners /\ Lone
      BY DEF Busy, VariantAt, OracleAt, SwappedAt, HoldsVariant, OwnStep, GoesOn, WorkersInv
    <2>2. job[x].unit \in Unit /\ job[x].unit # job[w].unit
      BY <2>1, HasUnit, NobodyElse
    <2> QED BY <2>2 DEF OwnStep
  <1>5. Positioned(x)'
    BY <1>1, <1>2, <1>3, <1>4 DEF Positioned
  <1>6. ~killed => CleanStart(x)'
    BY <1>1, <1>3 DEF CleanStart, CleanVersion
  <1>7. Sequential => Told(x)'
    BY <1>1, <1>3 DEF Told
  <1> QED BY <1>5, <1>6, <1>7

(* A source of another unit stays tested, or clean.                        *)
LEMMA OthersClean ==
    ASSUME WorkersInv, ~killed, NEW w \in Worker, OwnStep(w), NEW u \in Unit, u # job[w].unit
    PROVE  CleanAt(u)'
  <1>1. /\ CleanAt(u) /\ tree'[u] = tree[u] /\ applied \subseteq applied'
        /\ unrestored \subseteq unrestored'
    BY DEF WorkersInv, Clean, OwnStep
  <1>2. Swapped(u) => Swapped(u)'
    BY DEF Swapped, OwnStep, OthersStay
  <1> QED BY <1>1, <1>2 DEF CleanAt, CleanVersion

(* What another worker is compiling an object of has not changed.          *)
LEMMA OthersReadAlike ==
    ASSUME WorkersInv, NEW w \in Worker, OwnStep(w), NEW x \in Worker, x # w
    PROVE  /\ job'[x].at = "object" => job'[x].obj \in Unit /\ job'[x].key \in Bytes
           /\ Steady => ReadsAlike(x)'
  <1>1. /\ job'[x] = job[x] /\ (mode.tests \/ mode.apply \/ tree' = tree)
        /\ Busy(w) /\ JobTypes /\ Owners /\ Lone
        /\ job[x].at = "object" => job[x].obj \in Unit /\ job[x].key \in Bytes
        /\ Steady => ReadsAlike(x)
    BY DEF OwnStep, OthersStay, GoesOn, WorkersInv, ReadTwice
  <1>2. Steady /\ job[x].at = "object" => tree' = tree
    BY <1>1, NobodyElse DEF Steady, Busy
  <1> QED BY <1>1, <1>2 DEF ReadsAlike

(* So a step keeps the invariant if it does for its own worker and unit    *)
(* and for the caches it writes.                                           *)
LEMMA Framed ==
    ASSUME WorkersInv, NEW w \in Worker, OwnStep(w), DataTypes',
           Positioned(w)', ~killed => CleanStart(w)',
           ~killed => \A u \in Unit : u = job[w].unit => CleanAt(u)',
           job'[w].at = "object" => job'[w].obj \in Unit /\ job'[w].key \in Bytes,
           Steady => ReadsAlike(w)',
           Sequential => Told(w)', BaselinesPass', AcceptedPassedTests',
           ObjectMatchesKey', WholeSources'
    PROVE  WorkersInv'
  <1>1. JobTypes' /\ Owners' /\ Lone'
    BY OwnersKept DEF WorkersInv, OwnStep
  <1>2. mode' = mode /\ killed' = killed /\ (Sequential' => Sequential)
    BY DEF OwnStep, Sequential
  <1>3. Positions'
    BY OthersPositioned DEF Positions
  <1>4. Clean'
    BY <1>2, OthersPositioned, OthersClean DEF Clean
  <1>5. ReadTwice'
    BY <1>2, OthersReadAlike DEF ReadTwice, Steady
  <1>6. TestsTell'
    BY <1>2, OthersPositioned DEF TestsTell
  <1> QED BY <1>1, <1>3, <1>4, <1>5, <1>6 DEF WorkersInv

(* A source nobody else can be testing.                                    *)
LEMMA OwnUnit ==
    ASSUME WorkersInv, NEW w \in Worker, Busy(w), job[w].at \notin SwappedAt
    PROVE  /\ job[w].unit \in Unit
           /\ ~Swapped(job[w].unit)
           /\ ~killed => CleanVersion(job[w].unit, tree[job[w].unit])
  <1>1. JobTypes /\ Owners /\ Lone /\ (~killed => \A u \in Unit : CleanAt(u))
    BY DEF WorkersInv, Clean
  <1>2. job[w].unit \in Unit
    BY <1>1, HasUnit
  <1>3. ~Swapped(job[w].unit)
    <2> SUFFICES ASSUME NEW x \in Worker, job[x].at \in SwappedAt, job[x].unit = job[w].unit
                 PROVE  FALSE
      BY DEF Swapped, SwappedAt, HoldsVariant
    <2>1. Busy(x)
      BY DEF Busy, SwappedAt, HoldsVariant
    <2> QED BY <1>1, <2>1, NobodyElse
  <1> QED BY <1>1, <1>2, <1>3 DEF CleanAt

(* Nothing but this worker's job and the caches changes.                   *)
Settled(w) ==
    /\ GoesOn(w) /\ OthersStay(w) /\ JobTypes'
    /\ UNCHANGED <<mode, killed, tree, applied, unrestored>> /\ accepted \subseteq accepted'

(* Then its source is as tested, or as clean, as it was.                   *)
LEMMA SettledStep ==
    ASSUME WorkersInv, NEW w \in Worker, Settled(w), DataTypes', Positioned(w)',
           job[w].at \in SwappedAt => job'[w].at \in SwappedAt,
           ~killed => CleanStart(w)',
           job'[w].at = "object" => job'[w].obj \in Unit /\ job'[w].key \in Bytes,
           Steady => ReadsAlike(w)',
           Sequential => Told(w)', BaselinesPass', AcceptedPassedTests',
           ObjectMatchesKey', WholeSources'
    PROVE  WorkersInv'
  <1>1. OwnStep(w)
    BY DEF Settled, OwnStep
  <1>2. ASSUME ~killed, NEW u \in Unit, u = job[w].unit
        PROVE  CleanAt(u)'
    <2>1. Busy(w) /\ tree' = tree /\ applied' = applied /\ unrestored' = unrestored
      BY DEF Settled, GoesOn
    <2>2. CASE job[w].at \in SwappedAt
      <3>1. job'[w].at \in SwappedAt /\ job'[w].unit = u
        BY <1>2, <2>2 DEF Settled, GoesOn, SwappedAt, HoldsVariant
      <3> QED BY <3>1 DEF CleanAt, Swapped, SwappedAt, HoldsVariant
    <2>3. CASE job[w].at \notin SwappedAt
      <3>1. CleanVersion(u, tree[u])
        BY <1>2, <2>1, <2>3, OwnUnit
      <3> QED BY <2>1, <3>1 DEF CleanAt, CleanVersion
    <2> QED BY <2>2, <2>3
  <1> QED BY <1>1, <1>2, Framed

(* Where a step accepts nothing, what was accepted still passed.           *)
LEMMA NothingAccepted ==
    ASSUME AcceptedPassedTests, UNCHANGED <<mode, killed, accepted>>,
           unrestored \subseteq unrestored'
    PROVE  AcceptedPassedTests'
  BY DEF AcceptedPassedTests

(* Where a step stores no object, they still are what their keys say.      *)
LEMMA ObjectsKept ==
    ASSUME ObjectMatchesKey, UNCHANGED <<mode, objs>>
    PROVE  ObjectMatchesKey'
  BY DEF ObjectMatchesKey

(* A worker that does not write a shared source, and one that has not yet  *)
(* come to compile one.                                                    *)
NotWriting(w) == job[w].at = "build" => \A k \in Kind : job[w].builds[k] # "write"
Fresh(w) == job[w].at = "build" => /\ \A k \in Kind : job[w].builds[k] # "compile"
                                   /\ mode.san \/ job[w].builds["san"] = "done"

(* Where a worker neither was writing a shared source nor turns to compile *)
(* one, the shared sources are as whole as they were.                      *)
LEMMA SourcesKept ==
    ASSUME WholeSources, NEW w \in Worker, OthersStay(w), UNCHANGED <<mode, ccsrc, cut>>,
           NotWriting(w), job'[w].at # "build" \/ Fresh(w)'
    PROVE  WholeSources'
  <1> SUFFICES ASSUME ~mode.san
               PROVE  /\ \A x \in Worker : Plain(x)' /\ Whole(x)'
                      /\ \A p \in Program : PartOf(p)'
    BY DEF WholeSources
  <1>1. \A x \in Worker : x # w => /\ job'[x] = job[x]
                                   /\ \A k \in Kind : Prog(x, k)' = Prog(x, k)
    BY DEF OthersStay, Prog
  <1>2. Fresh(w)'
    BY DEF Fresh
  <1>3. \A x \in Worker : Plain(x)'
    BY <1>1, <1>2 DEF WholeSources, Plain, Fresh
  <1>4. Whole(w)'
    BY <1>2 DEF Whole, At, Fresh
  <1>5. ASSUME NEW x \in Worker, x # w PROVE Whole(x)'
    BY <1>1, <1>5 DEF WholeSources, Whole, At, Compiles
  <1>6. ASSUME NEW p \in Program PROVE PartOf(p)'
    <2> SUFFICES ASSUME ccsrc'[p] = "part", p \notin cut PROVE Writer(p)'
      BY DEF PartOf
    <2>1. PICK x \in Worker, l \in Kind : At(x, l, "write") /\ Prog(x, l) = p
      BY DEF WholeSources, PartOf, Writer
    <2>2. x # w
      BY <2>1 DEF NotWriting, At
    <2>3. At(x, l, "write")' /\ Prog(x, l)' = p
      BY <1>1, <2>1, <2>2 DEF At
    <2> QED BY <2>3 DEF Writer
  <1> QED BY <1>3, <1>4, <1>5, <1>6

(* Where no baseline is taken, the baselines still pass.                   *)
LEMMA BaselinesKept ==
    ASSUME BaselinesPass, UNCHANGED <<mode, killed, baseline>>, unrestored \subseteq unrestored'
    PROVE  BaselinesPass'
  BY DEF BaselinesPass, Sequential

-----------------------------------------------------------------------------
(* One lemma for each action of a worker.                                  *)

(* Take: a free worker, a unit nobody has; with --jobs 1, nobody is busy.  *)
LEMMA TakeKeeps ==
    ASSUME WorkersAssumption, WorkersInv, NEW w \in Worker, NEW u \in Unit, Take(w, u)
    PROVE  WorkersInv'
  <1> DEFINE j == [at |-> "archive", unit |-> u, others |-> Unit \ {u}, obj |-> None, key |-> None]
  <1>1. j \in ArchiveJob /\ j.at = "archive" /\ j.unit = u
    BY DEF ArchiveJob
  <1>2. job' = [job EXCEPT ![w] = j]
    BY DEF Take
  <1>3. /\ UNCHANGED <<mode, tree, objs, ccsrc, exes, baseline, applied, accepted, unrestored, cut, runs, killed, fails>>
        /\ taken' = taken \union {u} /\ u \notin taken /\ job[w] = Idle
        /\ Cardinality({x \in Worker : job[x] # Idle}) < mode.jobs
    BY DEF Take, caches, counts
  <1>4. JobTypes /\ DataTypes /\ Owners /\ mode \in Modes
    BY DEF WorkersInv, DataTypes
  <1> HIDE DEF j
  <1>5. JobTypes' /\ OthersStay(w) /\ job'[w] = j
    BY <1>1, <1>2, <1>4, NewJob
  <1>6. ~Busy(w)
    BY <1>3 DEF Busy, Idle
  <1>7. DataTypes'
    BY <1>3, <1>4 DEF DataTypes
  <1>8. Owners'
    <2>1. \A x \in Worker : x # w /\ Busy(x)' => Busy(x) /\ job'[x].unit = job[x].unit
      BY <1>5 DEF Busy, OthersStay
    <2>2. job'[w].unit = u
      BY <1>1, <1>5
    <2>3. \A x \in Worker : Busy(x) => job[x].unit \in taken /\ job[x].unit # u
      BY <1>3, <1>4 DEF Owners
    <2>4. \A x \in Worker : Busy(x)' => job'[x].unit \in taken'
      BY <1>3, <2>1, <2>2, <2>3
    <2>5. ASSUME NEW x \in Worker, NEW y \in Worker, Busy(x)', Busy(y)', job'[x].unit = job'[y].unit
          PROVE  x = y
      BY <1>4, <2>1, <2>2, <2>3, <2>5 DEF Owners
    <2> QED BY <2>4, <2>5 DEF Owners
  <1>9. Lone'
    <2> SUFFICES ASSUME mode.jobs = 1 PROVE Lone'
      BY <1>3 DEF Lone
    <2> DEFINE B == {x \in Worker : job[x] # Idle}
    <2>1. IsFiniteSet(B)
      BY FS_Subset DEF WorkersAssumption
    <2>2. Cardinality(B) \in Nat /\ Cardinality(B) < 1
      <3>1. Cardinality(B) \in Nat
        BY <2>1, FS_CardinalityType
      <3> QED BY <1>3, <3>1
    <2>3. Cardinality(B) = 0
      BY <2>2
    <2>4. B = {}
      BY <2>1, <2>3, FS_EmptySet
    <2>5. \A x \in Worker : x # w => ~Busy(x)'
      BY <1>4, <1>5, <2>4, Shape DEF OthersStay, Busy
    <2> QED BY <2>5 DEF Lone
  <1>10. \A x \in Worker : x # w => Variant(x)' = Variant(x)
    BY <1>5 DEF OthersStay, Variant
  <1>11. job'[w].at = "archive"
    BY <1>1, <1>5
  <1>12. Positions'
    <2>1. Positioned(w)'
      BY <1>11 DEF Positioned, VariantAt, OracleAt, SwappedAt, HoldsVariant
    <2>2. ASSUME NEW x \in Worker, x # w PROVE Positioned(x)'
      BY <1>3, <1>5, <1>10, <2>2 DEF WorkersInv, Positions, Positioned, OthersStay
    <2> QED BY <2>1, <2>2 DEF Positions
  <1>13. Clean'
    <2>1. ~killed => CleanStart(w)'
      BY <1>11 DEF CleanStart, VariantAt, OracleAt, SwappedAt, HoldsVariant
    <2>2. ~killed => \A x \in Worker : x # w => CleanStart(x)'
      BY <1>3, <1>5 DEF WorkersInv, Clean, CleanStart, CleanVersion, OthersStay
    <2>3. \A v \in Unit : Swapped(v) => Swapped(v)'
      BY <1>5, <1>6 DEF Swapped, OthersStay, Busy
    <2>4. ~killed => \A v \in Unit : CleanAt(v)'
      BY <1>3, <2>3 DEF WorkersInv, Clean, CleanAt, CleanVersion
    <2> QED BY <1>3, <2>1, <2>2, <2>4 DEF Clean
  <1>14. ReadTwice'
    BY <1>3, <1>5, <1>11 DEF WorkersInv, ReadTwice, ReadsAlike, Steady, OthersStay
  <1>15. TestsTell'
    <2>1. BaselinesPass' /\ Told(w)'
      BY <1>3, <1>11, BaselinesKept DEF WorkersInv, TestsTell, Told
    <2>2. Sequential => \A x \in Worker : x # w => Told(x)'
      BY <1>5 DEF WorkersInv, TestsTell, Told, OthersStay
    <2> QED BY <1>3, <2>1, <2>2 DEF TestsTell, Sequential
  <1>16. AcceptedPassedTests' /\ ObjectMatchesKey'
    BY <1>3, NothingAccepted, ObjectsKept DEF WorkersInv
  <1>17. NotWriting(w) /\ job'[w].at # "build"
    BY <1>3, <1>11 DEF Idle, NotWriting
  <1>18. WholeSources'
    BY <1>3, <1>5, <1>17, SourcesKept DEF WorkersInv
  <1> QED BY <1>5, <1>7, <1>8, <1>9, <1>12, <1>13, <1>14, <1>15, <1>16, <1>18 DEF WorkersInv

(* ReadSource: an object under the key is used, or the key is kept.        *)
LEMMA ReadSourceKeeps ==
    ASSUME WorkersInv, NEW w \in Worker, ReadSource(w)
    PROVE  WorkersInv'
  <1>1. /\ UNCHANGED <<mode, tree, objs, ccsrc, exes, baseline, taken, applied, accepted, unrestored, cut, runs, killed, fails>>
        /\ job[w].at = "archive"
    BY DEF ReadSource, caches, history, counts
  <1>2. PICK v \in job[w].others :
           job' = IF objs[<<v, tree[v]>>] # None THEN [job EXCEPT ![w].others = @ \ {v}]
                  ELSE [job EXCEPT ![w].at = "object", ![w].obj = v, ![w].key = tree[v]]
    BY DEF ReadSource
  <1>3. JobTypes /\ DataTypes /\ tree \in [Unit -> Bytes]
    BY DEF WorkersInv, DataTypes
  <1>4. job[w] \in ArchiveJob
    BY <1>1, <1>3, Shape
  <1>5. v \in Unit /\ tree[v] \in Bytes
    BY <1>3, <1>4 DEF ArchiveJob
  <1>6. PICK j \in ArchiveJob :
           /\ job' = [job EXCEPT ![w] = j]
           /\ j.unit = job[w].unit
           /\ j.at = "object" => j.obj = v /\ j.key = tree[v]
    <2>1. CASE objs[<<v, tree[v]>>] # None
      <3> DEFINE j == [job[w] EXCEPT !.others = @ \ {v}]
      <3>1. j \in ArchiveJob /\ j.unit = job[w].unit /\ j.at = "archive"
        BY <1>1, <1>4 DEF ArchiveJob
      <3>2. job' = [job EXCEPT ![w] = j]
        BY <1>2, <2>1
      <3> HIDE DEF j
      <3> QED BY <3>1, <3>2
    <2>2. CASE ~(objs[<<v, tree[v]>>] # None)
      <3> DEFINE j == [job[w] EXCEPT !.at = "object", !.obj = v, !.key = tree[v]]
      <3>1. j \in ArchiveJob /\ j.unit = job[w].unit /\ j.obj = v /\ j.key = tree[v]
        BY <1>4, <1>5 DEF ArchiveJob
      <3>2. job' = [job EXCEPT ![w] = j]
        BY <1>2, <2>2
      <3> HIDE DEF j
      <3> QED BY <3>1, <3>2
    <2> QED BY <2>1, <2>2
  <1>7. JobTypes' /\ OthersStay(w) /\ job'[w] = j
    BY <1>3, <1>6, NewJob
  <1>8. job'[w].at \in {"idle", "archive", "object"}
    BY <1>6, <1>7 DEF ArchiveJob
  <1>9. Positioned(w)' /\ CleanStart(w)' /\ Told(w)' /\ job[w].at \notin SwappedAt
    BY <1>1, <1>8 DEF Positioned, CleanStart, Told, VariantAt, OracleAt, SwappedAt, HoldsVariant
  <1>10. Settled(w)
    BY <1>1, <1>6, <1>7 DEF Settled, GoesOn, Busy
  <1>11. DataTypes'
    BY <1>1, <1>3 DEF DataTypes
  <1>12. /\ job'[w].at = "object" => job'[w].obj \in Unit /\ job'[w].key \in Bytes
         /\ ReadsAlike(w)'
    BY <1>1, <1>5, <1>6, <1>7 DEF ReadsAlike
  <1>13. BaselinesPass' /\ AcceptedPassedTests' /\ ObjectMatchesKey'
    BY <1>1, BaselinesKept, NothingAccepted, ObjectsKept DEF WorkersInv, TestsTell
  <1>14. NotWriting(w) /\ job'[w].at # "build"
    BY <1>1, <1>8 DEF NotWriting
  <1>15. WholeSources'
    BY <1>1, <1>7, <1>14, SourcesKept DEF WorkersInv
  <1> QED BY <1>9, <1>10, <1>11, <1>12, <1>13, <1>15, SettledStep

(* CompileObject: under Steady, what is stored is what was read.           *)
LEMMA CompileObjectKeeps ==
    ASSUME WorkersInv, NEW w \in Worker, CompileObject(w)
    PROVE  WorkersInv'
  <1> DEFINE v == job[w].obj
             key == job[w].key
             j == [job[w] EXCEPT !.at = "archive", !.others = @ \ {v}]
  <1>1. /\ UNCHANGED <<mode, tree, ccsrc, exes, baseline, taken, applied, accepted, unrestored, cut, runs, killed, fails>>
        /\ job[w].at = "object"
    BY DEF CompileObject, history, counts
  <1>2. /\ \/ objs' = [objs EXCEPT ![<<v, key>>] = tree[v]]
           \/ objs' = objs
        /\ job' = [job EXCEPT ![w] = j]
    BY DEF CompileObject
  <1>3. JobTypes /\ DataTypes /\ tree \in [Unit -> Bytes]
        /\ objs \in [Source -> Bytes \union {None}]
    BY DEF WorkersInv, DataTypes
  <1>4. /\ v \in Unit /\ key \in Bytes
        /\ Steady => key = tree[v]
    BY <1>1 DEF WorkersInv, ReadTwice, ReadsAlike
  <1>5. job[w] \in ArchiveJob
    BY <1>1, <1>3, Shape
  <1>6. j \in ArchiveJob /\ j.at = "archive" /\ j.unit = job[w].unit
    BY <1>5 DEF ArchiveJob
  <1> HIDE DEF j
  <1>7. JobTypes' /\ OthersStay(w) /\ job'[w] = j
    BY <1>2, <1>3, <1>6, NewJob
  <1>8. Positioned(w)' /\ CleanStart(w)' /\ Told(w)' /\ job[w].at \notin SwappedAt
    BY <1>1, <1>6, <1>7 DEF Positioned, CleanStart, Told, VariantAt, OracleAt, SwappedAt, HoldsVariant
  <1>9. Settled(w)
    BY <1>1, <1>6, <1>7 DEF Settled, GoesOn, Busy
  <1>10. <<v, key>> \in Source /\ tree[v] \in Bytes
    BY <1>3, <1>4 DEF Source
  <1> HIDE DEF v, key
  <1>11. /\ objs' \in [Source -> Bytes \union {None}]
         /\ \A p \in Source : objs'[p] = objs[p] \/ (p = <<v, key>> /\ objs'[p] = tree[v])
    BY <1>2, <1>3, <1>10
  <1>12. DataTypes'
    BY <1>1, <1>3, <1>11 DEF DataTypes
  <1>13. ObjectMatchesKey'
    <2> SUFFICES ASSUME Steady, NEW p \in Source PROVE objs'[p] \in {None, p[2]}
      BY <1>1 DEF ObjectMatchesKey, Steady
    <2>1. objs[p] \in {None, p[2]}
      BY DEF WorkersInv, ObjectMatchesKey, Steady
    <2> QED BY <1>4, <1>11, <2>1
  <1>14. job'[w].at # "object" /\ ReadsAlike(w)'
    BY <1>6, <1>7 DEF ReadsAlike
  <1>15. BaselinesPass' /\ AcceptedPassedTests'
    BY <1>1, BaselinesKept, NothingAccepted DEF WorkersInv, TestsTell
  <1>16. WholeSources'
    <2>1. NotWriting(w) /\ job'[w].at # "build"
      BY <1>1, <1>6, <1>7 DEF NotWriting
    <2> QED BY <1>1, <1>7, <2>1, SourcesKept DEF WorkersInv
  <1> QED BY <1>8, <1>9, <1>12, <1>13, <1>14, <1>15, <1>16, SettledStep

(* A worker done with its unit says nothing any more.                      *)
LEMMA Done ==
    ASSUME NEW w \in Worker, job'[w].at = "idle"
    PROVE  /\ Positioned(w)' /\ CleanStart(w)' /\ Told(w)' /\ ReadsAlike(w)'
           /\ job'[w].at # "object"
  BY DEF Positioned, CleanStart, Told, ReadsAlike, VariantAt, OracleAt, SwappedAt, HoldsVariant

(* Reading a file that is not torn gives a version, which read again gives *)
(* the same.                                                               *)
LEMMA TextIsVersion ==
    ASSUME WorkersAssumption, NEW b \in Bytes, b # Torn
    PROVE  TextOf(b) \in Version /\ TextOf(TextOf(b)) = TextOf(b)
  <1>1. 0 \in Version /\ Crlf \notin Version
    BY DEF WorkersAssumption, Version
  <1>2. b \in Version \/ b = Crlf
    BY DEF Bytes
  <1> QED BY <1>1, <1>2 DEF TextOf

(* Propose: the version read is what the source holds, and clean.          *)
LEMMA ProposeKeeps ==
    ASSUME WorkersAssumption, WorkersInv, NEW w \in Worker, Propose(w)
    PROVE  WorkersInv'
  <1> DEFINE u == job[w].unit
             n == TextOf(tree[u])
             builds == [k \in Kind |-> IF k = "san" /\ ~mode.san THEN "done" ELSE "todo"]
  <1>1. /\ UNCHANGED <<mode, tree, objs, ccsrc, exes, baseline, taken, applied, accepted, unrestored, cut, runs, killed, fails>>
        /\ job[w].at = "archive"
    BY DEF Propose, caches, history, counts
  <1>2. JobTypes /\ DataTypes /\ tree \in [Unit -> Bytes]
    BY DEF WorkersInv, DataTypes
  <1>3. Busy(w) /\ job[w].at \notin SwappedAt
    BY <1>1 DEF Busy, SwappedAt, HoldsVariant
  <1>4. u \in Unit /\ tree[u] \in Bytes /\ (~killed => CleanVersion(u, tree[u]))
    BY <1>2, <1>3, OwnUnit
  <1>5. DataTypes' /\ BaselinesPass' /\ AcceptedPassedTests' /\ ObjectMatchesKey'
    BY <1>1, <1>2, BaselinesKept, NothingAccepted, ObjectsKept DEF WorkersInv, TestsTell, DataTypes
  <1>8. ASSUME OthersStay(w), job'[w].at # "build" \/ Fresh(w)' PROVE WholeSources'
    <2>1. NotWriting(w)
      BY <1>1 DEF NotWriting
    <2> QED BY <1>1, <1>8, <2>1, SourcesKept DEF WorkersInv
  <1>6. CASE End(w)
    <2>1. JobTypes' /\ OthersStay(w) /\ job'[w].at = "idle"
      BY <1>2, <1>6, Ending
    <2>2. Settled(w)
      BY <1>1, <1>3, <2>1 DEF Settled, GoesOn
    <2> QED BY <1>3, <1>5, <1>8, <2>1, <2>2, Done, SettledStep
  <1>7. ASSUME tree[u] # Torn, n < MaxVersion, NEW harness \in BOOLEAN, harness \/ mode.tests,
               job' = [job EXCEPT ![w] =
                      [at |-> IF harness THEN "build" ELSE "baseline", harness |-> harness,
                       unit |-> u, from |-> n, builds |-> builds]]
        PROVE  WorkersInv'
    <2> DEFINE j == [at |-> IF harness THEN "build" ELSE "baseline", harness |-> harness,
                     unit |-> u, from |-> n, builds |-> builds]
    <2>1. /\ n \in Version /\ n + 1 \in Version /\ TextOf(n) = n
          /\ ~killed => CleanVersion(u, n)
      <3>1. n \in Version /\ TextOf(n) = n
        BY <1>4, <1>7, TextIsVersion
      <3>2. n + 1 \in Version
        BY <1>7, <3>1 DEF Version, WorkersAssumption
      <3>3. tree[u] = n \/ n = 0
        BY DEF TextOf
      <3> QED BY <1>4, <3>1, <3>2, <3>3 DEF CleanVersion
    <2>2. /\ j \in VariantJob /\ j.unit = u /\ j.from = n /\ j.builds = builds
          /\ j.at = "build" \/ (j.at = "baseline" /\ mode.tests)
      <3>1. builds \in [Kind -> Stage]
        BY DEF Stage
      <3> HIDE DEF builds
      <3> QED BY <1>4, <1>7, <2>1, <3>1 DEF VariantJob, VariantAt, OracleAt
    <2>3. job' = [job EXCEPT ![w] = j]
      BY <1>7
    <2> HIDE DEF j
    <2>4. JobTypes' /\ OthersStay(w) /\ job'[w] = j
      BY <1>2, <2>2, <2>3, NewJob
    <2>5. Settled(w)
      BY <1>1, <1>3, <2>2, <2>4 DEF Settled, GoesOn
    <2>8. Fresh(w)'
      BY <1>1, <2>2, <2>4 DEF Fresh, Kind
    <2>6. Positioned(w)'
      BY <1>1, <2>1, <2>2, <2>4 DEF Positioned, Variant, VariantAt, OracleAt, SwappedAt, HoldsVariant
    <2>7. /\ ~killed => CleanStart(w)'
          /\ Told(w)' /\ ReadsAlike(w)' /\ job'[w].at # "object"
      BY <1>1, <2>1, <2>2, <2>4 DEF CleanStart, CleanVersion, Told, ReadsAlike
    <2> QED BY <1>3, <1>5, <1>8, <2>4, <2>5, <2>6, <2>7, <2>8, SettledStep
  <1> QED BY <1>6, <1>7 DEF Propose

(* A step that goes on with the variant it has.                            *)
LEMMA SameVariant ==
    ASSUME WorkersInv, NEW w \in Worker, job[w].at \in VariantAt, Settled(w),
           job'[w].at \in VariantAt, job'[w].unit = job[w].unit, job'[w].from = job[w].from,
           job'[w].at \in SwappedAt <=> job[w].at \in SwappedAt,
           job'[w].at \in HoldsVariant => job[w].at \in HoldsVariant,
           job'[w].at \in OracleAt => mode.tests,
           job'[w].at = "apply" => mode.apply /\ <<job[w].unit, Variant(w)>> \in accepted'
    PROVE  /\ Positioned(w)' /\ (~killed => CleanStart(w)') /\ ReadsAlike(w)'
           /\ job'[w].at # "object"
  <1>1. Positioned(w) /\ (~killed => CleanStart(w))
    BY DEF WorkersInv, Positions, Clean
  <1>2. /\ mode' = mode /\ tree' = tree /\ applied' = applied /\ unrestored' = unrestored
        /\ Variant(w)' = Variant(w)
    BY DEF Settled, Variant
  <1>3. Positioned(w)'
    BY <1>1, <1>2 DEF Positioned
  <1>4. ~killed => CleanStart(w)'
    BY <1>1, <1>2 DEF CleanStart, CleanVersion
  <1> QED BY <1>3, <1>4 DEF ReadsAlike, VariantAt, OracleAt, SwappedAt, HoldsVariant

(* A worker that builds has the fields of a variant, and tests nothing.    *)
LEMMA Building ==
    ASSUME WorkersInv, NEW w \in Worker, job[w].at = "build"
    PROVE  /\ JobTypes /\ DataTypes /\ job[w] \in VariantJob /\ Busy(w)
           /\ job[w].at \in VariantAt /\ job[w].at \notin SwappedAt
           /\ \A k \in Kind : Prog(w, k) \in Program /\ Prog(w, k)[1] = job[w].unit
  <1>1. JobTypes /\ DataTypes /\ job[w].at \in VariantAt
    BY DEF WorkersInv, VariantAt
  <1>2. job[w] \in VariantJob
    BY <1>1, Shape
  <1>3. job[w].from + 1 \in Version
    BY <1>1 DEF WorkersInv, Positions, Positioned, Variant
  <1>4. \A k \in Kind : Prog(w, k) \in Program /\ Prog(w, k)[1] = job[w].unit
    BY <1>2, <1>3 DEF Prog, Program, VariantJob
  <1> QED BY <1>1, <1>2, <1>4 DEF Busy, SwappedAt, HoldsVariant

(* Without the sanitizers every build has a source of its own.             *)
LEMMA OwnProgram ==
    ASSUME WorkersInv, NEW w \in Worker, NEW k \in Kind \ {"san"}, job[w].at = "build",
           NEW x \in Worker, NEW l \in Kind \ {"san"}, job[x].at = "build",
           Prog(x, l) = Prog(w, k)
    PROVE  x = w /\ l = k
  <1>1. job[x].unit = job[w].unit /\ Busy(w) /\ Busy(x)
    BY Building
  <1>2. x = w
    BY <1>1, NobodyElse DEF WorkersInv
  <1>3. job[w].from \in Version
    BY Building DEF VariantJob
  <1>4. job[w].from # job[w].from + 1
    BY <1>3 DEF Version
  <1> QED BY <1>2, <1>4 DEF Prog, Kind

(* A build that is not writing its source finds it in part only where a    *)
(* write was cut short.                                                    *)
LEMMA OwnPart ==
    ASSUME WorkersInv, ~mode.san, NEW w \in Worker, NEW k \in Kind,
           NEW s \in Stage \ {"write", "done"}, At(w, k, s), ccsrc[Prog(w, k)] = "part"
    PROVE  Prog(w, k) \in cut
  <1>1. job[w].at = "build" /\ k # "san"
    BY DEF WorkersInv, WholeSources, Plain, At
  <1>2. Prog(w, k) \in Program
    BY <1>1, Building
  <1> SUFFICES ASSUME Writer(Prog(w, k)) PROVE FALSE
    BY <1>2 DEF WorkersInv, WholeSources, PartOf
  <1>3. PICK x \in Worker, l \in Kind : At(x, l, "write") /\ Prog(x, l) = Prog(w, k)
    BY DEF Writer
  <1>4. job[x].at = "build" /\ l # "san"
    BY <1>3 DEF WorkersInv, WholeSources, Plain, At
  <1>5. x = w /\ l = k
    BY <1>1, <1>3, <1>4, OwnProgram
  <1> QED BY <1>3, <1>5 DEF At

(* Goes: one build of one worker comes to another stage.                   *)
LEMMA Going ==
    ASSUME WorkersInv, NEW w \in Worker, NEW k \in Kind, NEW s \in Stage,
           job[w].at = "build", Goes(w, k, s)
    PROVE  /\ JobTypes' /\ OthersStay(w) /\ job'[w] \in VariantJob /\ job'[w].at = "build"
           /\ job'[w].unit = job[w].unit /\ job'[w].from = job[w].from
           /\ job'[w].builds = [job[w].builds EXCEPT ![k] = s]
           /\ \A x \in Worker, l \in Kind : Prog(x, l)' = Prog(x, l)
  <1> DEFINE j == [job[w] EXCEPT !.builds = [@ EXCEPT ![k] = s]]
  <1>1. JobTypes /\ job[w] \in VariantJob
    BY Building
  <1>2. job' = [job EXCEPT ![w] = j]
    BY DEF Goes
  <1>3. /\ j \in VariantJob /\ j.at = "build" /\ j.unit = job[w].unit /\ j.from = job[w].from
        /\ j.builds = [job[w].builds EXCEPT ![k] = s]
    BY <1>1 DEF VariantJob
  <1> HIDE DEF j
  <1>4. JobTypes' /\ OthersStay(w) /\ job'[w] = j
    BY <1>1, <1>2, <1>3, NewJob
  <1>5. \A x \in Worker, l \in Kind : Prog(x, l)' = Prog(x, l)
    BY <1>3, <1>4 DEF OthersStay, Prog
  <1> QED BY <1>3, <1>4, <1>5

(* The stages of all the other builds stay.                                *)
LEMMA OtherStages ==
    ASSUME WorkersInv, NEW w \in Worker, NEW k \in Kind, NEW s \in Stage,
           job[w].at = "build", Goes(w, k, s)
    PROVE  /\ \A t : At(w, k, t)' <=> t = s
           /\ \A x \in Worker, l \in Kind : <<x, l>> # <<w, k>> =>
                \A t : At(x, l, t)' <=> At(x, l, t)
  <1>1. /\ OthersStay(w) /\ job'[w].at = "build" /\ job[w].builds \in [Kind -> Stage]
        /\ job'[w].builds = [job[w].builds EXCEPT ![k] = s]
    BY Going, Building DEF VariantJob
  <1>2. job'[w].builds[k] = s /\ \A l \in Kind : l # k => job'[w].builds[l] = job[w].builds[l]
    BY <1>1
  <1>3. \A x \in Worker : x # w => job'[x] = job[x]
    BY <1>1 DEF OthersStay
  <1> QED BY <1>1, <1>2, <1>3 DEF At

(* So the shared sources stay as whole as they were if the one this build  *)
(* is about does.                                                          *)
LEMMA SourcesBuilt ==
    ASSUME WorkersInv, NEW w \in Worker, NEW k \in Kind, NEW s \in Stage,
           job[w].at = "build", job[w].builds[k] # "done", Goes(w, k, s),
           mode' = mode, cut \subseteq cut',
           \A p \in Program : p # Prog(w, k) => ccsrc'[p] = ccsrc[p],
           ~mode.san /\ s = "compile" =>
             (mode.ccache => ccsrc'[Prog(w, k)] = "whole") \/ Prog(w, k) \in cut',
           ~mode.san /\ ccsrc'[Prog(w, k)] = "part" => Prog(w, k) \in cut' \/ s = "write"
    PROVE  WholeSources'
  <1> SUFFICES ASSUME ~mode.san
               PROVE  /\ \A x \in Worker : Plain(x)' /\ Whole(x)'
                      /\ \A p \in Program : PartOf(p)'
    BY DEF WholeSources
  <1>1. /\ \A x \in Worker, l \in Kind : Prog(x, l)' = Prog(x, l)
        /\ OthersStay(w) /\ job'[w].at = "build"
    BY Going
  <1>2. /\ \A t : At(w, k, t)' <=> t = s
        /\ \A x \in Worker, l \in Kind : <<x, l>> # <<w, k>> =>
             \A t : At(x, l, t)' <=> At(x, l, t)
    BY OtherStages
  <1>3. \A x \in Worker : Plain(x) /\ Whole(x)
    BY DEF WorkersInv, WholeSources
  <1>4. k # "san"
    BY <1>3 DEF Plain
  <1>5. ASSUME NEW x \in Worker PROVE Plain(x)'
    <2>1. "san" \in Kind /\ <<x, "san">> # <<w, k>>
      BY <1>4 DEF Kind
    <2>2. At(x, "san", "done")' <=> At(x, "san", "done")
      BY <1>2, <2>1
    <2>3. job'[x].at = "build" => job[x].at = "build"
      BY <1>1 DEF OthersStay
    <2> QED BY <1>3, <2>2, <2>3 DEF Plain, At
  <1>6. ASSUME NEW x \in Worker, NEW l \in Kind, At(x, l, "compile")'
        PROVE  (Compiles(x, l) \/ Prog(x, l) \in cut)'
    <2>1. CASE x = w /\ l = k
      BY <1>1, <1>2, <1>6, <2>1 DEF Compiles
    <2>2. CASE <<x, l>> # <<w, k>>
      <3>1. At(x, l, "compile")
        BY <1>2, <1>6, <2>2
      <3>2. Compiles(x, l) \/ Prog(x, l) \in cut
        BY <1>3, <3>1 DEF Whole
      <3>3. job[x].at = "build" /\ l # "san"
        BY <1>3, <3>1 DEF Plain, At
      <3>4. Prog(x, l) # Prog(w, k) /\ Prog(x, l) \in Program
        BY <1>4, <2>2, <3>3, OwnProgram, Building
      <3> QED BY <1>1, <3>2, <3>4 DEF Compiles
    <2> QED BY <2>1, <2>2
  <1>7. ASSUME NEW p \in Program, ccsrc'[p] = "part", p \notin cut'
        PROVE  Writer(p)'
    <2>1. CASE p = Prog(w, k)
      <3>1. At(w, k, "write")'
        BY <1>2, <1>7, <2>1
      <3> QED BY <1>1, <2>1, <3>1 DEF Writer
    <2>2. CASE p # Prog(w, k)
      <3>1. PICK x \in Worker, l \in Kind : At(x, l, "write") /\ Prog(x, l) = p
        BY <1>7, <2>2 DEF WorkersInv, WholeSources, PartOf, Writer
      <3>2. At(x, l, "write")' /\ Prog(x, l)' = p
        BY <1>1, <1>2, <2>2, <3>1
      <3> QED BY <3>2 DEF Writer
    <2> QED BY <2>1, <2>2
  <1> QED BY <1>5, <1>6, <1>7 DEF Whole, PartOf

(* The builds go on.                                                       *)
LEMMA BuildGoesOn ==
    ASSUME WorkersInv, NEW w \in Worker, NEW k \in Kind, NEW s \in Stage,
           job[w].at = "build", Goes(w, k, s),
           UNCHANGED <<mode, killed, tree, taken, applied, accepted, unrestored, baseline, objs>>,
           DataTypes', WholeSources'
    PROVE  WorkersInv'
  <1>1. JobTypes /\ Busy(w) /\ job[w].at \in VariantAt /\ job[w].at \notin SwappedAt
    BY Building
  <1>2. /\ JobTypes' /\ OthersStay(w) /\ job'[w].at = "build"
        /\ job'[w].unit = job[w].unit /\ job'[w].from = job[w].from
    BY Going
  <1>3. Settled(w)
    BY <1>1, <1>2 DEF Settled, GoesOn
  <1>4. job'[w].at \in VariantAt /\ job'[w].at \notin OracleAt \cup {"apply"}
    BY <1>2 DEF VariantAt, OracleAt, SwappedAt, HoldsVariant
  <1>5. /\ Positioned(w)' /\ (~killed => CleanStart(w)') /\ ReadsAlike(w)'
        /\ job'[w].at # "object"
    BY <1>1, <1>2, <1>3, <1>4, SameVariant DEF OracleAt, SwappedAt, HoldsVariant
  <1>6. Told(w)'
    BY <1>2 DEF Told
  <1>7. BaselinesPass' /\ AcceptedPassedTests' /\ ObjectMatchesKey'
    BY BaselinesKept, NothingAccepted, ObjectsKept DEF WorkersInv, TestsTell
  <1> QED BY <1>1, <1>3, <1>5, <1>6, <1>7, SettledStep

(* LookUp: nothing is written; none but a whole source, or one cut short   *)
(* before, is compiled.                                                    *)
LEMMA LookUpKeeps ==
    ASSUME WorkersInv, NEW w \in Worker, NEW k \in Kind, LookUp(w, k)
    PROVE  WorkersInv'
  <1>1. /\ UNCHANGED <<mode, tree, objs, ccsrc, exes, baseline, taken, applied, accepted,
                       unrestored, cut, runs, killed, fails>>
        /\ job[w].at = "build" /\ job[w].builds[k] # "done" /\ At(w, k, "todo")
    BY DEF LookUp, At, caches, history, counts
  <1>2. PICK s \in {"done", "open", "compile"} :
          Goes(w, k, s) /\ (s = "compile" => ~(mode.ccache /\ ccsrc[Prog(w, k)] = "none"))
    BY DEF LookUp
  <1>3. DataTypes /\ Prog(w, k) \in Program
    BY <1>1, Building
  <1>4. DataTypes'
    BY <1>1, <1>3 DEF DataTypes
  <1>5. ~mode.san /\ ccsrc[Prog(w, k)] = "part" => Prog(w, k) \in cut
    BY <1>1, OwnPart DEF Stage
  <1>6. ccsrc[Prog(w, k)] \in {"none", "part", "whole"}
    BY <1>3 DEF DataTypes
  <1>7. s \in Stage
    BY <1>2 DEF Stage
  <1>8. WholeSources'
    BY <1>1, <1>2, <1>5, <1>6, <1>7, SourcesBuilt
  <1> QED BY <1>1, <1>2, <1>4, <1>7, <1>8, BuildGoesOn

(* OpenSource: from now on the source is being written.                    *)
LEMMA OpenSourceKeeps ==
    ASSUME WorkersInv, NEW w \in Worker, NEW k \in Kind, OpenSource(w, k)
    PROVE  WorkersInv'
  <1>1. /\ UNCHANGED <<mode, tree, objs, exes, baseline, taken, applied, accepted, unrestored,
                       cut, runs, killed, fails>>
        /\ job[w].at = "build" /\ job[w].builds[k] # "done" /\ Goes(w, k, "write")
        /\ ccsrc' = [ccsrc EXCEPT ![Prog(w, k)] = "part"]
    BY DEF OpenSource, At, history, counts
  <1>2. DataTypes /\ Prog(w, k) \in Program
    BY <1>1, Building
  <1>3. DataTypes'
    BY <1>1, <1>2 DEF DataTypes
  <1>4. "write" \in Stage /\ \A p \in Program : p # Prog(w, k) => ccsrc'[p] = ccsrc[p]
    BY <1>1, <1>2 DEF Stage, DataTypes
  <1>5. WholeSources'
    BY <1>1, <1>4, SourcesBuilt
  <1> QED BY <1>1, <1>3, <1>4, <1>5, BuildGoesOn

(* WriteSource: whole, or cut short.                                       *)
LEMMA WriteSourceKeeps ==
    ASSUME WorkersAssumption, WorkersInv, NEW w \in Worker, NEW k \in Kind, WriteSource(w, k)
    PROVE  WorkersInv'
  <1>1. /\ UNCHANGED <<mode, tree, objs, exes, baseline, taken, applied, accepted, unrestored,
                       runs, killed>>
        /\ job[w].at = "build" /\ job[w].builds[k] # "done"
    BY DEF WriteSource, At
  <1>2. DataTypes /\ Prog(w, k) \in Program
    BY <1>1, Building
  <1>3. CASE /\ ccsrc' = [ccsrc EXCEPT ![Prog(w, k)] = "whole"]
             /\ Goes(w, k, "compile") /\ UNCHANGED <<cut, fails>>
    <2>1. DataTypes'
      BY <1>1, <1>2, <1>3 DEF DataTypes
    <2>2. /\ "compile" \in Stage /\ ccsrc'[Prog(w, k)] = "whole"
          /\ \A p \in Program : p # Prog(w, k) => ccsrc'[p] = ccsrc[p]
      BY <1>2, <1>3 DEF Stage, DataTypes
    <2>3. WholeSources'
      BY <1>1, <1>3, <2>2, SourcesBuilt
    <2> QED BY <1>1, <1>3, <2>1, <2>2, <2>3, BuildGoesOn
  <1>4. CASE /\ WriteFails /\ cut' = cut \union {Prog(w, k)}
             /\ Goes(w, k, "failed") /\ ccsrc' = ccsrc
    <2>1. fails' \in 0 .. MaxFails
      BY <1>2, <1>4 DEF DataTypes, WriteFails, WorkersAssumption
    <2>2. DataTypes'
      BY <1>1, <1>2, <1>4, <2>1 DEF DataTypes
    <2>3. "failed" \in Stage /\ Prog(w, k) \in cut' /\ cut \subseteq cut'
      BY <1>4 DEF Stage
    <2>4. WholeSources'
      BY <1>1, <1>4, <2>3, SourcesBuilt
    <2> QED BY <1>1, <1>4, <2>2, <2>3, <2>4, BuildGoesOn
  <1> QED BY <1>3, <1>4 DEF WriteSource

(* Build: an executable is cached, or the build has failed.                *)
LEMMA BuildKeeps ==
    ASSUME WorkersInv, NEW w \in Worker, NEW k \in Kind, Build(w, k)
    PROVE  WorkersInv'
  <1>1. /\ UNCHANGED <<mode, tree, objs, ccsrc, baseline, taken, applied, accepted, unrestored,
                       cut, runs, killed, fails>>
        /\ job[w].at = "build" /\ job[w].builds[k] # "done" /\ At(w, k, "compile")
    BY DEF Build, At, history, counts
  <1>2. DataTypes /\ Prog(w, k) \in Program
    BY <1>1, Building
  <1>3. PICK s \in {"done", "failed"} : Goes(w, k, s)
    BY DEF Build
  <1>4. exes' \subseteq Program \X BOOLEAN
    <2>1. <<Prog(w, k), k = "san">> \in Program \X BOOLEAN /\ exes \subseteq Program \X BOOLEAN
      BY <1>2 DEF DataTypes
    <2>2. exes' = exes \union {<<Prog(w, k), k = "san">>} \/ exes' = exes
      BY DEF Build
    <2> QED BY <2>1, <2>2
  <1>5. DataTypes'
    BY <1>1, <1>2, <1>4 DEF DataTypes
  <1>6. ~mode.san /\ ccsrc[Prog(w, k)] = "part" => Prog(w, k) \in cut
    BY <1>1, OwnPart DEF Stage
  <1>7. s \in Stage
    BY <1>3 DEF Stage
  <1>8. WholeSources'
    BY <1>1, <1>3, <1>6, <1>7, SourcesBuilt
  <1> QED BY <1>1, <1>3, <1>5, <1>7, <1>8, BuildGoesOn

-----------------------------------------------------------------------------
(* The gate and the oracle, as long as the source is left alone.           *)

Deciding == UNCHANGED <<mode, tree, objs, ccsrc, exes, taken, applied, unrestored, cut,
                        runs, killed, fails>>
Baselines == [Program -> BOOLEAN \union {None}]

(* The candidate is given up.                                              *)
LEMMA GivesUp ==
    ASSUME WorkersInv, NEW w \in Worker, Busy(w), job[w].at \notin SwappedAt, End(w),
           NotWriting(w),
           Deciding, accepted' = accepted, baseline' \in Baselines, BaselinesPass'
    PROVE  WorkersInv'
  <1>1. JobTypes /\ DataTypes
    BY DEF WorkersInv
  <1>2. JobTypes' /\ OthersStay(w) /\ job'[w].at = "idle"
    BY <1>1, Ending
  <1>3. Settled(w)
    BY <1>2 DEF Settled, GoesOn, Deciding
  <1>4. DataTypes'
    BY <1>1 DEF DataTypes, Deciding, Baselines
  <1>5. AcceptedPassedTests' /\ ObjectMatchesKey'
    BY NothingAccepted, ObjectsKept DEF WorkersInv, Deciding
  <1>6. WholeSources'
    BY <1>2, SourcesKept DEF WorkersInv, Deciding
  <1> QED BY <1>2, <1>3, <1>4, <1>5, <1>6, Done, SettledStep

(* The candidate is accepted as it is.                                     *)
LEMMA TakesIt ==
    ASSUME WorkersInv, NEW w \in Worker, job[w].at \in VariantAt, job[w].at \notin SwappedAt,
           NotWriting(w), Accept(w), Deciding, baseline' \in Baselines, BaselinesPass',
           Sequential => job[w].unit \notin Breaking
    PROVE  WorkersInv'
  <1>1. JobTypes /\ DataTypes /\ Busy(w)
    BY DEF WorkersInv, Busy, VariantAt, OracleAt, SwappedAt, HoldsVariant
  <1>2. /\ JobTypes' /\ OthersStay(w)
        /\ accepted' = accepted \union {<<job[w].unit, Variant(w)>>}
        /\ \/ job'[w].at = "idle"
           \/ /\ mode.apply /\ job'[w].at = "apply" /\ job'[w].unit = job[w].unit
              /\ job'[w].from = job[w].from
    BY <1>1, Accepting
  <1>3. Settled(w)
    BY <1>1, <1>2 DEF Settled, GoesOn, Deciding
  <1>4. <<job[w].unit, Variant(w)>> \in Program
    BY <1>1, HasUnit DEF WorkersInv, Positions, Positioned, Program
  <1>5. DataTypes'
    BY <1>1, <1>2, <1>4 DEF DataTypes, Deciding, Baselines
  <1>6. AcceptedPassedTests'
    BY <1>2 DEF WorkersInv, AcceptedPassedTests, Sequential, Deciding
  <1>7. ObjectMatchesKey' /\ WholeSources'
    <2>1. job'[w].at # "build"
      BY <1>2
    <2> QED BY <1>2, <2>1, ObjectsKept, SourcesKept DEF WorkersInv, Deciding
  <1>8. CASE job'[w].at = "idle"
    BY <1>3, <1>5, <1>6, <1>7, <1>8, Done, SettledStep
  <1>9. CASE job'[w].at = "apply"
    <2>1. job'[w].at \in VariantAt /\ job'[w].at \notin OracleAt
      BY <1>9 DEF VariantAt, OracleAt, SwappedAt, HoldsVariant
    <2>2. /\ Positioned(w)' /\ (~killed => CleanStart(w)') /\ ReadsAlike(w)'
          /\ job'[w].at # "object"
      BY <1>2, <1>3, <1>9, <2>1, SameVariant DEF OracleAt, SwappedAt, HoldsVariant
    <2>3. Told(w)'
      BY <1>9 DEF Told
    <2> QED BY <1>3, <1>5, <1>6, <1>7, <2>2, <2>3, SettledStep
  <1> QED BY <1>2, <1>8, <1>9

(* The oracle takes over, or goes on.                                      *)
LEMMA GoesToOracle ==
    ASSUME WorkersInv, NEW w \in Worker, job[w].at \in VariantAt, mode.tests,
           NotWriting(w),
           NEW at \in OracleAt, at \in SwappedAt <=> job[w].at \in SwappedAt,
           at \in HoldsVariant => job[w].at \in HoldsVariant, Step(w, at),
           Deciding, accepted' = accepted, baseline' \in Baselines, BaselinesPass',
           Sequential /\ at \in {"passed", "before", "after", "faster"} => job[w].unit \notin Breaking
    PROVE  WorkersInv'
  <1>1. JobTypes /\ DataTypes /\ Busy(w) /\ at \in VariantAt
    BY DEF WorkersInv, Busy, VariantAt, OracleAt, SwappedAt, HoldsVariant
  <1>2. /\ JobTypes' /\ OthersStay(w) /\ job'[w].at = at
        /\ job'[w].unit = job[w].unit /\ job'[w].from = job[w].from
    BY <1>1, Stepping
  <1>3. Settled(w)
    BY <1>1, <1>2 DEF Settled, GoesOn, Deciding
  <1>4. DataTypes'
    BY <1>1 DEF DataTypes, Deciding, Baselines
  <1>5. AcceptedPassedTests' /\ ObjectMatchesKey'
    BY NothingAccepted, ObjectsKept DEF WorkersInv, Deciding
  <1>6. at # "apply" /\ at # "build"
    BY DEF OracleAt, SwappedAt, HoldsVariant
  <1>9. WholeSources'
    BY <1>2, <1>6, SourcesKept DEF WorkersInv, Deciding
  <1>7. /\ Positioned(w)' /\ (~killed => CleanStart(w)') /\ ReadsAlike(w)'
        /\ job'[w].at # "object"
    BY <1>1, <1>2, <1>3, <1>6, SameVariant
  <1>8. Sequential => Told(w)'
    BY <1>2 DEF Told
  <1> QED BY <1>2, <1>3, <1>4, <1>5, <1>7, <1>8, <1>9, SettledStep

(* Harness: without a test command, it alone decides.                      *)
LEMMA HarnessKeeps ==
    ASSUME WorkersInv, NEW w \in Worker, Harness(w)
    PROVE  WorkersInv'
  <1>1. Deciding /\ baseline' = baseline /\ job[w].at = "build"
    BY DEF Harness, Deciding, caches, counts
  <1>2. Busy(w) /\ job[w].at \in VariantAt /\ job[w].at \notin SwappedAt /\ NotWriting(w)
    BY <1>1, Building DEF Harness, NotWriting
  <1>3. baseline' \in Baselines /\ BaselinesPass'
    BY <1>1, BaselinesKept DEF WorkersInv, DataTypes, Baselines, TestsTell, Deciding
  <1>4. CASE End(w) /\ accepted' = accepted
    BY <1>1, <1>2, <1>3, <1>4, GivesUp
  <1>5. CASE ~mode.tests /\ Accept(w)
    BY <1>1, <1>2, <1>3, <1>5, TakesIt DEF Sequential
  <1>6. CASE mode.tests /\ Step(w, "baseline") /\ accepted' = accepted
    <2>1. /\ "baseline" \in OracleAt /\ "baseline" \notin SwappedAt /\ "baseline" \notin HoldsVariant
          /\ "baseline" \notin {"passed", "before", "after", "faster"}
      BY DEF OracleAt, SwappedAt, HoldsVariant
    <2> QED BY <1>1, <1>2, <1>3, <1>6, <2>1, GoesToOracle
  <1> QED BY <1>4, <1>5, <1>6 DEF Harness

(* One worker finds the tests passing on the sources as it was given them. *)
LEMMA AloneTestsPass ==
    ASSUME WorkersAssumption, WorkersInv, Sequential, NEW w \in Worker, Busy(w),
           job[w].at \notin SwappedAt
    PROVE  TestsPass
  <1> SUFFICES ASSUME NEW u \in Unit
               PROVE  tree[u] # Torn /\ (u \in Breaking => TextOf(tree[u]) = 0)
    BY DEF TestsPass, WorkersAssumption
  <1>1. JobTypes /\ Owners /\ Lone /\ CleanAt(u) /\ applied \subseteq accepted
        /\ tree[u] \in Bytes /\ mode.jobs = 1 /\ unrestored = {}
    BY DEF WorkersInv, Clean, Sequential, DataTypes
  <1>2. ~Swapped(u)
    <2> SUFFICES ASSUME NEW x \in Worker, job[x].at \in SwappedAt PROVE FALSE
      BY DEF Swapped, SwappedAt, HoldsVariant
    <2>1. Busy(x)
      BY DEF Busy, SwappedAt, HoldsVariant
    <2> QED BY <1>1, <2>1, NobodyElse
  <1>3. TextOf(tree[u]) = 0 \/ <<u, tree[u]>> \in accepted
    BY <1>1, <1>2 DEF CleanAt, CleanVersion
  <1>4. <<u, tree[u]>> \in accepted => tree[u] \in Version /\ u \notin Breaking
    BY DEF WorkersInv, DataTypes, AcceptedPassedTests, Sequential, Program
  <1>5. TextOf(Torn) # 0 /\ Torn \notin Version
    BY DEF WorkersAssumption, TextOf, Version
  <1> QED BY <1>3, <1>4, <1>5

(* An oracle at work: there is a test command, and the source holds what   *)
(* its position says.                                                      *)
LEMMA AtOracle ==
    ASSUME WorkersInv, NEW w \in Worker, job[w].at \in OracleAt
    PROVE  /\ JobTypes /\ DataTypes /\ job[w] \in VariantJob /\ Busy(w) /\ mode.tests
           /\ job[w].at \in VariantAt /\ job[w].unit \in Unit /\ Variant(w) \in Version
           /\ job[w].at \in HoldsVariant => tree[job[w].unit] = Variant(w)
           /\ job[w].at \notin SwappedAt => TextOf(tree[job[w].unit]) = job[w].from
           /\ NotWriting(w)
  <1>1. JobTypes /\ DataTypes /\ Positioned(w) /\ job[w].at \in VariantAt
    BY DEF WorkersInv, Positions, VariantAt
  <1>2. job[w] \in VariantJob
    BY <1>1, Shape
  <1>3. Busy(w) /\ NotWriting(w)
    BY DEF Busy, NotWriting, OracleAt, SwappedAt, HoldsVariant
  <1> QED BY <1>1, <1>2, <1>3 DEF Positioned, VariantJob

(* Baseline: the first outcome for a version is kept for the process.      *)
LEMMA BaselineKeeps ==
    ASSUME WorkersAssumption, WorkersInv, NEW w \in Worker, Baseline(w)
    PROVE  WorkersInv'
  <1>1. Deciding /\ job[w].at = "baseline"
    BY DEF Baseline, Deciding, caches, counts
  <1>2. job[w].at \in OracleAt /\ job[w].at \notin SwappedAt
    BY <1>1 DEF OracleAt, SwappedAt, HoldsVariant
  <1>3. /\ JobTypes /\ DataTypes /\ job[w] \in VariantJob /\ Busy(w) /\ mode.tests
        /\ job[w].at \in VariantAt /\ job[w].unit \in Unit /\ NotWriting(w)
        /\ TextOf(tree[job[w].unit]) = job[w].from /\ job[w].from \in Version
    BY <1>2, AtOracle DEF VariantJob
  <1> DEFINE p0 == <<job[w].unit, TextOf(tree[job[w].unit])>>
  <1>4. p0 \in Program /\ baseline \in Baselines
    BY <1>3 DEF DataTypes, Program, Baselines
  <1> DEFINE known == baseline[p0]
             base == IF known = None THEN TestsPass ELSE known
  <1>5. /\ baseline' = [baseline EXCEPT ![p0] = base]
        /\ CASE base                     -> Step(w, "swap") /\ accepted' = accepted
              [] ~base /\ job[w].harness  -> Accept(w)
              [] ~base /\ ~job[w].harness -> End(w) /\ accepted' = accepted
    BY DEF Baseline
  <1>6. TestsPass \in BOOLEAN
    BY DEF TestsPass
  <1>7. base \in BOOLEAN
    <2>1. known \in BOOLEAN \union {None}
      BY <1>4 DEF Baselines
    <2> QED BY <1>6, <2>1
  <1>8. Sequential => base = TRUE
    <2> HAVE Sequential
    <2>1. TestsPass
      BY <1>2, <1>3, AloneTestsPass
    <2>2. known # FALSE
      BY <1>4 DEF WorkersInv, TestsTell, BaselinesPass
    <2>3. CASE known = None
      BY <2>1, <2>3
    <2>4. CASE known # None
      BY <1>7, <2>2, <2>4
    <2> QED BY <2>3, <2>4
  <1> HIDE DEF p0, known, base
  <1>9. baseline' \in Baselines
    BY <1>4, <1>5, <1>7 DEF Baselines
  <1>10. BaselinesPass'
    <2> SUFFICES ASSUME Sequential, NEW p \in Program PROVE baseline'[p] # FALSE
      BY <1>1 DEF BaselinesPass, Sequential, Deciding
    <2>1. baseline[p] # FALSE /\ base = TRUE
      BY <1>8 DEF WorkersInv, TestsTell, BaselinesPass
    <2>2. baseline'[p] = IF p = p0 THEN base ELSE baseline[p]
      BY <1>4, <1>5 DEF Baselines
    <2> QED BY <2>1, <2>2
  <1>11. CASE base
    <2>1. Step(w, "swap") /\ accepted' = accepted
      BY <1>5, <1>11
    <2>2. /\ "swap" \in OracleAt /\ "swap" \notin SwappedAt /\ "swap" \notin HoldsVariant
          /\ "swap" \notin {"passed", "before", "after", "faster"}
      BY DEF OracleAt, SwappedAt, HoldsVariant
    <2> QED BY <1>1, <1>2, <1>3, <1>9, <1>10, <2>1, <2>2, GoesToOracle
  <1>12. CASE ~base /\ job[w].harness
    <2>1. Accept(w)
      BY <1>5, <1>12
    <2>2. ~Sequential
      BY <1>8, <1>12
    <2> QED BY <1>1, <1>2, <1>3, <1>9, <1>10, <2>1, <2>2, TakesIt
  <1>13. CASE ~base /\ ~job[w].harness
    <2>1. End(w) /\ accepted' = accepted
      BY <1>5, <1>13
    <2> QED BY <1>1, <1>2, <1>3, <1>9, <1>10, <2>1, GivesUp
  <1> QED BY <1>11, <1>12, <1>13

(* Test: with the variant of a breaking unit in the tree, the tests fail.  *)
LEMMA TestKeeps ==
    ASSUME WorkersAssumption, WorkersInv, NEW w \in Worker, Test(w)
    PROVE  WorkersInv'
  <1> DEFINE at == IF TestsPass THEN "passed" ELSE "failed"
  <1>1. /\ Deciding /\ baseline' = baseline /\ accepted' = accepted
        /\ job[w].at = "test" /\ Step(w, at)
    BY DEF Test, Deciding, caches, history, counts
  <1>2. /\ job[w].at \in OracleAt /\ job[w].at \in SwappedAt
        /\ job[w].at \in HoldsVariant
        /\ at \in OracleAt /\ at \in SwappedAt /\ at \in {"passed", "failed"}
    BY <1>1 DEF OracleAt, SwappedAt, HoldsVariant
  <1>3. /\ DataTypes /\ job[w] \in VariantJob /\ mode.tests /\ job[w].at \in VariantAt
        /\ tree[job[w].unit] = Variant(w) /\ Variant(w) \in Version /\ NotWriting(w)
    BY <1>2, AtOracle
  <1>4. at = "passed" => job[w].unit \notin Breaking
    <2> SUFFICES ASSUME TestsPass, job[w].unit \in Breaking PROVE FALSE
      OBVIOUS
    <2>1. TextOf(Variant(w)) = 0
      BY <1>3 DEF TestsPass
    <2>2. TextOf(Variant(w)) = Variant(w)
      BY <1>3 DEF TextOf, WorkersAssumption
    <2> QED BY <1>3, <2>1, <2>2 DEF Variant, VariantJob, Version
  <1>5. baseline' \in Baselines /\ BaselinesPass'
    BY <1>1, <1>3, BaselinesKept DEF WorkersInv, DataTypes, Baselines, TestsTell, Deciding
  <1> HIDE DEF at
  <1> QED BY <1>1, <1>2, <1>3, <1>4, <1>5, GoesToOracle

(* Measure: what the tests have passed is measured.                        *)
LEMMA MeasureKeeps ==
    ASSUME WorkersInv, NEW w \in Worker, Measure(w)
    PROVE  WorkersInv'
  <1>1. /\ Deciding /\ baseline' = baseline /\ accepted' = accepted /\ job[w].at = "after"
    BY DEF Measure, Deciding, caches, history, counts
  <1>2. PICK at \in {"faster", "slower"} : Step(w, at)
    BY DEF Measure
  <1>3. /\ job[w].at \in OracleAt /\ job[w].at \in SwappedAt
        /\ at \in OracleAt /\ at \in SwappedAt /\ job[w].at \in HoldsVariant
    BY <1>1 DEF OracleAt, SwappedAt, HoldsVariant
  <1>4. DataTypes /\ mode.tests /\ job[w].at \in VariantAt /\ NotWriting(w)
    BY <1>3, AtOracle
  <1>5. Sequential => job[w].unit \notin Breaking
    BY <1>1 DEF WorkersInv, TestsTell, Told
  <1>6. baseline' \in Baselines /\ BaselinesPass'
    BY <1>1, <1>4, BaselinesKept DEF WorkersInv, DataTypes, Baselines, TestsTell, Deciding
  <1> QED BY <1>1, <1>2, <1>3, <1>4, <1>5, <1>6, GoesToOracle

-----------------------------------------------------------------------------
(* The source is written.                                                  *)

(* A write, or one that fails and is counted.                              *)
Writing(w) ==
    /\ \A u \in Unit : u # job[w].unit => tree'[u] = tree[u]
    /\ tree' \in [Unit -> Bytes] /\ fails' \in 0 .. MaxFails
    /\ UNCHANGED <<mode, objs, ccsrc, exes, baseline, taken, cut, runs, killed>>

(* What InTree does.                                                       *)
LEMMA Overwrites ==
    ASSUME DataTypes, NEW w \in Worker, job[w].unit \in Unit, NEW b \in Bytes, InTree(w, b)
    PROVE  /\ tree' \in [Unit -> Bytes] /\ tree'[job[w].unit] = b
           /\ \A u \in Unit : u # job[w].unit => tree'[u] = tree[u]
  BY DEF DataTypes, InTree

(* What every write of the tree has in common.                             *)
LEMMA WritesOwnSource ==
    ASSUME WorkersInv, NEW w \in Worker, job[w].at \in VariantAt,
           Writing(w), GoesOn(w), OthersStay(w), JobTypes',
           mode.tests \/ mode.apply, accepted \subseteq accepted', applied \subseteq applied',
           unrestored \subseteq unrestored', unrestored' \subseteq Unit,
           accepted' \subseteq Program, applied' \subseteq accepted',
           NotWriting(w), job'[w].at # "build"
    PROVE  OwnStep(w) /\ DataTypes' /\ BaselinesPass' /\ ObjectMatchesKey' /\ WholeSources'
  <1>1. JobTypes /\ DataTypes /\ Busy(w)
    BY DEF WorkersInv, GoesOn
  <1>2. OwnStep(w)
    BY DEF OwnStep, Writing
  <1>3. DataTypes'
    BY <1>1 DEF DataTypes, Writing
  <1>4. BaselinesPass' /\ ObjectMatchesKey'
    BY BaselinesKept, ObjectsKept DEF WorkersInv, TestsTell, Writing
  <1>5. WholeSources'
    BY SourcesKept DEF WorkersInv, Writing
  <1> QED BY <1>2, <1>3, <1>4, <1>5

(* Swap: the worker says that its source is being tested.                  *)
LEMMA SwapKeeps ==
    ASSUME WorkersAssumption, WorkersInv, NEW w \in Worker, Swap(w)
    PROVE  WorkersInv'
  <1> DEFINE at == IF job[w].at = "swap" THEN "test" ELSE "after"
  <1>1. /\ UNCHANGED <<mode, objs, ccsrc, exes, baseline, taken, applied, accepted, unrestored,
                       cut, runs, killed>>
        /\ job[w].at \in {"swap", "before"}
        /\ \/ InTree(w, Variant(w)) /\ Step(w, at) /\ fails' = fails
           \/ WriteFails /\ (tree' = tree \/ InTree(w, Torn)) /\ Step(w, "raised")
    BY DEF Swap, caches, history
  <1>2. /\ job[w].at \in OracleAt /\ at \in HoldsVariant
        /\ at = "after" => job[w].at = "before"
        /\ at \in {"test", "after"}
    BY <1>1 DEF OracleAt, SwappedAt, HoldsVariant
  <1>3. /\ JobTypes /\ DataTypes /\ Busy(w) /\ mode.tests /\ job[w].at \in VariantAt
        /\ Variant(w) \in Version /\ Variant(w) \in Bytes /\ Torn \in Bytes
        /\ job[w].unit \in Unit
    BY <1>2, AtOracle DEF Bytes
  <1> HIDE DEF at
  <1>4. PICK to \in {at, "raised"} :
           /\ Step(w, to) /\ Writing(w)
           /\ to = at => InTree(w, Variant(w))
    <2>1. CASE InTree(w, Variant(w)) /\ Step(w, at) /\ fails' = fails
      <3>1. Writing(w)
        BY <1>1, <1>3, <2>1, Overwrites DEF Writing, DataTypes
      <3> QED BY <2>1, <3>1
    <2>2. CASE WriteFails /\ (tree' = tree \/ InTree(w, Torn)) /\ Step(w, "raised")
      <3>1. fails' \in 0 .. MaxFails
        BY <1>3, <2>2 DEF WriteFails, DataTypes, WorkersAssumption
      <3>2. Writing(w)
        BY <1>1, <1>3, <2>2, <3>1, Overwrites DEF Writing, DataTypes
      <3>3. "raised" # at
        BY <1>2
      <3> QED BY <2>2, <3>2, <3>3
    <2> QED BY <1>1, <2>1, <2>2
  <1>5. /\ to \in SwappedAt /\ to \in OracleAt /\ to \in VariantAt
        /\ to \notin {"object", "apply", "build", "passed", "before", "faster"}
        /\ to \in HoldsVariant => to = at
        /\ to = "after" => job[w].at = "before"
    BY <1>2 DEF OracleAt, SwappedAt, HoldsVariant, VariantAt
  <1>6. /\ JobTypes' /\ OthersStay(w) /\ job'[w].at = to
        /\ job'[w].unit = job[w].unit /\ job'[w].from = job[w].from
    BY <1>3, <1>4, <1>5, Stepping
  <1>7. GoesOn(w)
    BY <1>1, <1>3, <1>6 DEF GoesOn
  <1>8. accepted \subseteq Program /\ applied \subseteq accepted /\ unrestored \subseteq Unit
    BY <1>3 DEF DataTypes
  <1>9. OwnStep(w) /\ DataTypes' /\ BaselinesPass' /\ ObjectMatchesKey' /\ WholeSources'
    <2>1. NotWriting(w) /\ job'[w].at # "build"
      BY <1>1, <1>5, <1>6 DEF NotWriting
    <2> QED BY <1>1, <1>3, <1>4, <1>6, <1>7, <1>8, <2>1, WritesOwnSource
  <1>10. Variant(w)' = Variant(w) /\ mode' = mode
    BY <1>1, <1>6 DEF Variant
  <1>11. to \in HoldsVariant => tree'[job[w].unit] = Variant(w)
    BY <1>3, <1>4, <1>5, Overwrites
  <1>12. Positioned(w)'
    BY <1>3, <1>5, <1>6, <1>10, <1>11 DEF Positioned
  <1>13. ~killed => CleanStart(w)'
    BY <1>1, <1>3, <1>6 DEF WorkersInv, Clean, CleanStart, CleanVersion
  <1>14. \A u \in Unit : u = job[w].unit => CleanAt(u)'
    BY <1>5, <1>6 DEF CleanAt, Swapped, SwappedAt, HoldsVariant
  <1>15. Sequential => Told(w)'
    BY <1>5, <1>6 DEF WorkersInv, TestsTell, Told
  <1>16. AcceptedPassedTests'
    BY <1>1, NothingAccepted DEF WorkersInv
  <1>17. job'[w].at # "object" /\ ReadsAlike(w)'
    BY <1>5, <1>6 DEF ReadsAlike
  <1> QED BY <1>9, <1>12, <1>13, <1>14, <1>15, <1>16, <1>17, Framed

(* Restore, where the write fails: the unit is one of those not restored.  *)
LEMMA RestoreFails ==
    ASSUME WorkersAssumption, WorkersInv, NEW w \in Worker, job[w].at \in SwappedAt,
           WriteFails, tree' = tree \/ InTree(w, Torn),
           unrestored' = unrestored \union {job[w].unit}, End(w), accepted' = accepted,
           UNCHANGED <<mode, objs, ccsrc, exes, baseline, taken, applied, cut, runs, killed>>
    PROVE  WorkersInv'
  <1>1. /\ job[w].at \in OracleAt /\ NotWriting(w)
    BY DEF OracleAt, SwappedAt, HoldsVariant, NotWriting
  <1>2. /\ JobTypes /\ DataTypes /\ Busy(w) /\ mode.tests /\ job[w].at \in VariantAt
        /\ job[w].unit \in Unit /\ Torn \in Bytes
    BY <1>1, AtOracle DEF Bytes
  <1>3. JobTypes' /\ OthersStay(w) /\ job'[w].at = "idle"
    BY <1>2, Ending
  <1>4. GoesOn(w)
    BY <1>2, <1>3 DEF GoesOn
  <1>5. fails' \in 0 .. MaxFails
    BY <1>2 DEF WriteFails, DataTypes, WorkersAssumption
  <1>6. Writing(w)
    BY <1>2, <1>5, Overwrites DEF Writing, DataTypes
  <1>7. accepted \subseteq Program /\ applied \subseteq accepted /\ unrestored' \subseteq Unit
    BY <1>2 DEF DataTypes
  <1>8. OwnStep(w) /\ DataTypes' /\ BaselinesPass' /\ ObjectMatchesKey' /\ WholeSources'
    BY <1>1, <1>2, <1>3, <1>4, <1>6, <1>7, WritesOwnSource
  <1>9. \A u \in Unit : u = job[w].unit => CleanAt(u)'
    BY DEF CleanAt, CleanVersion
  <1>10. AcceptedPassedTests'
    BY NothingAccepted DEF WorkersInv
  <1> QED BY <1>3, <1>8, <1>9, <1>10, Done, Framed

(* Restore: the source holds the text it had, whatever the verdict; what   *)
(* is accepted has passed the tests.                                       *)
LEMMA RestoreKeeps ==
    ASSUME WorkersAssumption, WorkersInv, NEW w \in Worker, Restore(w)
    PROVE  WorkersInv'
  <1>1. /\ UNCHANGED <<mode, objs, ccsrc, exes, baseline, taken, applied, cut, runs, killed>>
        /\ job[w].at \in {"passed", "failed", "faster", "slower", "raised"}
    BY DEF Restore, caches
  <1>2. job[w].at \in OracleAt /\ job[w].at \in SwappedAt /\ NotWriting(w)
    BY <1>1 DEF OracleAt, SwappedAt, HoldsVariant, NotWriting
  <1>3. /\ JobTypes /\ DataTypes /\ Busy(w) /\ mode.tests /\ job[w].at \in VariantAt
        /\ Variant(w) \in Version /\ job[w] \in VariantJob /\ job[w].unit \in Unit
    BY <1>2, AtOracle
  <1>4. /\ job[w].from \in Version /\ job[w].from \in Bytes /\ TextOf(job[w].from) = job[w].from
        /\ accepted \subseteq Program /\ applied \subseteq accepted /\ unrestored \subseteq Unit
        /\ fails \in 0 .. MaxFails
    BY <1>3 DEF VariantJob, DataTypes, Bytes, TextOf, WorkersAssumption
  <1>5. CASE WriteFails /\ (tree' = tree \/ InTree(w, Torn))
             /\ unrestored' = unrestored \union {job[w].unit} /\ End(w) /\ accepted' = accepted
    BY <1>1, <1>2, <1>5, RestoreFails
  <1>6. ASSUME InTree(w, job[w].from), Conclude(w), unrestored' = unrestored, fails' = fails
        PROVE  WorkersInv'
    <2> DEFINE Verdict ==
          \/ job'[w].at = "idle" /\ accepted' = accepted
          \/ job'[w].at = "before" /\ job[w].at = "passed" /\ accepted' = accepted
          \/ /\ job'[w].at = "idle" \/ (job'[w].at = "apply" /\ mode.apply)
             /\ job[w].at \in {"passed", "faster"}
             /\ accepted' = accepted \union {<<job[w].unit, Variant(w)>>}
    <2>1. /\ JobTypes' /\ OthersStay(w) /\ Verdict
          /\ job'[w].at # "idle" => job'[w].unit = job[w].unit /\ job'[w].from = job[w].from
      <3>1. CASE job[w].at = "passed" /\ ~job[w].harness
        <4>1. Step(w, "before") /\ accepted' = accepted
          BY <1>6, <3>1 DEF Conclude
        <4>2. "before" \in VariantAt
          BY DEF VariantAt, OracleAt
        <4> QED BY <1>3, <3>1, <4>1, <4>2, Stepping
      <3>2. CASE (job[w].at = "passed" /\ job[w].harness) \/ job[w].at = "faster"
        <4>1. Accept(w)
          BY <1>6, <3>2 DEF Conclude
        <4> QED BY <1>3, <3>2, <4>1, Accepting
      <3>3. CASE job[w].at \in {"failed", "slower", "raised"}
        <4>1. End(w) /\ accepted' = accepted
          BY <1>6, <3>3 DEF Conclude
        <4> QED BY <1>3, <4>1, Ending
      <3> QED BY <1>1, <3>1, <3>2, <3>3
    <2>2. GoesOn(w)
      BY <1>1, <1>3, <2>1 DEF GoesOn
    <2>3. <<job[w].unit, Variant(w)>> \in Program
      BY <1>3 DEF Program
    <2>4. /\ accepted \subseteq accepted' /\ applied \subseteq applied'
          /\ accepted' \subseteq Program /\ applied' \subseteq accepted'
          /\ unrestored \subseteq unrestored' /\ unrestored' \subseteq Unit
      BY <1>1, <1>4, <1>6, <2>1, <2>3
    <2>5. /\ tree' \in [Unit -> Bytes] /\ tree'[job[w].unit] = job[w].from
          /\ \A u \in Unit : u # job[w].unit => tree'[u] = tree[u]
      BY <1>3, <1>4, <1>6, Overwrites
    <2>6. Writing(w)
      BY <1>1, <1>4, <1>6, <2>5 DEF Writing
    <2>7. job'[w].at # "build" /\ job'[w].at # "object" /\ job'[w].at \notin SwappedAt
          /\ job'[w].at \in {"idle", "before", "apply"}
      BY <2>1 DEF SwappedAt, HoldsVariant
    <2>8. OwnStep(w) /\ DataTypes' /\ BaselinesPass' /\ ObjectMatchesKey' /\ WholeSources'
      BY <1>2, <1>3, <2>1, <2>2, <2>4, <2>6, <2>7, WritesOwnSource
    <2>9. ~killed => CleanVersion(job[w].unit, job[w].from)
      BY <1>3 DEF WorkersInv, Clean, CleanStart
    <2>10. Positioned(w)'
      <3>1. CASE job'[w].at = "idle"
        BY <3>1, Done
      <3>2. CASE job'[w].at # "idle"
        <4>1. /\ job'[w].at \in {"before", "apply"} /\ Variant(w)' = Variant(w)
              /\ job'[w].at = "apply" => mode.apply /\ <<job[w].unit, Variant(w)>> \in accepted'
          BY <2>1, <3>2 DEF Variant
        <4>2. job'[w].at \notin HoldsVariant
          BY <2>7 DEF SwappedAt, HoldsVariant
        <4>3. TextOf(tree'[job'[w].unit]) = job'[w].from /\ mode' = mode
          BY <1>1, <1>4, <2>1, <2>5, <3>2
        <4> QED BY <1>3, <2>1, <3>2, <4>1, <4>2, <4>3 DEF Positioned
      <3> QED BY <3>1, <3>2
    <2>11. ~killed => CleanStart(w)'
      <3>1. CASE job'[w].at = "idle"
        BY <3>1, Done
      <3>2. CASE job'[w].at # "idle"
        BY <1>1, <1>6, <2>1, <2>9, <3>2 DEF CleanStart, CleanVersion
      <3> QED BY <3>1, <3>2
    <2>12. ~killed => \A u \in Unit : u = job[w].unit => CleanAt(u)'
      BY <1>1, <1>6, <2>5, <2>9 DEF CleanAt, CleanVersion
    <2>13. Sequential /\ job[w].at \in {"passed", "faster"} => job[w].unit \notin Breaking
      BY DEF WorkersInv, TestsTell, Told
    <2>14. Sequential => Told(w)'
      BY <2>1, <2>13 DEF Told
    <2>15. AcceptedPassedTests'
      BY <1>1, <1>6, <2>1, <2>13 DEF WorkersInv, AcceptedPassedTests, Sequential
    <2>16. ReadsAlike(w)'
      BY <2>7 DEF ReadsAlike
    <2> HIDE DEF Verdict
    <2> QED BY <2>7, <2>8, <2>10, <2>11, <2>12, <2>14, <2>15, <2>16, Framed
  <1> QED BY <1>5, <1>6 DEF Restore

(* Apply: the source holds what was accepted, or is left alone.            *)
LEMMA ApplyKeeps ==
    ASSUME WorkersAssumption, WorkersInv, NEW w \in Worker, Apply(w)
    PROVE  WorkersInv'
  <1> DEFINE new == <<job[w].unit, Variant(w)>>
  <1>1. /\ job[w].at = "apply" /\ End(w)
        /\ UNCHANGED <<mode, objs, ccsrc, exes, baseline, taken, accepted, unrestored, cut,
                       runs, killed, fails>>
        /\ \/ InTree(w, Variant(w)) /\ applied' = applied \union {new}
           \/ tree' = tree /\ applied' = applied
    BY DEF Apply, caches, counts
  <1>2. job[w].at \in VariantAt /\ Busy(w) /\ job[w].at \notin SwappedAt
    BY <1>1 DEF VariantAt, Busy, SwappedAt, HoldsVariant
  <1>3. /\ JobTypes /\ DataTypes /\ mode.apply /\ new \in accepted /\ Variant(w) \in Version
        /\ Variant(w) \in Bytes /\ job[w].unit \in Unit
    BY <1>1, <1>2, HasUnit DEF WorkersInv, Positions, Positioned, Bytes
  <1>4. JobTypes' /\ OthersStay(w) /\ job'[w].at = "idle"
    BY <1>1, <1>3, Ending
  <1>5. GoesOn(w)
    BY <1>1, <1>2, <1>4 DEF GoesOn
  <1>6. /\ accepted \subseteq accepted' /\ applied \subseteq applied'
        /\ accepted' \subseteq Program /\ applied' \subseteq accepted'
        /\ unrestored \subseteq unrestored' /\ unrestored' \subseteq Unit
    BY <1>1, <1>3 DEF DataTypes
  <1>7. Writing(w)
    <2>1. CASE InTree(w, Variant(w))
      BY <1>1, <1>3, <2>1, Overwrites DEF Writing, DataTypes
    <2>2. CASE tree' = tree
      BY <1>1, <1>3, <2>2 DEF Writing, DataTypes
    <2> QED BY <1>1, <2>1, <2>2
  <1>8. OwnStep(w) /\ DataTypes' /\ BaselinesPass' /\ ObjectMatchesKey' /\ WholeSources'
    <2>1. NotWriting(w) /\ job'[w].at # "build"
      BY <1>1, <1>4 DEF NotWriting
    <2> QED BY <1>1, <1>2, <1>3, <1>4, <1>5, <1>6, <1>7, <2>1, WritesOwnSource
  <1>9. ~killed => \A u \in Unit : u = job[w].unit => CleanAt(u)'
    <2>1. CASE InTree(w, Variant(w)) /\ applied' = applied \union {new}
      <3>1. tree'[job[w].unit] = Variant(w)
        BY <1>3, <2>1, Overwrites
      <3> QED BY <2>1, <3>1 DEF CleanAt, CleanVersion
    <2>2. CASE tree' = tree /\ applied' = applied
      BY <1>1, <1>2, <2>2, OwnUnit DEF CleanAt, CleanVersion
    <2> QED BY <1>1, <2>1, <2>2
  <1>10. AcceptedPassedTests'
    BY <1>1, NothingAccepted DEF WorkersInv
  <1> QED BY <1>4, <1>8, <1>9, <1>10, Done, Framed

-----------------------------------------------------------------------------
(* The runs, and the theorems.                                             *)

(* Nobody at work: only the tree, the caches and the history matter.       *)
LEMMA NobodyAtWork ==
    ASSUME NEW w \in Worker, job = [x \in Worker |-> Idle]
    PROVE  job[w].at = "idle"
  BY DEF Idle

(* The first versions are clean, whatever their line ends.                 *)
LEMMA OriginalIsBytes ==
    ASSUME WorkersAssumption
    PROVE  /\ Original \in [Unit -> Bytes]
           /\ \A u \in Unit : TextOf(Original[u]) = 0
  BY DEF WorkersAssumption, Original, Bytes, Version, TextOf

(* Init: nothing has been read, cached, tested or accepted.                *)
LEMMA InitHolds ==
    ASSUME WorkersAssumption, Init
    PROVE  WorkersInv
  <1>1. \A w \in Worker : job[w].at = "idle"
    BY NobodyAtWork DEF Init
  <1>2. JobTypes
    BY DEF Init, JobTypes
  <1>3. DataTypes
    <2>1. 1 \in 1 .. MaxRuns /\ 0 \in 0 .. MaxFails
      BY DEF WorkersAssumption
    <2>2. tree \in [Unit -> Bytes]
      BY OriginalIsBytes DEF Init
    <2>3. objs \in [Source -> Bytes \union {None}]
      BY DEF Init
    <2>4. /\ ccsrc \in [Program -> {"none", "part", "whole"}]
          /\ baseline \in [Program -> BOOLEAN \union {None}]
      BY DEF Init
    <2> QED BY <2>1, <2>2, <2>3, <2>4 DEF Init, DataTypes
  <1>4. Owners /\ Lone
    BY <1>1 DEF Owners, Lone, Busy
  <1>5. Positions /\ ReadTwice
    BY <1>1 DEF Positions, Positioned, ReadTwice, ReadsAlike, VariantAt, OracleAt, SwappedAt,
       HoldsVariant
  <1>6. Clean
    <2>1. \A w \in Worker : CleanStart(w)
      BY <1>1 DEF CleanStart, VariantAt, OracleAt, SwappedAt, HoldsVariant
    <2>2. \A u \in Unit : CleanAt(u)
      BY OriginalIsBytes DEF Init, CleanAt, CleanVersion
    <2> QED BY <2>1, <2>2 DEF Clean
  <1>7. TestsTell
    <2>1. \A w \in Worker : Told(w)
      BY <1>1 DEF Told
    <2>2. BaselinesPass
      BY DEF BaselinesPass, Init, WorkersAssumption
    <2> QED BY <2>1, <2>2 DEF TestsTell
  <1>8. AcceptedPassedTests /\ ObjectMatchesKey
    BY DEF Init, AcceptedPassedTests, ObjectMatchesKey
  <1>9. WholeSources
    BY <1>1 DEF Init, WholeSources, Plain, Whole, PartOf, At
  <1> QED BY <1>2, <1>3, <1>4, <1>5, <1>6, <1>7, <1>8, <1>9 DEF WorkersInv

(* Rerun: after a run that ended, no source is under test; after one that  *)
(* was killed, nothing is claimed of the sources.                          *)
LEMMA RerunKeeps ==
    ASSUME WorkersAssumption, WorkersInv, Rerun
    PROVE  WorkersInv'
  <1>1. /\ UNCHANGED <<mode, objs, ccsrc, exes, applied, accepted, unrestored, fails>>
        /\ taken' = {} /\ job' = [w \in Worker |-> Idle]
        /\ runs < MaxRuns /\ runs' = runs + 1
    BY DEF Rerun, caches
  <1>2. \/ /\ \A w \in Worker : job[w] = Idle
           /\ baseline' = baseline /\ killed' = killed /\ cut' = cut
           /\ tree' \in {tree, Original}
        \/ /\ baseline' = [p \in Program |-> None] /\ killed' = TRUE /\ tree' = tree
           /\ cut' = cut \union {p \in Program : \E w \in Worker, k \in Kind :
                                               At(w, k, "write") /\ Prog(w, k) = p}
    BY DEF Rerun
  <1>3. JobTypes /\ DataTypes
    BY DEF WorkersInv
  <1>4. \A w \in Worker : job'[w].at = "idle"
    BY <1>1 DEF Idle
  <1>5. JobTypes'
    BY <1>1 DEF JobTypes
  <1>6. DataTypes'
    <2>1. runs' \in 1 .. MaxRuns
      BY <1>1, <1>3 DEF WorkersAssumption, DataTypes
    <2>2. tree' \in [Unit -> Bytes]
      BY <1>2, <1>3, OriginalIsBytes DEF DataTypes
    <2>3. baseline' \in [Program -> BOOLEAN \union {None}] /\ killed' \in BOOLEAN
      BY <1>2, <1>3 DEF DataTypes
    <2>4. cut' \subseteq Program
      BY <1>2, <1>3 DEF DataTypes
    <2> QED BY <1>1, <1>3, <2>1, <2>2, <2>3, <2>4 DEF DataTypes
  <1>7. Owners' /\ Lone'
    BY <1>4 DEF Owners, Lone, Busy
  <1>8. Positions' /\ ReadTwice'
    BY <1>4 DEF Positions, Positioned, ReadTwice, ReadsAlike, VariantAt, OracleAt, SwappedAt,
       HoldsVariant
  <1>9. Clean'
    <2> SUFFICES ASSUME ~killed' PROVE Clean'
      BY DEF Clean
    <2>1. \A w \in Worker : CleanStart(w)'
      BY <1>4 DEF CleanStart, VariantAt, OracleAt, SwappedAt, HoldsVariant
    <2>2. /\ \A w \in Worker : job[w].at = "idle"
          /\ tree' \in {tree, Original} /\ ~killed
      BY <1>2 DEF Idle
    <2>3. \A u \in Unit : CleanVersion(u, tree[u])
      BY <2>2 DEF WorkersInv, Clean, CleanAt, Swapped
    <2>4. \A u \in Unit : CleanVersion(u, tree'[u])
      BY <2>2, <2>3, OriginalIsBytes DEF CleanVersion
    <2> QED BY <1>1, <2>1, <2>4 DEF Clean, CleanAt, CleanVersion
  <1>10. TestsTell'
    <2>1. \A w \in Worker : Told(w)'
      BY <1>4 DEF Told
    <2>2. BaselinesPass'
      BY <1>1, <1>2 DEF WorkersInv, TestsTell, BaselinesPass, Sequential
    <2> QED BY <2>1, <2>2 DEF TestsTell
  <1>11. AcceptedPassedTests'
    BY <1>1, <1>2 DEF WorkersInv, AcceptedPassedTests
  <1>12. ObjectMatchesKey'
    BY <1>1, ObjectsKept DEF WorkersInv
  <1>13. WholeSources'
    <2> SUFFICES ASSUME ~mode.san
                 PROVE  /\ \A x \in Worker : Plain(x)' /\ Whole(x)'
                        /\ \A p \in Program : PartOf(p)'
      BY <1>1 DEF WholeSources
    <2>1. ASSUME NEW x \in Worker PROVE Plain(x)' /\ Whole(x)'
      BY <1>4 DEF Plain, Whole, At
    <2>2. ASSUME NEW p \in Program, ccsrc[p] = "part" PROVE p \in cut'
      <3>1. p \in cut \/ Writer(p)
        BY <2>2 DEF WorkersInv, WholeSources, PartOf
      <3>2. CASE Writer(p)
        <4>1. PICK x \in Worker, l \in Kind : At(x, l, "write") /\ Prog(x, l) = p
          BY <3>2 DEF Writer
        <4>2. job[x] # Idle
          BY <4>1 DEF At, Idle
        <4> QED BY <1>2, <4>1, <4>2
      <3> QED BY <1>2, <3>1, <3>2
    <2> QED BY <1>1, <2>1, <2>2 DEF PartOf
  <1> QED BY <1>5, <1>6, <1>7, <1>8, <1>9, <1>10, <1>11, <1>12,
         <1>13 DEF WorkersInv

(* A stutter.                                                              *)
LEMMA StutterKeeps ==
    ASSUME WorkersInv, UNCHANGED vars
    PROVE  WorkersInv'
  <1>1. UNCHANGED <<mode, tree, objs, ccsrc, exes, baseline, job, taken, applied, accepted,
                    unrestored, cut, runs, killed, fails>>
    BY DEF vars
  <1>2. JobTypes' /\ DataTypes' /\ Owners' /\ Lone'
    BY <1>1 DEF WorkersInv, JobTypes, DataTypes, Owners, Lone, Busy
  <1>3. Positions'
    BY <1>1 DEF WorkersInv, Positions, Positioned, Variant
  <1>4. Clean'
    BY <1>1 DEF WorkersInv, Clean, CleanStart, CleanAt, CleanVersion, Swapped
  <1>5. ReadTwice'
    BY <1>1 DEF WorkersInv, ReadTwice, ReadsAlike, Steady
  <1>6. TestsTell'
    BY <1>1 DEF WorkersInv, TestsTell, BaselinesPass, Told, Sequential
  <1>7. AcceptedPassedTests' /\ ObjectMatchesKey'
    BY <1>1, NothingAccepted, ObjectsKept DEF WorkersInv
  <1>8. WholeSources'
    BY <1>1 DEF WorkersInv, WholeSources, Plain, Whole, PartOf, Writer, At, Compiles, Prog
  <1> QED BY <1>2, <1>3, <1>4, <1>5, <1>6, <1>7, <1>8 DEF WorkersInv

(* The invariant holds in every state of every sequence of runs.           *)
THEOREM Invariance == Spec => []WorkersInv
  <1>1. Init => WorkersInv
    BY WorkersAssumption, InitHolds
  <1>2. WorkersInv /\ [Next]_vars => WorkersInv'
    <2> SUFFICES ASSUME WorkersInv, [Next]_vars PROVE WorkersInv'
      OBVIOUS
    <2>1. ASSUME NEW w \in Worker, NEW u \in Unit, Take(w, u) PROVE WorkersInv'
      BY <2>1, WorkersAssumption, TakeKeeps
    <2>2. ASSUME NEW w \in Worker, ReadSource(w) PROVE WorkersInv'
      BY <2>2, ReadSourceKeeps
    <2>3. ASSUME NEW w \in Worker, CompileObject(w) PROVE WorkersInv'
      BY <2>3, CompileObjectKeeps
    <2>4. ASSUME NEW w \in Worker, Propose(w) PROVE WorkersInv'
      BY <2>4, WorkersAssumption, ProposeKeeps
    <2>5. ASSUME NEW w \in Worker, NEW k \in Kind, LookUp(w, k) PROVE WorkersInv'
      BY <2>5, LookUpKeeps
    <2>17. ASSUME NEW w \in Worker, NEW k \in Kind, OpenSource(w, k) PROVE WorkersInv'
      BY <2>17, OpenSourceKeeps
    <2>6. ASSUME NEW w \in Worker, NEW k \in Kind, WriteSource(w, k) PROVE WorkersInv'
      BY <2>6, WorkersAssumption, WriteSourceKeeps
    <2>7. ASSUME NEW w \in Worker, NEW k \in Kind, Build(w, k) PROVE WorkersInv'
      BY <2>7, BuildKeeps
    <2>8. ASSUME NEW w \in Worker, Harness(w) PROVE WorkersInv'
      BY <2>8, HarnessKeeps
    <2>9. ASSUME NEW w \in Worker, Baseline(w) PROVE WorkersInv'
      BY <2>9, WorkersAssumption, BaselineKeeps
    <2>10. ASSUME NEW w \in Worker, Swap(w) PROVE WorkersInv'
      BY <2>10, WorkersAssumption, SwapKeeps
    <2>11. ASSUME NEW w \in Worker, Test(w) PROVE WorkersInv'
      BY <2>11, WorkersAssumption, TestKeeps
    <2>12. ASSUME NEW w \in Worker, Measure(w) PROVE WorkersInv'
      BY <2>12, MeasureKeeps
    <2>13. ASSUME NEW w \in Worker, Restore(w) PROVE WorkersInv'
      BY <2>13, WorkersAssumption, RestoreKeeps
    <2>14. ASSUME NEW w \in Worker, Apply(w) PROVE WorkersInv'
      BY <2>14, WorkersAssumption, ApplyKeeps
    <2>15. CASE Rerun
      BY <2>15, WorkersAssumption, RerunKeeps
    <2>16. CASE UNCHANGED vars
      BY <2>16, StutterKeeps
    <2> QED
      BY <2>1, <2>2, <2>3, <2>4, <2>5, <2>6, <2>7, <2>8, <2>9, <2>10, <2>11, <2>12, <2>13,
         <2>14, <2>15, <2>16, <2>17 DEF Next, WorkerStep
  <1> QED BY <1>1, <1>2, PTL DEF Spec

(* The tree, the caches and every worker's position have their types.      *)
THEOREM WorkersTypes == Spec => []WorkersTypeOK
  <1>1. WorkersInv => WorkersTypeOK
    <2> SUFFICES ASSUME WorkersInv PROVE WorkersTypeOK
      OBVIOUS
    <2>1. JobTypes /\ DataTypes
      BY DEF WorkersInv
    <2>2. \A w \in Worker : job[w].at \in {"idle", "archive", "object"} \cup VariantAt
      BY <2>1, Shape
    <2> QED BY <2>1, <2>2
        DEF WorkersTypeOK, DataTypes, VariantAt, OracleAt, SwappedAt, HoldsVariant
  <1> QED BY <1>1, Invariance, PTL

(* confirm() takes back every variant it swapped in (reuse.py:101): with   *)
(* any number of workers, units, versions and writes that fail, a source   *)
(* nobody is testing has the text of an original or an applied variant,    *)
(* unless it was the restoring write that failed.                          *)
THEOREM SwapsAreTakenBack == Spec => []TreeIsClean
  <1>1. WorkersInv => TreeIsClean
    BY DEF WorkersInv, Clean, CleanAt, CleanVersion, TreeIsClean
  <1> QED BY <1>1, Invariance, PTL

(* An object in the cache is of the bytes its key was made from            *)
(* (link.py:70), wherever nothing writes the tree while it is compiled.    *)
THEOREM ObjectsMatchKeys == Spec => []ObjectMatchesKey
  <1>1. WorkersInv => ObjectMatchesKey
    BY DEF WorkersInv
  <1> QED BY <1>1, Invariance, PTL

(* The shared path of a source (compile.py:90-97) is read by no build      *)
(* while another one writes it, however many workers and units there are,  *)
(* as long as the sanitizers build nothing (correctness.py:72): a unit has *)
(* one worker, and its two harnesses have two texts.                       *)
THEOREM NoHalfWrittenSource == Spec => []BuildsSeeWholeSources
  <1>1. WorkersInv => BuildsSeeWholeSources
    BY DEF WorkersInv, WholeSources, Whole, BuildsSeeWholeSources
  <1> QED BY <1>1, Invariance, PTL

(* With one worker and no kill, nothing that breaks the project's tests is *)
(* accepted (gate.py:91), in whatever order units and runs follow.         *)
THEOREM AcceptedSurvivesTests == Spec => []AcceptedPassedTests
  <1>1. WorkersInv => AcceptedPassedTests
    BY DEF WorkersInv
  <1> QED BY <1>1, Invariance, PTL
=============================================================================
