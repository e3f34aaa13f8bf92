-------------------------------- MODULE Rules --------------------------------
(***************************************************************************)
(* The rule proposer: which site of a C++ function each transform detects  *)
(* (adapters/language/cpp/regex_detect.py, analysis/detect.py), what it    *)
(* makes of it (transforms/), and which one is offered (proposer/rules.py).*)
(*                                                                         *)
(* A file is a sequence of functions, and overloads share a name; a        *)
(* function is what the detectors look at: its local containers in order,  *)
(* its `if (m.count(k))` statements, its parameters, and whether it has a  *)
(* counted loop.  Texts, offsets and types are left out.                   *)
(***************************************************************************)
EXTENDS Naturals, SequencesExt

CONSTANTS
    Sources,     \* the files
    Filters,     \* the values of --transforms: sets of rule names
    Key,         \* keys of a map
    Val,         \* values a map can hold; 0 is the default one
    None         \* an absent key, an iterator that may not be used

(* What the detectors look at.                                             *)
Local == [name : STRING, kind : {"vector", "string", "umap", "map", "list"},
          grow : {"never", "flat", "counted", "open"}, reserved : BOOLEAN, pinned : BOOLEAN]
Statement == [op : {"at", "index", "store", "erase", "assign"}, key : STRING]
Lookup == [cmp : {"", "<", ">", ">=", "!=", "=="}, num : Nat, key : STRING,
           then : Seq(Statement), fused : BOOLEAN]
CppFunction == [func : STRING, vars : Seq(Local), ifs : Seq(Lookup),
                params : Seq({"value", "ref"}), loop : BOOLEAN]

VARIABLES src, enabled
vars == <<src, enabled>>

(* transforms/__init__.py, ALL: in order of preference.                    *)
ALL == <<"reserve_before_pushback", "reserve_string", "reserve_unordered_map",
         "map_to_unordered_map", "list_to_vector", "fuse_map_lookup",
         "pass_by_const_ref">>

ASSUME RulesAssumption ==
    /\ Sources \subseteq Seq(CppFunction)
    /\ 0 \in Val /\ 1 \in Val
    /\ None \notin Val /\ None \notin Key /\ None \notin Range(ALL)

-----------------------------------------------------------------------------
(* Detection.  A container: its name and kind; where it grows (never, flat *)
(* outside loops, or in a loop that is counted or open, that is, whose     *)
(* trip count has no name); reserved or not; pinned by a list-only call.   *)

Grows(v, kind) == v.kind = kind /\ ~v.reserved /\ v.grow \in {"counted", "open"}

GrowthAst(f) == SelectInSeq(f.vars, LAMBDA v : Grows(v, "vector"))

(* An AST site counts even where its bound is unknown, and then there is   *)
(* nothing to reserve.                                                     *)
Bounded(f, x) == IF x # 0 /\ f.vars[x].grow = "counted" THEN x ELSE 0

(* As a bug would have it: a string that is reserved matches again.        *)
StringGrowthReserved(f) ==
    SelectInSeq(f.vars, LAMBDA v : v.kind = "string" /\ v.grow = "counted")

StringGrowth(f) == SelectInSeq(f.vars, LAMBDA v : Grows(v, "string"))
UmapGrowth(f) == SelectInSeq(f.vars, LAMBDA v : Grows(v, "umap") /\ v.grow = "counted")
MapSite(f) == SelectInSeq(f.vars, LAMBDA v : v.kind = "map")
ListSite(f) == SelectInSeq(f.vars, LAMBDA v : v.kind = "list" /\ v.grow # "never" /\ ~v.pinned)
ByVal(f) == SelectInSeq(f.params, LAMBDA p : p = "value")

(* As a bug would have it: an access by any key is one to fuse.            *)
AccessAnyKey(c, st) == st.op \in {"at", "index", "store"}

(* m.at(k), m[k] or m[k] = v, with the key that was counted.               *)
Access(c, st) == st.op \in {"at", "index", "store"} /\ st.key = c.key
FuseSite(f) ==
    SelectInSeq(f.ifs, LAMBDA c :
        /\ c.cmp \in {"", ">", ">=", "!=", "=="} /\ ~c.fused
        /\ \E k \in DOMAIN c.then : Access(c, c.then[k]))

(* What the detector of a rule reports of a function, and what of it the   *)
(* rule can act on.                                                        *)
Reported(f, rule) ==
    CASE rule = "reserve_before_pushback" -> GrowthAst(f)
      [] rule = "reserve_string"          -> StringGrowth(f)
      [] rule = "reserve_unordered_map"   -> UmapGrowth(f)
      [] rule = "map_to_unordered_map"    -> MapSite(f)
      [] rule = "list_to_vector"          -> ListSite(f)
      [] rule = "fuse_map_lookup"         -> FuseSite(f)
      [] rule = "pass_by_const_ref"       -> ByVal(f)
Usable(f, rule) ==
    IF rule \in {"reserve_before_pushback", "reserve_string"}
    THEN Bounded(f, Reported(f, rule)) ELSE Reported(f, rule)

(* A site: a function of the file and a place in it.                       *)
NoSite == <<0, 0>>

(* The site by regex: the first vector of the file, by its name alone.     *)
Named(s, n) == {v \in UNION {Range(s[i].vars) : i \in DOMAIN s} : v.name = n}
GrowthRegex(s) ==
    LET vec(f) == SelectInSeq(f.vars, LAMBDA v : v.kind = "vector")
        i == SelectInSeq(s, LAMBDA f : vec(f) # 0)
        v == s[i].vars[vec(s[i])]
    IN IF /\ i # 0
          /\ \A w \in Named(s, v.name) : ~w.reserved
          /\ \E w \in Named(s, v.name) : w.grow # "never"
          /\ \E j \in i .. Len(s) : s[j].loop
       THEN <<i, vec(s[i])>> ELSE NoSite

(* next(s for s in all_...(source) if s.func == func): of the functions of *)
(* a name, the first with something to report.                             *)
FirstOf(s, n, rule) == SelectInSeq(s, LAMBDA f : f.func = n /\ Reported(f, rule) # 0)
SiteOf(s, n, rule) ==
    LET i == FirstOf(s, n, rule) IN IF i = 0 THEN NoSite ELSE <<i, Usable(s[i], rule)>>

(* As a bug would have it: within a function there is no falling back.     *)
GrowthInAst(s, n) == SiteOf(s, n, "reserve_before_pushback")

(* detect_growth_in: the regex only where the AST reports nothing.         *)
GrowthIn(s, n) ==
    IF FirstOf(s, n, "reserve_before_pushback") # 0
    THEN SiteOf(s, n, "reserve_before_pushback")
    ELSE LET p == GrowthRegex(s) IN IF p # NoSite /\ s[p[1]].func = n THEN p ELSE NoSite

(* Transform.bind(n), then _site() and matches().                          *)
Site(s, n, rule) ==
    IF rule = "reserve_before_pushback" THEN GrowthIn(s, n) ELSE SiteOf(s, n, rule)
Matches(s, n, rule) == Site(s, n, rule)[2] # 0

(* The names a rule wants looked at: of any function it can act on; for    *)
(* vectors that of the regex, if the AST reports nothing in the whole file.*)
Candidates(s, rule) ==
    IF rule = "reserve_before_pushback" /\ \A j \in DOMAIN s : GrowthAst(s[j]) = 0
    THEN LET p == GrowthRegex(s) IN IF p = NoSite THEN {} ELSE {s[p[1]].func}
    ELSE {s[i].func : i \in {j \in DOMAIN s : Usable(s[j], rule) # 0}}

(* CppSensor.collect: those of all rules, whatever --transforms says.      *)
Selectable(s) == UNION {Candidates(s, rule) : rule \in Range(ALL)}

-----------------------------------------------------------------------------
(* Rewriting.                                                              *)

Reserve(f, x) == [f EXCEPT !.vars[x].reserved = TRUE]
MapToUnorderedMap(f, x) == [f EXCEPT !.vars[x].kind = "umap"]
ListToVector(f, x) == [f EXCEPT !.vars[x].kind = "vector"]
Fuse(c) == [c EXCEPT !.fused = TRUE]
PassByConstRef(f, x) == [f EXCEPT !.params[x] = "ref"]

Rewrite(s, n, rule) ==
    LET p == Site(s, n, rule) x == p[2] IN
    [s EXCEPT ![p[1]] =
        CASE rule = "map_to_unordered_map" -> MapToUnorderedMap(@, x)
          [] rule = "list_to_vector"       -> ListToVector(@, x)
          [] rule = "fuse_map_lookup"      -> [@ EXCEPT !.ifs[x] = Fuse(@)]
          [] rule = "pass_by_const_ref"    -> PassByConstRef(@, x)
          [] OTHER                         -> Reserve(@, x)]

(* RuleProposer.propose: the first enabled rule that matches.              *)
Propose(s, n, on) ==
    LET x == SelectInSeq(ALL, LAMBDA r : r \in on /\ Matches(s, n, r))
    IN IF x = 0 THEN None ELSE ALL[x]

(* One `boostopt optimize --apply --model rules`, as long as the gate      *)
(* accepts what it is offered.                                             *)
Optimize(n) ==
    /\ \E rule \in {Propose(src, n, enabled)} \ {None} : src' = Rewrite(src, n, rule)
    /\ UNCHANGED enabled

Init == src \in Sources /\ enabled \in Filters
Names == {src[i].func : i \in DOMAIN src}
Next == \E n \in Names : Optimize(n)
Spec == Init /\ [][Next]_vars /\ WF_vars(Next)

-----------------------------------------------------------------------------
(* What the C++ of an `if` does to a map, as the reference: the map after  *)
(* it, what was read, and how it ended.  `env` is the key each name stands *)
(* for, `it` the key the iterator of the fused form is at.  Where the map  *)
(* is `hashed` (std::unordered_map), a key that is put in may rehash it,   *)
(* and then the iterator may not be used.                                  *)

Holds(c, n) ==
    CASE c.cmp = ""   -> n # 0
      [] c.cmp = ">"  -> n > c.num
      [] c.cmp = ">=" -> n >= c.num
      [] c.cmp = "!=" -> n # c.num
      [] c.cmp = "==" -> n = c.num

Exec(c, st, a, hashed) ==
    LET via == c.fused /\ Access(c, a)
        key == IF via THEN st.it ELSE st.env[a.key]
        val == st.map[key]
        put(v) == [st EXCEPT !.map[key] = v, !.it = IF hashed /\ val = None THEN None ELSE @]
        read(s, v) == [s EXCEPT !.out = Append(@, v)]
    IN IF st.end # "ok" THEN st
       ELSE IF via /\ st.it = None THEN [st EXCEPT !.end = "undefined"]
       ELSE CASE a.op = "erase"  -> [st EXCEPT !.map[key] = None,
                                               !.it = IF @ = key THEN None ELSE @]
              [] a.op = "assign" -> [st EXCEPT !.env[c.key] = key]
              [] a.op = "store"  -> put(1)
              [] a.op = "at"     -> IF val = None THEN [st EXCEPT !.end = "throws"]
                                                  ELSE read(st, val)
              [] a.op = "index"  -> IF val = None THEN read(put(0), 0) ELSE read(st, val)

(* The branch, statement by statement.                                     *)
Branch(c, st, hashed) ==
    LET run[n \in 0 .. Len(c.then)] ==
          IF n = 0 THEN st ELSE Exec(c, run[n - 1], c.then[n], hashed)
    IN run

Outcome(c, map, env, hashed) ==
    LET key == env[c.key]
        st == [map |-> map, out |-> <<>>, end |-> "ok", env |-> env,
               it |-> IF map[key] = None THEN None ELSE key]
        taken == IF c.fused THEN map[key] # None
                 ELSE Holds(c, IF map[key] = None THEN 0 ELSE 1)
        end == IF taken THEN Branch(c, st, hashed)[Len(c.then)] ELSE st
    IN [map |-> end.map, out |-> end.out, end |-> end.end, taken |-> taken]

(* Fusing c changes nothing, for any map, whatever keys the names are.     *)
SameOutcome(c, hashed) ==
    \A m \in [Key -> Val \union {None}],
       env \in [{c.key} \union {a.key : a \in Range(c.then)} -> Key] :
          Outcome(Fuse(c), m, env, hashed) = Outcome(c, m, env, hashed)

(* The lookups the rule would fuse.                                        *)
Fusible ==
    {src[i].ifs[FuseSite(src[i])] : i \in {j \in DOMAIN src : FuseSite(src[j]) # 0}}

(* A condition that asks whether the key is there.                         *)
TestsPresence(c) == Holds(c, 1) /\ ~Holds(c, 0)

(* What takes the iterator, or the name, away from the key.                *)
Disturbs(c, a, hashed) ==
    \/ a.op \in {"erase", "assign"}
    \/ hashed /\ a.op \in {"index", "store"} /\ a.key # c.key
Before(c, A(_)) == \E j, k \in DOMAIN c.then : j < k /\ A(c.then[j]) /\ Access(c, c.then[k])

(* One find() does what count() and at() did, for every map and every key  *)
(* the names may stand for, if the condition asks for the key and, before  *)
(* the last access, nothing is erased, the key's name is not assigned and, *)
(* in a std::unordered_map, nothing is written by another name.  Then the  *)
(* branch may still write the key itself, another key of a std::map, and,  *)
(* after the last access, anything (fuse_map_lookup.py).                   *)
FusedSame ==
    \A c \in Fusible : TestsPresence(c) =>
        \A hashed \in BOOLEAN :
            ~Before(c, LAMBDA a : Disturbs(c, a, hashed)) => SameOutcome(c, hashed)

(* The contract of fuse_map_lookup.py:24-29, to the letter: "the map is    *)
(* not mutated between the count() and the at()/[] on the same key" gives  *)
(* "output-equivalent".  It does not: the detector lets `count(k) == 0`    *)
(* through, and a branch that assigns k before it uses m[k].               *)
Mutates(a) == a.op \in {"erase", "index", "store"}
ContractSuffices ==
    \A c \in Fusible :
        ~Before(c, Mutates) => \A hashed \in BOOLEAN : SameOutcome(c, hashed)

(* The first function of the name that grows something has no bound, and   *)
(* a later one has.                                                        *)
Masked(s, n) ==
    \E rule \in {"reserve_before_pushback", "reserve_string"} :
        /\ FirstOf(s, n, rule) # 0 /\ SiteOf(s, n, rule)[2] = 0
        /\ \E j \in DOMAIN s : s[j].func = n /\ Usable(s[j], rule) # 0

(* A name the sensor can select has a rule to offer: the loop takes        *)
(* "nothing proposed" for the end of the file (orchestrator.py:196) and    *)
(* leaves every other function alone.  Without --transforms this holds,    *)
(* although candidates are found per file and proposals per name, but for  *)
(* an overload that masks another.                                         *)
CandidatesGetProposals ==
    enabled = Range(ALL) =>
        \A n \in Selectable(src) : ~Masked(src, n) => Propose(src, n, enabled) # None

(* "Function names in `source` this transform can act on"                  *)
(* (transforms/base.py:39): a transform that names a function matches when *)
(* it is bound to the name.  An overload whose loop has no bound, before   *)
(* one whose loop has, is found first and hides it (detect.py:159).        *)
CandidatesCanBeActedOn ==
    \A rule \in Range(ALL) : \A n \in Candidates(src, rule) : Matches(src, n, rule)

(* "an already-applied file simply won't match()" (proposer/rules.py:32):  *)
(* no rule undoes or repeats another, so runs that are repeated, with any  *)
(* --transforms and a gate that accepts everything, come to an end.        *)
Settles == <>[](\A n \in Names : Propose(src, n, enabled) = None)
=============================================================================
