------------------------------ MODULE RulesProofs ------------------------------
(***************************************************************************)
(* For files of any functions: what a lookup and its fused form do to any  *)
(* map, the rule that every function the sensor selects has to offer, and  *)
(* that each rule's step leaves less to do.                                *)
(***************************************************************************)
EXTENDS Rules, Integers, WellFoundedInduction, SequenceTheorems,
        FiniteSetTheorems, TLAPS

-----------------------------------------------------------------------------
(* Induction over the natural numbers, in the form of a set.               *)
Below == {r \in Nat \X Nat : r[1] < r[2]}

LEMMA BelowFounded == IsWellFoundedOn(Below, Nat)
  BY NatLessThanWellFounded DEF Below, OpToRel

LEMMA Smallest ==
    ASSUME NEW T, T \subseteq Nat, T # {}
    PROVE  \E m \in T : \A n \in T : m <= n
  <1>1. PICK m \in T : \A n \in T : <<n, m>> \notin Below
    BY BelowFounded, WFMin
  <1>2. ASSUME NEW n \in T PROVE m <= n
    <2>1. <<n, m>> \in Nat \X Nat /\ m \in Nat /\ n \in Nat
      OBVIOUS
    <2>2. ~(n < m)
      BY <1>1, <2>1 DEF Below
    <2> QED BY <2>1, <2>2
  <1> QED BY <1>1, <1>2

LEMMA Induction ==
    ASSUME NEW T, T \subseteq Nat, 0 \in T, \A n \in T : n + 1 \in T
    PROVE  T = Nat
  <1>1. CASE Nat \ T # {}
    <2>1. PICK m \in Nat \ T : \A n \in Nat \ T : m <= n
      BY <1>1, Smallest
    <2>2. m - 1 \in Nat /\ m - 1 \notin Nat \ T
      BY <2>1
    <2>3. (m - 1) + 1 \in T
      BY <2>2
    <2> QED BY <2>1, <2>3
  <1> QED BY <1>1

(* The smallest of a set is in it.                                         *)
LEMMA MinIsIn ==
    ASSUME NEW I, I \subseteq Nat, I # {}
    PROVE  Min(I) \in I
  BY Smallest DEF Min

-----------------------------------------------------------------------------
(* A branch is run statement by statement.                                 *)
LEMMA BranchSteps ==
    ASSUME NEW c, NEW st, NEW hashed, Len(c.then) \in Nat
    PROVE  Branch(c, st, hashed) = [n \in 0 .. Len(c.then) |->
              IF n = 0 THEN st ELSE Exec(c, Branch(c, st, hashed)[n - 1], c.then[n], hashed)]
  <1> DEFINE Good(n) == \E g : g = [i \in 0 .. n |->
                           IF i = 0 THEN st ELSE Exec(c, g[i - 1], c.then[i], hashed)]
             T == {n \in Nat : Good(n)}
  <1>1. Good(0)
    <2> DEFINE h == [i \in 0 .. 0 |-> st]
    <2>1. \A i \in 0 .. 0 : i = 0
      OBVIOUS
    <2>2. h = [i \in 0 .. 0 |-> IF i = 0 THEN st ELSE Exec(c, h[i - 1], c.then[i], hashed)]
      BY <2>1
    <2> QED BY <2>2
  <1>2. ASSUME NEW n \in Nat, Good(n) PROVE Good(n + 1)
    <2>1. PICK g : g = [i \in 0 .. n |-> IF i = 0 THEN st ELSE Exec(c, g[i - 1], c.then[i], hashed)]
      BY <1>2
    <2> DEFINE h == [i \in 0 .. n + 1 |-> IF i = n + 1 THEN Exec(c, g[n], c.then[n + 1], hashed) ELSE g[i]]
    <2>2. ASSUME NEW i \in 0 .. n + 1
          PROVE  h[i] = IF i = 0 THEN st ELSE Exec(c, h[i - 1], c.then[i], hashed)
      <3>1. CASE i = n + 1
        <4>1. h[n] = g[n] /\ i - 1 = n /\ i # 0
          BY <3>1
        <4>2. h[i] = Exec(c, g[n], c.then[n + 1], hashed)
          BY <3>1
        <4> QED BY <3>1, <4>1, <4>2
      <3>2. CASE i # n + 1
        <4>1. i \in 0 .. n /\ (i # 0 => i - 1 \in 0 .. n)
          BY <3>2
        <4>2. h[i] = g[i] /\ (i # 0 => h[i - 1] = g[i - 1])
          BY <4>1
        <4>3. g[i] = IF i = 0 THEN st ELSE Exec(c, g[i - 1], c.then[i], hashed)
          BY <2>1, <4>1
        <4> QED BY <4>2, <4>3
      <3> QED BY <3>1, <3>2
    <2>3. h = [i \in 0 .. n + 1 |-> IF i = 0 THEN st ELSE Exec(c, h[i - 1], c.then[i], hashed)]
      BY <2>2
    <2> QED BY <2>3
  <1>3. T = Nat
    <2>1. ASSUME NEW n \in T PROVE n + 1 \in T
      <3>1. n \in Nat /\ Good(n)
        OBVIOUS
      <3>2. Good(n + 1)
        BY <3>1, <1>2
      <3> HIDE DEF Good
      <3> QED BY <3>1, <3>2
    <2>2. 0 \in T
      <3> HIDE DEF Good
      <3> QED BY <1>1
    <2>3. T \subseteq Nat
      OBVIOUS
    <2> HIDE DEF T
    <2> QED BY <2>1, <2>2, <2>3, Induction
  <1>4. Good(Len(c.then))
    BY <1>3
  <1> QED BY <1>4 DEF Branch

(* The state a branch runs in, over the names T, and the iterator at the   *)
(* key that was counted.                                                   *)
Running(T) == [map : [Key -> Val \union {None}], out : Seq(Val), env : [T -> Key],
               end : {"ok", "throws", "undefined"}, it : Key \union {None}]
AtKey(c, x) == x.it # None /\ x.it = x.env[c.key] /\ x.map[x.it] # None

(* One statement of the branch: the fused form does what the unfused one   *)
(* does, as long as the iterator is at the key.                            *)
LEMMA FusedStep ==
    ASSUME NEW c \in Lookup, NEW x, NEW a \in Statement, NEW hashed, ~c.fused,
           AtKey(c, x) \/ ~Access(c, a)
    PROVE  Exec(Fuse(c), x, a, hashed) = Exec(c, x, a, hashed)
  <1> PICK d : d = Fuse(c)
    OBVIOUS
  <1>1. d.fused /\ d.key = c.key
    BY DEF Fuse, Lookup
  <1>2. Access(d, a) <=> Access(c, a)
    BY <1>1 DEF Access
  <1>3. CASE ~Access(c, a)
    <2>1. ~(c.fused /\ Access(c, a)) /\ ~(d.fused /\ Access(d, a))
      BY <1>2, <1>3
    <2>2. CASE a.op = "erase"
      BY <1>1, <2>1, <2>2 DEF Exec
    <2>3. CASE a.op = "assign"
      BY <1>1, <2>1, <2>3 DEF Exec
    <2>4. CASE a.op \in {"store", "at", "index"}
      BY <1>1, <2>1, <2>4 DEF Exec
    <2> QED BY <2>2, <2>3, <2>4 DEF Statement
  <1>4. CASE Access(c, a)
    <2>1. x.it # None /\ x.it = x.env[a.key]
      BY <1>4 DEF Access, AtKey
    <2>2. a.op \in {"at", "index", "store"}
      BY <1>4 DEF Access
    <2>3. ~(c.fused /\ Access(c, a)) /\ (d.fused /\ Access(d, a))
      BY <1>1, <1>2, <1>4
    <2> QED BY <2>1, <2>2, <2>3 DEF Exec
  <1> QED BY <1>3, <1>4

(* What does not disturb it leaves the iterator at the key: no other key   *)
(* is put into a map that is hashed, and the key is there.                 *)
LEMMA IteratorKept ==
    ASSUME NEW T, NEW c \in Lookup, c.key \in T, ~c.fused, NEW x \in Running(T), AtKey(c, x),
           NEW a \in Statement, a.key \in T, NEW hashed, ~Disturbs(c, a, hashed)
    PROVE  Exec(c, x, a, hashed) \in Running(T) /\ AtKey(c, Exec(c, x, a, hashed))
  <1> DEFINE key == x.env[a.key]
             val == x.map[key]
             put(v) == [x EXCEPT !.map[key] = v, !.it = IF hashed /\ val = None THEN None ELSE @]
             read(s, v) == [s EXCEPT !.out = Append(@, v)]
  <1>1. /\ x.map \in [Key -> Val \union {None}] /\ x.out \in Seq(Val) /\ x.env \in [T -> Key]
        /\ x.end \in {"ok", "throws", "undefined"} /\ x.it \in Key \union {None}
    BY DEF Running
  <1>2. key \in Key /\ val \in Val \union {None} /\ x.it \in Key
    BY <1>1 DEF AtKey
  <1>3. a.op \in {"at", "index", "store"}
    BY DEF Statement, Disturbs
  <1>4. a.op \in {"index", "store"} /\ val = None => ~hashed /\ key # x.it
    <2>1. SUFFICES ASSUME a.op \in {"index", "store"}, val = None
                   PROVE  ~hashed /\ key # x.it
      OBVIOUS
    <2>2. key # x.it
      BY <2>1 DEF AtKey
    <2>3. a.key # c.key
      BY <2>2 DEF AtKey
    <2> QED BY <2>1, <2>2, <2>3 DEF Disturbs
  <1>5. ASSUME NEW v \in Val, ~(hashed /\ val = None)
        PROVE  put(v) \in Running(T) /\ AtKey(c, put(v)) /\ put(v).out = x.out
    <2>1. put(v) = [x EXCEPT !.map = [x.map EXCEPT ![key] = v]]
      BY <1>5 DEF Running
    <2>2. [x.map EXCEPT ![key] = v] \in [Key -> Val \union {None}]
      BY <1>1
    <2>3. v # None
      BY RulesAssumption
    <2>4. [x.map EXCEPT ![key] = v][x.it] # None
      BY <1>1, <1>2, <2>3 DEF AtKey
    <2> QED BY <2>1, <2>2, <2>4 DEF Running, AtKey
  <1>6. ASSUME NEW s \in Running(T), AtKey(c, s), NEW v \in Val
        PROVE  read(s, v) \in Running(T) /\ AtKey(c, read(s, v))
    <2>1. Append(s.out, v) \in Seq(Val)
      BY <1>6 DEF Running
    <2>2. read(s, v) = [s EXCEPT !.out = Append(s.out, v)]
      OBVIOUS
    <2> QED BY <1>6, <2>1, <2>2 DEF Running, AtKey
  <1>7. 0 \in Val /\ 1 \in Val
    BY RulesAssumption
  <1> PICK y : y = Exec(c, x, a, hashed)
    OBVIOUS
  <1> SUFFICES y \in Running(T) /\ AtKey(c, y)
    OBVIOUS
  <1>8. IF x.end # "ok" THEN y = x
        ELSE CASE a.op = "store" -> y = put(1)
               [] a.op = "at"    -> y = IF val = None THEN [x EXCEPT !.end = "throws"] ELSE read(x, val)
               [] a.op = "index" -> y = IF val = None THEN read(put(0), 0) ELSE read(x, val)
    BY <1>3 DEF Exec
  <1>9. CASE x.end # "ok"
    <2>1. y = x
      BY <1>8, <1>9
    <2> QED BY <2>1
  <1>10. CASE x.end = "ok" /\ a.op = "store"
    <2>1. y = put(1)
      BY <1>8, <1>10
    <2> HIDE DEF put
    <2> QED BY <1>4, <1>5, <1>7, <1>10, <2>1
  <1>11. CASE x.end = "ok" /\ a.op = "at" /\ val = None
    <2>1. y = [x EXCEPT !.end = "throws"]
      BY <1>8, <1>11
    <2> QED BY <2>1 DEF Running, AtKey
  <1>12. CASE x.end = "ok" /\ a.op = "index" /\ val = None
    <2>1. y = read(put(0), 0)
      BY <1>8, <1>12
    <2> HIDE DEF put, read
    <2> QED BY <1>4, <1>5, <1>6, <1>7, <1>12, <2>1
  <1>13. CASE x.end = "ok" /\ a.op \in {"at", "index"} /\ val # None
    <2>1. y = read(x, val)
      BY <1>8, <1>13
    <2>2. val \in Val
      BY <1>2, <1>13
    <2> HIDE DEF read, val
    <2> QED BY <1>6, <2>1, <2>2
  <1> QED BY <1>3, <1>9, <1>10, <1>11, <1>12, <1>13

(* The names a lookup uses.                                                *)
Tokens(c) == {c.key} \union {a.key : a \in Range(c.then)}

(* A branch that uses the key only before it is disturbed runs alike.      *)
LEMMA FusedBranch ==
    ASSUME NEW c \in Lookup, ~c.fused, NEW hashed, NEW st \in Running(Tokens(c)), AtKey(c, st),
           \A j, k \in DOMAIN c.then :
              j < k /\ Disturbs(c, c.then[j], hashed) => ~Access(c, c.then[k])
    PROVE  Branch(Fuse(c), st, hashed)[Len(c.then)] = Branch(c, st, hashed)[Len(c.then)]
  <1> DEFINE d == Fuse(c)
             F == Branch(d, st, hashed)
             G == Branch(c, st, hashed)
             Quiet(n) == \A j \in 1 .. n : ~Disturbs(c, c.then[j], hashed)
             Alike(n) == /\ F[n] = G[n]
                         /\ Quiet(n) => G[n] \in Running(Tokens(c)) /\ AtKey(c, G[n])
             T == {n \in Nat : n <= Len(c.then) => Alike(n)}
  <1>1. /\ d.then = c.then /\ c.then \in Seq(Statement)
        /\ Len(c.then) \in Nat /\ DOMAIN c.then = 1 .. Len(c.then)
        /\ "fused" \in DOMAIN c
    <2>1. c.then \in Seq(Statement) /\ "fused" \in DOMAIN c
      BY DEF Lookup
    <2>2. d.then = c.then
      BY <2>1 DEF Fuse
    <2> HIDE DEF d
    <2> QED BY <2>1, <2>2
  <1>2. F = [n \in 0 .. Len(c.then) |->
               IF n = 0 THEN st ELSE Exec(d, F[n - 1], c.then[n], hashed)]
    <2> HIDE DEF d
    <2> QED BY <1>1, BranchSteps
  <1>3. G = [n \in 0 .. Len(c.then) |->
               IF n = 0 THEN st ELSE Exec(c, G[n - 1], c.then[n], hashed)]
    BY <1>1, BranchSteps
  <1> HIDE DEF F, G
  <1>4. Alike(0)
    BY <1>1, <1>2, <1>3
  <1>5. ASSUME NEW n \in Nat, n + 1 <= Len(c.then), Alike(n) PROVE Alike(n + 1)
    <2> DEFINE x == G[n]
               a == c.then[n + 1]
    <2>1. n + 1 \in 0 .. Len(c.then) /\ (n + 1) - 1 = n /\ n + 1 # 0 /\ n + 1 \in DOMAIN c.then
      BY <1>1, <1>5
    <2>2. G[n + 1] = Exec(c, x, a, hashed)
      BY <1>3, <2>1
    <2>3. F[n + 1] = Exec(d, x, a, hashed)
      BY <1>2, <1>5, <2>1
    <2>4. AtKey(c, x) \/ ~Access(c, a)
      <3>1. CASE Quiet(n)
        BY <1>5, <3>1
      <3>2. CASE ~Quiet(n)
        <4>1. PICK j \in 1 .. n : Disturbs(c, c.then[j], hashed)
          BY <3>2
        <4>2. j \in DOMAIN c.then /\ j < n + 1
          BY <2>1, <1>1
        <4> QED BY <4>1, <4>2, <2>1
      <3> QED BY <3>1, <3>2
    <2>7. a \in Statement
      BY <1>1, <2>1, ElementOfSeq
    <2>5. F[n + 1] = G[n + 1]
      <3> HIDE DEF x, a
      <3>1. Exec(Fuse(c), x, a, hashed) = Exec(c, x, a, hashed)
        BY <2>4, <2>7, FusedStep
      <3> QED BY <2>2, <2>3, <3>1
    <2>6. Quiet(n + 1) => G[n + 1] \in Running(Tokens(c)) /\ AtKey(c, G[n + 1])
      <3>1. SUFFICES ASSUME Quiet(n + 1)
                     PROVE  G[n + 1] \in Running(Tokens(c)) /\ AtKey(c, G[n + 1])
        OBVIOUS
      <3>2. ~Disturbs(c, a, hashed)
        <4>1. n + 1 \in 1 .. n + 1
          OBVIOUS
        <4> QED BY <3>1, <4>1
      <3>3. x \in Running(Tokens(c)) /\ AtKey(c, x)
        <4>1. \A j \in 1 .. n : j \in 1 .. n + 1
          OBVIOUS
        <4> QED BY <1>5, <3>1, <4>1
      <3>4. a \in Statement
        BY <1>1, <2>1, ElementOfSeq
      <3>5. c.key \in Tokens(c) /\ a.key \in Tokens(c)
        <4>1. a \in Range(c.then)
          BY <2>1, Zenon DEF Range
        <4> QED BY <4>1, Zenon DEF Tokens
      <3> HIDE DEF x, a
      <3> QED BY <2>2, <3>2, <3>3, <3>4, <3>5, IteratorKept
    <2> QED BY <2>5, <2>6
  <1>6. T = Nat
    <2> HIDE DEF Alike
    <2>1. 0 \in T
      BY <1>4
    <2>2. ASSUME NEW n \in T PROVE n + 1 \in T
      <3>1. n \in Nat /\ (n + 1 <= Len(c.then) => n <= Len(c.then))
        BY <1>1
      <3> QED BY <1>5, <3>1
    <2>3. T \subseteq Nat
      OBVIOUS
    <2> HIDE DEF T
    <2> QED BY <2>1, <2>2, <2>3, Induction
  <1>7. Alike(Len(c.then))
    <2> HIDE DEF Alike
    <2>1. Len(c.then) \in T
      BY <1>6, <1>1
    <2> QED BY <2>1, <1>1
  <1> QED BY <1>7 DEF F, G

(* Where the condition asks for the key, both forms take the same branch.  *)
LEMMA FusedOutcome ==
    ASSUME NEW c \in Lookup, c.cmp \in {"", ">", ">=", "!=", "=="}, ~c.fused,
           TestsPresence(c), NEW hashed,
           \A j, k \in DOMAIN c.then :
              j < k /\ Disturbs(c, c.then[j], hashed) => ~Access(c, c.then[k]),
           NEW m \in [Key -> Val \union {None}], NEW env \in [Tokens(c) -> Key]
    PROVE  Outcome(Fuse(c), m, env, hashed) = Outcome(c, m, env, hashed)
  <1> DEFINE d == Fuse(c)
             key == env[c.key]
             st == [map |-> m, out |-> <<>>, end |-> "ok", env |-> env,
                    it |-> IF m[key] = None THEN None ELSE key]
             ended(end, taken) ==
               [map |-> end.map, out |-> end.out, end |-> end.end, taken |-> taken]
  <1>1. d.fused /\ d.key = c.key /\ d.then = c.then
    BY DEF Fuse, Lookup
  <1>2. Holds(c, 0) = FALSE /\ Holds(c, 1) = TRUE
    <2>1. Holds(c, 0) \in BOOLEAN /\ Holds(c, 1) \in BOOLEAN
      <3>1. c.num \in Nat
        BY DEF Lookup
      <3>2. CASE c.cmp = ""
        BY <3>2 DEF Holds
      <3>3. CASE c.cmp = ">"
        BY <3>1, <3>3 DEF Holds
      <3>4. CASE c.cmp = ">="
        BY <3>1, <3>4 DEF Holds
      <3>5. CASE c.cmp = "!="
        BY <3>5 DEF Holds
      <3>6. CASE c.cmp = "=="
        BY <3>6 DEF Holds
      <3> QED BY <3>2, <3>3, <3>4, <3>5, <3>6
    <2> QED BY <2>1 DEF TestsPresence
  <1>3. CASE m[key] = None
    <2>1. Outcome(d, m, env, hashed) = ended(st, FALSE)
      BY <1>1, <1>3 DEF Outcome
    <2>2. Outcome(c, m, env, hashed) = ended(st, FALSE)
      BY <1>2, <1>3 DEF Outcome
    <2> HIDE DEF st
    <2> QED BY <2>1, <2>2
  <1>4. CASE m[key] # None
    <2>1. Branch(d, st, hashed)[Len(c.then)] = Branch(c, st, hashed)[Len(c.then)]
      <3>1. key \in Key /\ key # None
        BY RulesAssumption DEF Tokens
      <3>2. <<>> \in Seq(Val)
        BY EmptySeq
      <3>3. st \in Running(Tokens(c)) /\ AtKey(c, st)
        BY <1>4, <3>1, <3>2 DEF Running, AtKey
      <3> HIDE DEF st
      <3> QED BY <3>3, FusedBranch
    <2>2. Outcome(d, m, env, hashed) = ended(Branch(d, st, hashed)[Len(c.then)], TRUE)
      BY <1>1, <1>4 DEF Outcome
    <2>3. Outcome(c, m, env, hashed) = ended(Branch(c, st, hashed)[Len(c.then)], TRUE)
      BY <1>2, <1>4 DEF Outcome
    <2> HIDE DEF st
    <2> QED BY <2>1, <2>2, <2>3
  <1> QED BY <1>3, <1>4

-----------------------------------------------------------------------------
LEMMA At ==
    ASSUME NEW S, NEW s \in Seq(S), NEW x \in DOMAIN s
    PROVE  s[x] \in S
  BY ElementOfSeq

(* A site is a place in its list, and what is there is what is detected.   *)
LEMMA Chosen ==
    ASSUME NEW n \in Nat, NEW I, I \subseteq 1 .. n, (IF I # {} THEN Min(I) ELSE 0) # 0
    PROVE  (IF I # {} THEN Min(I) ELSE 0) \in I
  <1>1. I \subseteq Nat
    OBVIOUS
  <1> QED BY <1>1, MinIsIn

LEMMA Lists ==
    ASSUME NEW f \in CppFunction
    PROVE  /\ f.vars \in Seq(Local) /\ f.ifs \in Seq(Lookup) /\ f.params \in Seq({"value", "ref"})
           /\ Len(f.vars) \in Nat /\ Len(f.ifs) \in Nat /\ Len(f.params) \in Nat
           /\ DOMAIN f.vars = 1 .. Len(f.vars)
           /\ DOMAIN f.ifs = 1 .. Len(f.ifs)
           /\ DOMAIN f.params = 1 .. Len(f.params)
  <1>1. f.vars \in Seq(Local) /\ f.ifs \in Seq(Lookup) /\ f.params \in Seq({"value", "ref"})
    BY DEF CppFunction
  <1>2. ASSUME NEW S, NEW s \in Seq(S) PROVE Len(s) \in Nat /\ DOMAIN s = 1 .. Len(s)
    OBVIOUS
  <1> QED BY <1>1, <1>2

LEMMA FuseSiteIs ==
    ASSUME NEW f \in CppFunction, FuseSite(f) # 0
    PROVE  /\ FuseSite(f) \in DOMAIN f.ifs
           /\ ~f.ifs[FuseSite(f)].fused
           /\ f.ifs[FuseSite(f)].cmp \in {"", ">", ">=", "!=", "=="}
  <1> DEFINE I == {i \in 1 .. Len(f.ifs) : 
                     /\ f.ifs[i].cmp \in {"", ">", ">=", "!=", "=="} /\ ~f.ifs[i].fused
                     /\ \E k \in DOMAIN f.ifs[i].then : Access(f.ifs[i], f.ifs[i].then[k])}
  <1>1. I \subseteq 1 .. Len(f.ifs)
    BY Zenon
  <1>2. FuseSite(f) = IF I # {} THEN Min(I) ELSE 0
    BY DEF FuseSite, SelectInSeq
  <1>3. FuseSite(f) \in I
    <2> HIDE DEF I
    <2> QED BY <1>1, <1>2, Chosen, Lists
  <1>4. DOMAIN f.ifs = 1 .. Len(f.ifs)
    BY Lists
  <1> QED BY <1>3, <1>4

LEMMA MapSiteIs ==
    ASSUME NEW f \in CppFunction, MapSite(f) # 0
    PROVE  /\ MapSite(f) \in DOMAIN f.vars
           /\ f.vars[MapSite(f)].kind = "map"
  <1> DEFINE I == {i \in 1 .. Len(f.vars) : f.vars[i].kind = "map"}
  <1>1. I \subseteq 1 .. Len(f.vars)
    BY Zenon
  <1>2. MapSite(f) = IF I # {} THEN Min(I) ELSE 0
    BY DEF MapSite, SelectInSeq
  <1>3. MapSite(f) \in I
    <2> HIDE DEF I
    <2> QED BY <1>1, <1>2, Chosen, Lists
  <1>4. DOMAIN f.vars = 1 .. Len(f.vars)
    BY Lists
  <1> QED BY <1>3, <1>4

LEMMA ListSiteIs ==
    ASSUME NEW f \in CppFunction, ListSite(f) # 0
    PROVE  /\ ListSite(f) \in DOMAIN f.vars
           /\ f.vars[ListSite(f)].kind = "list"
  <1> DEFINE I == {i \in 1 .. Len(f.vars) : 
                     f.vars[i].kind = "list" /\ f.vars[i].grow # "never" /\ ~f.vars[i].pinned}
  <1>1. I \subseteq 1 .. Len(f.vars)
    BY Zenon
  <1>2. ListSite(f) = IF I # {} THEN Min(I) ELSE 0
    BY DEF ListSite, SelectInSeq
  <1>3. ListSite(f) \in I
    <2> HIDE DEF I
    <2> QED BY <1>1, <1>2, Chosen, Lists
  <1>4. DOMAIN f.vars = 1 .. Len(f.vars)
    BY Lists
  <1> QED BY <1>3, <1>4

LEMMA ByValIs ==
    ASSUME NEW f \in CppFunction, ByVal(f) # 0
    PROVE  /\ ByVal(f) \in DOMAIN f.params
           /\ f.params[ByVal(f)] = "value"
  <1> DEFINE I == {i \in 1 .. Len(f.params) : f.params[i] = "value"}
  <1>1. I \subseteq 1 .. Len(f.params)
    BY Zenon
  <1>2. ByVal(f) = IF I # {} THEN Min(I) ELSE 0
    BY DEF ByVal, SelectInSeq
  <1>3. ByVal(f) \in I
    <2> HIDE DEF I
    <2> QED BY <1>1, <1>2, Chosen, Lists
  <1>4. DOMAIN f.params = 1 .. Len(f.params)
    BY Lists
  <1> QED BY <1>3, <1>4

LEMMA UmapGrowthIs ==
    ASSUME NEW f \in CppFunction, UmapGrowth(f) # 0
    PROVE  /\ UmapGrowth(f) \in DOMAIN f.vars
           /\ ~f.vars[UmapGrowth(f)].reserved
  <1> DEFINE I == {i \in 1 .. Len(f.vars) : Grows(f.vars[i], "umap") /\ f.vars[i].grow = "counted"}
  <1>1. I \subseteq 1 .. Len(f.vars)
    BY Zenon
  <1>2. UmapGrowth(f) = IF I # {} THEN Min(I) ELSE 0
    BY DEF UmapGrowth, SelectInSeq
  <1>3. UmapGrowth(f) \in I
    <2> HIDE DEF I
    <2> QED BY <1>1, <1>2, Chosen, Lists
  <1>4. DOMAIN f.vars = 1 .. Len(f.vars)
    BY Lists
  <1> QED BY <1>3, <1>4 DEF Grows

LEMMA GrowthAstIs ==
    ASSUME NEW f \in CppFunction, GrowthAst(f) # 0
    PROVE  /\ GrowthAst(f) \in DOMAIN f.vars
           /\ ~f.vars[GrowthAst(f)].reserved
  <1> DEFINE I == {i \in 1 .. Len(f.vars) : Grows(f.vars[i], "vector")}
  <1>1. I \subseteq 1 .. Len(f.vars)
    BY Zenon
  <1>2. GrowthAst(f) = IF I # {} THEN Min(I) ELSE 0
    BY DEF GrowthAst, SelectInSeq
  <1>3. GrowthAst(f) \in I
    <2> HIDE DEF I
    <2> QED BY <1>1, <1>2, Chosen, Lists
  <1>4. DOMAIN f.vars = 1 .. Len(f.vars)
    BY Lists
  <1> QED BY <1>3, <1>4 DEF Grows

LEMMA StringGrowthIs ==
    ASSUME NEW f \in CppFunction, StringGrowth(f) # 0
    PROVE  /\ StringGrowth(f) \in DOMAIN f.vars
           /\ ~f.vars[StringGrowth(f)].reserved
  <1> DEFINE I == {i \in 1 .. Len(f.vars) : Grows(f.vars[i], "string")}
  <1>1. I \subseteq 1 .. Len(f.vars)
    BY Zenon
  <1>2. StringGrowth(f) = IF I # {} THEN Min(I) ELSE 0
    BY DEF StringGrowth, SelectInSeq
  <1>3. StringGrowth(f) \in I
    <2> HIDE DEF I
    <2> QED BY <1>1, <1>2, Chosen, Lists
  <1>4. DOMAIN f.vars = 1 .. Len(f.vars)
    BY Lists
  <1> QED BY <1>3, <1>4 DEF Grows

(* The vector the regex finds is the first of the first function with one; *)
(* it is matched by its name, and only if no container of that name is     *)
(* reserved.                                                               *)
LEMMA GrowthRegexIs ==
    ASSUME NEW s \in Seq(CppFunction), NEW p, p = GrowthRegex(s), p # NoSite
    PROVE  /\ p[1] \in DOMAIN s /\ p[2] \in DOMAIN s[p[1]].vars
           /\ ~s[p[1]].vars[p[2]].reserved
  <1> DEFINE V(f) == {k \in 1 .. Len(f.vars) : f.vars[k].kind = "vector"}
             vec(f) == IF V(f) # {} THEN Min(V(f)) ELSE 0
             I == {k \in 1 .. Len(s) : vec(s[k]) # 0}
             i == IF I # {} THEN Min(I) ELSE 0
             v == s[i].vars[vec(s[i])]
  <1>1. p = <<i, vec(s[i])>> /\ i # 0 /\ \A w \in Named(s, v.name) : ~w.reserved
    BY DEF GrowthRegex, SelectInSeq
  <1>2. Len(s) \in Nat /\ DOMAIN s = 1 .. Len(s)
    OBVIOUS
  <1>3. i \in I
    <2>1. I \subseteq 1 .. Len(s)
      BY Zenon
    <2> HIDE DEF I
    <2> QED BY <1>1, <1>2, <2>1, Chosen
  <1>4. i \in DOMAIN s /\ vec(s[i]) # 0
    <2> HIDE DEF i, vec
    <2> QED BY <1>2, <1>3
  <1>5. s[i] \in CppFunction
    BY <1>4, At
  <1>6. vec(s[i]) \in DOMAIN s[i].vars
    <2>1. PICK f : f = s[i]
      OBVIOUS
    <2>2. V(f) \subseteq 1 .. Len(f.vars)
      BY Zenon
    <2>3. vec(f) # 0
      BY <1>4, <2>1
    <2>4. Len(f.vars) \in Nat /\ DOMAIN f.vars = 1 .. Len(f.vars)
      BY <1>5, <2>1, Lists
    <2>5. vec(f) \in V(f)
      <3> HIDE DEF V
      <3> QED BY <2>2, <2>3, <2>4, Chosen
    <2>6. vec(f) \in DOMAIN f.vars
      <3> HIDE DEF vec, V
      <3> QED BY <2>2, <2>4, <2>5
    <2> HIDE DEF vec, i
    <2> QED BY <2>1, <2>6
  <1> HIDE DEF i, vec
  <1>7. v \in Named(s, v.name)
    <2>1. v \in Range(s[i].vars)
      BY <1>6, Zenon DEF Range
    <2> QED BY <1>4, <2>1, Zenon DEF Named
  <1> QED BY <1>1, <1>4, <1>6, <1>7

(* The first function of a name with something to report is one.           *)
LEMMA FirstOfIs ==
    ASSUME NEW s \in Seq(CppFunction), NEW n, NEW rule
    PROVE  /\ FirstOf(s, n, rule) # 0 =>
                /\ FirstOf(s, n, rule) \in DOMAIN s
                /\ Reported(s[FirstOf(s, n, rule)], rule) # 0
           /\ \A j \in DOMAIN s : s[j].func = n /\ Reported(s[j], rule) # 0 =>
                FirstOf(s, n, rule) # 0
  <1> DEFINE I == {k \in 1 .. Len(s) : s[k].func = n /\ Reported(s[k], rule) # 0}
  <1>1. FirstOf(s, n, rule) = IF I # {} THEN Min(I) ELSE 0
    BY DEF FirstOf, SelectInSeq
  <1>2. Len(s) \in Nat /\ DOMAIN s = 1 .. Len(s)
    OBVIOUS
  <1>3. I \subseteq 1 .. Len(s)
    BY Zenon
  <1>4. \A k \in I : Reported(s[k], rule) # 0
    BY Zenon
  <1>5. \A j \in 1 .. Len(s) : s[j].func = n /\ Reported(s[j], rule) # 0 => j \in I
    BY Zenon
  <1> HIDE DEF I
  <1>6. FirstOf(s, n, rule) # 0 => FirstOf(s, n, rule) \in I
    BY <1>1, <1>2, <1>3, Chosen
  <1>7. I # {} => FirstOf(s, n, rule) # 0
    <2>1. I \subseteq Nat /\ 0 \notin I
      BY <1>3
    <2> QED BY <1>1, <2>1, MinIsIn
  <1> QED BY <1>2, <1>3, <1>4, <1>5, <1>6, <1>7

(* What a rule can act on is what it reports.                              *)
LEMMA UsableIsReported ==
    ASSUME NEW f, NEW rule, Usable(f, rule) # 0
    PROVE  Usable(f, rule) = Reported(f, rule)
  BY DEF Usable, Bounded

-----------------------------------------------------------------------------
(* A step rewrites one function of the file, in place.                     *)
After(f, rule, x) ==
    CASE rule = "map_to_unordered_map" -> MapToUnorderedMap(f, x)
      [] rule = "list_to_vector"       -> ListToVector(f, x)
      [] rule = "fuse_map_lookup"      -> [f EXCEPT !.ifs[x] = Fuse(@)]
      [] rule = "pass_by_const_ref"    -> PassByConstRef(f, x)
      [] OTHER                         -> Reserve(f, x)

LEMMA RewriteIsAfter ==
    ASSUME NEW s, NEW n, NEW rule, NEW p, p = Site(s, n, rule)
    PROVE  Rewrite(s, n, rule) = [s EXCEPT ![p[1]] = After(s[p[1]], rule, p[2])]
  BY DEF Rewrite, After

(* What a step leaves of a list where nothing is at the place.             *)
LEMMA PutTyped ==
    ASSUME NEW S, NEW s \in Seq(S), NEW x, NEW v, x \in DOMAIN s => v \in S
    PROVE  /\ [s EXCEPT ![x] = v] \in Seq(S)
           /\ DOMAIN [s EXCEPT ![x] = v] = DOMAIN s
  <1>1. CASE x \in DOMAIN s
    BY <1>1, ExceptSeq
  <1>2. CASE x \notin DOMAIN s
    <2>1. [s EXCEPT ![x] = v] = s
      BY <1>2
    <2> QED BY <2>1
  <1> QED BY <1>1, <1>2

LEMMA AfterTyped ==
    ASSUME NEW f \in CppFunction, NEW rule, NEW x
    PROVE  After(f, rule, x) \in CppFunction
  <1> DEFINE Put(s, v) == [s EXCEPT ![x] = v]
             v == f.vars[x]
             c == f.ifs[x]
  <1>1. f.vars \in Seq(Local) /\ f.ifs \in Seq(Lookup) /\ f.params \in Seq({"value", "ref"})
    BY DEF CppFunction
  <1>2. /\ x \in DOMAIN f.vars => v \in Local
        /\ x \in DOMAIN f.ifs => c \in Lookup
    BY <1>1, ElementOfSeq
  <1>3. ASSUME NEW w, v \in Local => w \in Local
        PROVE  [f EXCEPT !.vars = Put(f.vars, w)] \in CppFunction
    <2>1. Put(f.vars, w) \in Seq(Local)
      BY <1>1, <1>2, <1>3, PutTyped
    <2> HIDE DEF Put
    <2> QED BY <2>1 DEF CppFunction
  <1>4. MapToUnorderedMap(f, x) \in CppFunction
    <2>1. v \in Local => [v EXCEPT !.kind = "umap"] \in Local
      BY DEF Local
    <2>2. MapToUnorderedMap(f, x) = [f EXCEPT !.vars = Put(f.vars, [v EXCEPT !.kind = "umap"])]
      BY DEF MapToUnorderedMap
    <2> HIDE DEF Put
    <2> QED BY <2>1, <2>2, <1>3
  <1>5. ListToVector(f, x) \in CppFunction
    <2>1. v \in Local => [v EXCEPT !.kind = "vector"] \in Local
      BY DEF Local
    <2>2. ListToVector(f, x) = [f EXCEPT !.vars = Put(f.vars, [v EXCEPT !.kind = "vector"])]
      BY DEF ListToVector
    <2> HIDE DEF Put
    <2> QED BY <2>1, <2>2, <1>3
  <1>6. Reserve(f, x) \in CppFunction
    <2>1. v \in Local => [v EXCEPT !.reserved = TRUE] \in Local
      BY DEF Local
    <2>2. Reserve(f, x) = [f EXCEPT !.vars = Put(f.vars, [v EXCEPT !.reserved = TRUE])]
      BY DEF Reserve
    <2> HIDE DEF Put
    <2> QED BY <2>1, <2>2, <1>3
  <1>7. [f EXCEPT !.ifs[x] = Fuse(@)] \in CppFunction
    <2>1. c \in Lookup => Fuse(c) \in Lookup
      BY DEF Fuse, Lookup
    <2>2. Put(f.ifs, Fuse(c)) \in Seq(Lookup)
      BY <1>1, <1>2, <2>1, PutTyped
    <2>3. [f EXCEPT !.ifs[x] = Fuse(@)] = [f EXCEPT !.ifs = Put(f.ifs, Fuse(c))]
      OBVIOUS
    <2> HIDE DEF Put
    <2> QED BY <2>2, <2>3 DEF CppFunction
  <1>8. PassByConstRef(f, x) \in CppFunction
    <2>1. Put(f.params, "ref") \in Seq({"value", "ref"})
      BY <1>1, PutTyped
    <2>2. PassByConstRef(f, x) = [f EXCEPT !.params = Put(f.params, "ref")]
      BY DEF PassByConstRef
    <2> HIDE DEF Put
    <2> QED BY <2>1, <2>2 DEF CppFunction
  <1> QED BY <1>4, <1>5, <1>6, <1>7, <1>8 DEF After

(* A file stays a sequence of functions.                                   *)
Files == src \in Seq(CppFunction)

LEMMA FilesInvariant == Spec => []Files
  <1>1. Init => Files
    BY RulesAssumption DEF Init, Files
  <1>2. Files /\ [Next]_vars => Files'
    <2>1. SUFFICES ASSUME Files, [Next]_vars PROVE Files'
      OBVIOUS
    <2>2. CASE Next
      <3>1. PICK n \in Names : Optimize(n)
        BY <2>2 DEF Next
      <3>2. PICK rule : src' = Rewrite(src, n, rule)
        BY <3>1 DEF Optimize
      <3>3. PICK p : p = Site(src, n, rule)
        OBVIOUS
      <3>4. src' = [src EXCEPT ![p[1]] = After(src[p[1]], rule, p[2])]
        BY <3>2, <3>3, RewriteIsAfter
      <3>5. p[1] \in DOMAIN src => After(src[p[1]], rule, p[2]) \in CppFunction
        <4>1. SUFFICES ASSUME p[1] \in DOMAIN src
                       PROVE  After(src[p[1]], rule, p[2]) \in CppFunction
          OBVIOUS
        <4>2. src[p[1]] \in CppFunction
          BY <2>1, <4>1, ElementOfSeq DEF Files
        <4> QED BY <4>2, AfterTyped
      <3> QED BY <2>1, <3>4, <3>5, PutTyped DEF Files
    <2>3. CASE UNCHANGED vars
      BY <2>1, <2>3 DEF Files, vars
    <2> QED BY <2>1, <2>2, <2>3
  <1> QED BY <1>1, <1>2, PTL DEF Spec

(* For files of any functions, any map and whatever keys the names stand   *)
(* for: one find() does what count() and at() did, wherever                *)
(* fuse_map_lookup finds a condition that asks for the key and nothing     *)
(* erases, assigns or rehashes before its last access.                     *)
THEOREM FusingIsEquivalent == Spec => []FusedSame
  <1>1. Files => FusedSame
    <2>1. SUFFICES ASSUME Files, NEW c \in Fusible, TestsPresence(c), NEW hashed \in BOOLEAN,
                          ~Before(c, LAMBDA a : Disturbs(c, a, hashed))
                   PROVE  SameOutcome(c, hashed)
      BY DEF FusedSame
    <2>2. PICK i \in DOMAIN src : FuseSite(src[i]) # 0 /\ c = src[i].ifs[FuseSite(src[i])]
      BY <2>1 DEF Fusible
    <2>3. src[i] \in CppFunction /\ src[i].ifs \in Seq(Lookup)
      <3>1. src[i] \in CppFunction
        BY <2>1, <2>2, At DEF Files
      <3> QED BY <3>1, Lists
    <2>4. /\ FuseSite(src[i]) \in DOMAIN src[i].ifs
          /\ ~c.fused /\ c.cmp \in {"", ">", ">=", "!=", "=="}
      BY <2>2, <2>3, FuseSiteIs
    <2>5. c \in Lookup
      BY <2>2, <2>3, <2>4, At
    <2>6. \A j, k \in DOMAIN c.then :
             j < k /\ Disturbs(c, c.then[j], hashed) => ~Access(c, c.then[k])
      BY <2>1 DEF Before
    <2>7. ASSUME NEW m \in [Key -> Val \union {None}], NEW env \in [Tokens(c) -> Key]
          PROVE  Outcome(Fuse(c), m, env, hashed) = Outcome(c, m, env, hashed)
      BY <2>1, <2>4, <2>5, <2>6, <2>7, FusedOutcome
    <2> QED BY <2>7 DEF SameOutcome, Tokens
  <1> QED BY <1>1, FilesInvariant, PTL

-----------------------------------------------------------------------------
(* What is proposed is a rule that is enabled and has a site; and if there *)
(* is one, something is proposed.                                          *)
LEMMA Proposes ==
    ASSUME NEW s, NEW n, NEW on
    PROVE  /\ \A r \in Range(ALL) \cap on : Matches(s, n, r) => Propose(s, n, on) # None
           /\ Propose(s, n, on) # None =>
                /\ Propose(s, n, on) \in Range(ALL) \cap on
                /\ Matches(s, n, Propose(s, n, on))
  <1> DEFINE I == {k \in 1 .. Len(ALL) : ALL[k] \in on /\ Matches(s, n, ALL[k])}
  <1>1. Propose(s, n, on) = LET x == IF I # {} THEN Min(I) ELSE 0
                            IN IF x = 0 THEN None ELSE ALL[x]
    BY DEF Propose, SelectInSeq
  <1>2. I \subseteq 1 .. Len(ALL) /\ 1 .. Len(ALL) \subseteq Nat /\ 0 \notin 1 .. Len(ALL)
    <2>1. I \subseteq 1 .. Len(ALL)
      BY Zenon
    <2>2. 1 .. Len(ALL) \subseteq Nat /\ 0 \notin 1 .. Len(ALL)
      OBVIOUS
    <2> QED BY <2>1, <2>2
  <1>3. DOMAIN ALL = 1 .. Len(ALL)
    BY DEF ALL
  <1>4. \A r \in Range(ALL) : \E k \in 1 .. Len(ALL) : ALL[k] = r
    BY <1>3, Zenon DEF Range
  <1>5. \A k \in 1 .. Len(ALL) : ALL[k] \in Range(ALL)
    BY <1>3, Zenon DEF Range
  <1>6. None \notin Range(ALL)
    BY RulesAssumption
  <1>7. I # {} => Min(I) \in I
    <2> HIDE DEF I
    <2> QED BY <1>2, MinIsIn
  <1>8. \A k \in I : ALL[k] \in on /\ Matches(s, n, ALL[k])
    BY Zenon
  <1>9. \A k \in 1 .. Len(ALL) : ALL[k] \in on /\ Matches(s, n, ALL[k]) => k \in I
    BY Zenon
  <1> HIDE DEF I
  <1>10. CASE I = {}
    <2>1. Propose(s, n, on) = None
      BY <1>1, <1>10
    <2> QED BY <1>4, <1>9, <1>10, <2>1
  <1>11. CASE I # {}
    <2>1. Min(I) \in I /\ Min(I) \in 1 .. Len(ALL) /\ Min(I) # 0
      BY <1>2, <1>7, <1>11
    <2>2. Propose(s, n, on) = ALL[Min(I)]
      BY <1>1, <1>11, <2>1
    <2> QED BY <1>5, <1>6, <1>8, <2>1, <2>2
  <1> QED BY <1>10, <1>11

(* Whatever the file, a name the sensor can select has a rule to offer,    *)
(* without --transforms and but for an overload that masks another: the    *)
(* two looks at the file agree (detect_all_growth, detect_growth_in in     *)
(* regex_detect.py; all_growth, growth_in_ast in detect.py).               *)
THEOREM CandidatesAreOffered == Spec => []CandidatesGetProposals
  <1>1. Files => CandidatesGetProposals
    <2>1. SUFFICES ASSUME Files, enabled = Range(ALL), NEW n \in Selectable(src),
                          ~Masked(src, n)
                   PROVE  Propose(src, n, enabled) # None
      BY DEF CandidatesGetProposals
    <2>2. PICK rule \in Range(ALL) : n \in Candidates(src, rule)
      BY <2>1 DEF Selectable
    <2>3. src \in Seq(CppFunction)
      BY <2>1 DEF Files
    <2> DEFINE growth == "reserve_before_pushback"
    <2>4. ASSUME NEW f PROVE Reported(f, growth) = GrowthAst(f)
      BY DEF Reported
    <2>5. Matches(src, n, rule)
      <3>1. CASE rule = growth /\ \A j \in DOMAIN src : GrowthAst(src[j]) = 0
        <4>1. PICK p : p = GrowthRegex(src) /\ p # NoSite /\ n = src[p[1]].func
          BY <2>2, <3>1 DEF Candidates
        <4>2. FirstOf(src, n, growth) = 0
          BY <2>3, <2>4, <3>1, FirstOfIs
        <4>3. Site(src, n, rule) = p
          BY <3>1, <4>1, <4>2 DEF Site, GrowthIn
        <4>4. p[2] \in DOMAIN src[p[1]].vars /\ src[p[1]] \in CppFunction
          <5>1. p[1] \in DOMAIN src /\ p[2] \in DOMAIN src[p[1]].vars
            BY <2>3, <4>1, GrowthRegexIs
          <5> QED BY <2>3, <5>1, At
        <4>5. p[2] # 0
          BY <4>4, Lists
        <4> QED BY <4>3, <4>5 DEF Matches
      <3>2. CASE ~(rule = growth /\ \A j \in DOMAIN src : GrowthAst(src[j]) = 0)
        <4>1. PICK j \in DOMAIN src : src[j].func = n /\ Usable(src[j], rule) # 0
          BY <2>2, <3>2 DEF Candidates
        <4>2. Reported(src[j], rule) # 0
          BY <4>1, UsableIsReported
        <4>3. PICK i : i = FirstOf(src, n, rule)
          OBVIOUS
        <4>4. i # 0 /\ Reported(src[i], rule) # 0
          BY <2>3, <4>1, <4>2, <4>3, FirstOfIs
        <4>5. Site(src, n, rule) = SiteOf(src, n, rule)
          BY <4>3, <4>4 DEF Site, GrowthIn
        <4>6. SiteOf(src, n, rule) = <<i, Usable(src[i], rule)>>
          BY <4>3, <4>4 DEF SiteOf
        <4>7. CASE rule \in {growth, "reserve_string"}
          <5>1. SiteOf(src, n, rule)[2] # 0
            BY <2>1, <4>1, <4>3, <4>4, <4>7 DEF Masked
          <5> QED BY <4>5, <5>1 DEF Matches
        <4>8. CASE rule \notin {growth, "reserve_string"}
          <5>1. Usable(src[i], rule) = Reported(src[i], rule)
            BY <4>8 DEF Usable
          <5> QED BY <4>4, <4>5, <4>6, <5>1 DEF Matches
        <4> QED BY <4>7, <4>8
      <3> QED BY <3>1, <3>2
    <2> QED BY <2>1, <2>2, <2>5, Proposes
  <1> QED BY <1>1, FilesInvariant, PTL

-----------------------------------------------------------------------------
(* What is left for the rules: the maps, the lists and the containers that *)
(* are not reserved, the lookups that are not fused, and the parameters    *)
(* that are passed by value.                                               *)
Kinds == {"map", "list", "growth", "lookup", "value"}
Open(f, kind, x) ==
    \/ kind = "map"    /\ x \in DOMAIN f.vars   /\ f.vars[x].kind = "map"
    \/ kind = "list"   /\ x \in DOMAIN f.vars   /\ f.vars[x].kind = "list"
    \/ kind = "growth" /\ x \in DOMAIN f.vars   /\ ~f.vars[x].reserved
    \/ kind = "lookup" /\ x \in DOMAIN f.ifs    /\ ~f.ifs[x].fused
    \/ kind = "value"  /\ x \in DOMAIN f.params /\ f.params[x] = "value"
Todo(s) == {t \in (DOMAIN s) \X (Kinds \X Nat) : Open(s[t[1]], t[2][1], t[2][2])}
Left == Cardinality(Todo(src))

(* What a rule is for.                                                     *)
For(rule) ==
    CASE rule = "map_to_unordered_map" -> "map"
      [] rule = "list_to_vector"       -> "list"
      [] rule = "fuse_map_lookup"      -> "lookup"
      [] rule = "pass_by_const_ref"    -> "value"
      [] OTHER                         -> "growth"

(* Every rule detects what is still open, whichever way it looks.          *)
LEMMA ReportedIsOpen ==
    ASSUME NEW f \in CppFunction, NEW rule \in Range(ALL), Reported(f, rule) # 0
    PROVE  Reported(f, rule) \in Nat /\ Open(f, For(rule), Reported(f, rule))
  <1> DEFINE x == Reported(f, rule)
  <1>2. rule \in {"reserve_before_pushback", "reserve_string", "reserve_unordered_map",
                   "map_to_unordered_map", "list_to_vector", "fuse_map_lookup",
                   "pass_by_const_ref"}
    BY DEF Range, ALL
  <1>3. /\ DOMAIN f.vars \subseteq Nat /\ DOMAIN f.ifs \subseteq Nat
        /\ DOMAIN f.params \subseteq Nat
    BY Lists
  <1>4. CASE rule = "reserve_before_pushback"
    <2>1. x = GrowthAst(f)
      BY <1>4 DEF Reported
    <2>2. x \in DOMAIN f.vars /\ ~f.vars[x].reserved
      BY <2>1, GrowthAstIs
    <2> QED BY <1>3, <1>4, <2>2 DEF For, Open
  <1>5. CASE rule = "reserve_string"
    <2>1. x = StringGrowth(f)
      BY <1>5 DEF Reported
    <2>2. x \in DOMAIN f.vars /\ ~f.vars[x].reserved
      BY <2>1, StringGrowthIs
    <2> QED BY <1>3, <1>5, <2>2 DEF For, Open
  <1>6. CASE rule = "reserve_unordered_map"
    <2>1. x = UmapGrowth(f)
      BY <1>6 DEF Reported
    <2>2. x \in DOMAIN f.vars /\ ~f.vars[x].reserved
      BY <2>1, UmapGrowthIs
    <2> QED BY <1>3, <1>6, <2>2 DEF For, Open
  <1>7. CASE rule = "map_to_unordered_map"
    <2>1. x = MapSite(f)
      BY <1>7 DEF Reported
    <2>2. x \in DOMAIN f.vars /\ f.vars[x].kind = "map"
      BY <2>1, MapSiteIs
    <2> QED BY <1>3, <1>7, <2>2 DEF For, Open
  <1>8. CASE rule = "list_to_vector"
    <2>1. x = ListSite(f)
      BY <1>8 DEF Reported
    <2>2. x \in DOMAIN f.vars /\ f.vars[x].kind = "list"
      BY <2>1, ListSiteIs
    <2> QED BY <1>3, <1>8, <2>2 DEF For, Open
  <1>9. CASE rule = "fuse_map_lookup"
    <2>1. x = FuseSite(f)
      BY <1>9 DEF Reported
    <2>2. x \in DOMAIN f.ifs /\ ~f.ifs[x].fused
      BY <2>1, FuseSiteIs
    <2> QED BY <1>3, <1>9, <2>2 DEF For, Open
  <1>10. CASE rule = "pass_by_const_ref"
    <2>1. x = ByVal(f)
      BY <1>10 DEF Reported
    <2>2. x \in DOMAIN f.params /\ f.params[x] = "value"
      BY <2>1, ByValIs
    <2> QED BY <1>3, <1>10, <2>2 DEF For, Open
  <1> QED BY <1>2, <1>4, <1>5, <1>6, <1>7, <1>8, <1>9, <1>10

LEMMA SiteIsOpen ==
    ASSUME NEW s \in Seq(CppFunction), NEW n, NEW rule \in Range(ALL), Matches(s, n, rule)
    PROVE  LET p == Site(s, n, rule) IN
           p[1] \in DOMAIN s /\ p[2] \in Nat /\ Open(s[p[1]], For(rule), p[2])
  <1>1. PICK p : p = Site(s, n, rule)
    OBVIOUS
  <1>2. p[2] # 0
    BY <1>1 DEF Matches
  <1> SUFFICES p[1] \in DOMAIN s /\ p[2] \in Nat /\ Open(s[p[1]], For(rule), p[2])
    BY <1>1
  <1>3. CASE FirstOf(s, n, rule) # 0
    <2>1. PICK i : i = FirstOf(s, n, rule)
      OBVIOUS
    <2>2. p = <<i, Usable(s[i], rule)>>
      BY <1>1, <1>3, <2>1 DEF Site, GrowthIn, SiteOf
    <2>3. i \in DOMAIN s /\ s[i] \in CppFunction
      BY <1>3, <2>1, FirstOfIs, At
    <2>4. Usable(s[i], rule) # 0 /\ Usable(s[i], rule) = Reported(s[i], rule)
      BY <1>2, <2>2, UsableIsReported
    <2> QED BY <2>2, <2>3, <2>4, ReportedIsOpen
  <1>4. CASE FirstOf(s, n, rule) = 0
    <2>1. rule = "reserve_before_pushback" /\ p = GrowthRegex(s) /\ p # NoSite
      BY <1>1, <1>2, <1>4 DEF Site, GrowthIn, SiteOf, NoSite
    <2>2. /\ p[1] \in DOMAIN s /\ p[2] \in DOMAIN s[p[1]].vars
          /\ ~s[p[1]].vars[p[2]].reserved
      BY <2>1, GrowthRegexIs
    <2>3. s[p[1]] \in CppFunction
      BY <2>2, At
    <2>4. p[2] \in Nat
      BY <2>2, <2>3, Lists
    <2> QED BY <2>1, <2>2, <2>4 DEF For, Open
  <1> QED BY <1>3, <1>4

(* What a rule rewrites is done, and nothing that was done is opened.      *)
LEMMA AfterIsDone ==
    ASSUME NEW f \in CppFunction, NEW rule \in Range(ALL), NEW x, Open(f, For(rule), x)
    PROVE  /\ ~Open(After(f, rule, x), For(rule), x)
           /\ \A kind \in Kinds, y \in Nat :
                Open(After(f, rule, x), kind, y) => Open(f, kind, y)
  <1> DEFINE g == After(f, rule, x)
  <1> SUFFICES /\ ~Open(g, For(rule), x)
               /\ \A kind \in Kinds, y \in Nat : Open(g, kind, y) => Open(f, kind, y)
    OBVIOUS
  <1>1. rule \in {"reserve_before_pushback", "reserve_string", "reserve_unordered_map",
                   "map_to_unordered_map", "list_to_vector", "fuse_map_lookup",
                   "pass_by_const_ref"}
    BY DEF Range, ALL
  <1>2. /\ f.vars \in Seq(Local) /\ f.ifs \in Seq(Lookup) /\ f.params \in Seq({"value", "ref"})
        /\ \A y \in DOMAIN f.vars : f.vars[y] \in Local
        /\ \A y \in DOMAIN f.ifs : f.ifs[y] \in Lookup
    BY Lists, At
  <1>3. CASE rule = "map_to_unordered_map"
    <2>1. g = MapToUnorderedMap(f, x)
      BY <1>3 DEF After
    <2>2. /\ DOMAIN g.vars = DOMAIN f.vars /\ g.ifs = f.ifs /\ g.params = f.params
          /\ \A y \in DOMAIN f.vars :
                g.vars[y] = IF y = x THEN [f.vars[x] EXCEPT !.kind = "umap"] ELSE f.vars[y]
      BY <1>2, <2>1 DEF MapToUnorderedMap, CppFunction
    <2>3. \A y \in DOMAIN f.vars :
             /\ g.vars[y].kind = IF y = x THEN "umap" ELSE f.vars[y].kind
             /\ g.vars[y].reserved = f.vars[y].reserved
      BY <1>2, <2>2 DEF Local
    <2>4. For(rule) = "map"
      BY <1>3 DEF For
    <2> HIDE DEF g
    <2> QED BY <2>2, <2>3, <2>4 DEF Open
  <1>4. CASE rule = "list_to_vector"
    <2>1. g = ListToVector(f, x)
      BY <1>4 DEF After
    <2>2. /\ DOMAIN g.vars = DOMAIN f.vars /\ g.ifs = f.ifs /\ g.params = f.params
          /\ \A y \in DOMAIN f.vars :
                g.vars[y] = IF y = x THEN [f.vars[x] EXCEPT !.kind = "vector"] ELSE f.vars[y]
      BY <1>2, <2>1 DEF ListToVector, CppFunction
    <2>3. \A y \in DOMAIN f.vars :
             /\ g.vars[y].kind = IF y = x THEN "vector" ELSE f.vars[y].kind
             /\ g.vars[y].reserved = f.vars[y].reserved
      BY <1>2, <2>2 DEF Local
    <2>4. For(rule) = "list"
      BY <1>4 DEF For
    <2> HIDE DEF g
    <2> QED BY <2>2, <2>3, <2>4 DEF Open
  <1>5. CASE rule = "fuse_map_lookup"
    BY <1>2, <1>5 DEF After, For, Open, Fuse, Lookup, CppFunction
  <1>6. CASE rule = "pass_by_const_ref"
    BY <1>2, <1>6 DEF After, For, Open, PassByConstRef, CppFunction
  <1>7. CASE rule \in {"reserve_before_pushback", "reserve_string", "reserve_unordered_map"}
    BY <1>2, <1>7 DEF After, For, Open, Reserve, Local, CppFunction
  <1> QED BY <1>1, <1>3, <1>4, <1>5, <1>6, <1>7

LEMMA TodoIsFinite ==
    ASSUME NEW s \in Seq(CppFunction)
    PROVE  IsFiniteSet(Todo(s))
  <1> DEFINE Places(f) == DOMAIN f.vars \union (DOMAIN f.ifs \union DOMAIN f.params)
             P == {Places(s[i]) : i \in DOMAIN s}
             place == [i \in DOMAIN s |-> Places(s[i])]
  <1>1. ASSUME NEW n \in Nat PROVE IsFiniteSet(1 .. n)
    BY FS_Interval
  <1>2. ASSUME NEW f \in CppFunction PROVE IsFiniteSet(Places(f))
    <2>1. /\ IsFiniteSet(DOMAIN f.vars) /\ IsFiniteSet(DOMAIN f.ifs)
          /\ IsFiniteSet(DOMAIN f.params)
      BY <1>1, Lists
    <2> QED BY <2>1, FS_Union
  <1>3. IsFiniteSet(DOMAIN s)
    <2>1. DOMAIN s = 1 .. Len(s) /\ Len(s) \in Nat
      OBVIOUS
    <2> QED BY <1>1, <2>1
  <1>4. \A i \in DOMAIN s : s[i] \in CppFunction
    BY At
  <1> HIDE DEF Places
  <1>5. IsFiniteSet(UNION P)
    <2>1. \A T \in P : IsFiniteSet(T)
      BY <1>2, <1>4
    <2>2. place \in Surjection(DOMAIN s, P)
      BY DEF Surjection
    <2>3. IsFiniteSet(P)
      BY <1>3, <2>2, FS_Surjection
    <2> HIDE DEF P
    <2> QED BY <2>1, <2>3, FS_UNION
  <1>6. IsFiniteSet(Kinds)
    <2>1. Kinds = (({"map"} \union {"list"}) \union ({"growth"} \union {"lookup"}))
                  \union {"value"}
      BY DEF Kinds
    <2>2. \A k : IsFiniteSet({k})
      BY FS_Singleton
    <2> QED BY <2>1, <2>2, FS_Union
  <1>7. IsFiniteSet((DOMAIN s) \X (Kinds \X UNION P))
    <2> HIDE DEF P
    <2> QED BY <1>3, <1>5, <1>6, FS_Product
  <1>8. Todo(s) \subseteq (DOMAIN s) \X (Kinds \X UNION P)
    <2>1. SUFFICES ASSUME NEW i \in DOMAIN s, NEW kind \in Kinds, NEW y \in Nat,
                          Open(s[i], kind, y)
                   PROVE  y \in UNION P
      BY DEF Todo
    <2>2. y \in Places(s[i])
      BY <2>1 DEF Open, Places
    <2> QED BY <2>2
  <1> QED BY <1>7, <1>8, FS_Subset

(* "an already-applied file simply won't match()" (proposer/rules.py:32),  *)
(* for files of any functions and any --transforms: every rewrite leaves   *)
(* strictly less for the rules to do, in the function it rewrites and in   *)
(* no other, so no rule undoes or repeats another.                         *)
THEOREM RewritesLeaveLess == Spec => [](Left \in Nat) /\ [][Left' < Left]_vars
  <1>1. Files /\ Next => Todo(src)' \subseteq Todo(src) /\ Todo(src)' # Todo(src)
    <2>1. SUFFICES ASSUME Files, Next
                   PROVE  Todo(src)' \subseteq Todo(src) /\ Todo(src)' # Todo(src)
      OBVIOUS
    <2>2. PICK n \in Names : Optimize(n)
      BY <2>1 DEF Next
    <2>3. PICK s, t : s = src /\ t = src'
      OBVIOUS
    <2>4. PICK rule \in {Propose(s, n, enabled)} \ {None} : t = Rewrite(s, n, rule)
      BY <2>2, <2>3 DEF Optimize
    <2> DEFINE p == Site(s, n, rule)
               i == p[1]
               x == p[2]
               g == After(s[i], rule, x)
    <2>5. rule \in Range(ALL) /\ Matches(s, n, rule)
      BY <2>4, Proposes
    <2>6. s \in Seq(CppFunction)
      BY <2>1, <2>3 DEF Files
    <2>7. t = [s EXCEPT ![i] = g]
      BY <2>4, RewriteIsAfter
    <2>8. i \in DOMAIN s /\ s[i] \in CppFunction /\ x \in Nat /\ Open(s[i], For(rule), x)
      <3>1. i \in DOMAIN s /\ x \in Nat /\ Open(s[i], For(rule), x)
        BY <2>5, <2>6, SiteIsOpen
      <3> QED BY <2>6, <3>1, At
    <2>9. /\ ~Open(g, For(rule), x)
          /\ \A kind \in Kinds, y \in Nat : Open(g, kind, y) => Open(s[i], kind, y)
      BY <2>5, <2>6, <2>8, AfterIsDone
    <2>10. For(rule) \in Kinds
      BY DEF For, Kinds
    <2> HIDE DEF p, i, x, g
    <2>11. DOMAIN t = DOMAIN s /\ t[i] = g /\ \A j \in DOMAIN s : j # i => t[j] = s[j]
      BY <2>6, <2>7, <2>8
    <2>12. Todo(t) \subseteq Todo(s)
      <3>1. SUFFICES ASSUME NEW j \in DOMAIN s, NEW kind \in Kinds, NEW y \in Nat,
                            Open(t[j], kind, y)
                     PROVE  Open(s[j], kind, y)
        BY <2>11 DEF Todo
      <3> QED BY <2>9, <2>11, <3>1
    <2>13. <<i, <<For(rule), x>>>> \in Todo(s) /\ <<i, <<For(rule), x>>>> \notin Todo(t)
      BY <2>6, <2>8, <2>9, <2>10, <2>11 DEF Todo
    <2>14. Todo(src)' = Todo(t) /\ Todo(src) = Todo(s)
      BY <2>3
    <2> QED BY <2>12, <2>13, <2>14
  <1>2. Files => Left \in Nat
    BY TodoIsFinite, FS_CardinalityType DEF Files, Left
  <1>3. Files /\ [Next]_vars => [Left' < Left]_vars
    <2>1. SUFFICES ASSUME Files, Next PROVE Left' < Left
      BY DEF Left
    <2>2. PICK S, T : S = Todo(src) /\ T = Todo(src)'
      OBVIOUS
    <2>3. IsFiniteSet(S) /\ T \subseteq S /\ T # S
      BY <1>1, <2>1, <2>2, TodoIsFinite DEF Files
    <2>4. Cardinality(T) < Cardinality(S)
      BY <2>3, FS_Subset, FS_CardinalityType
    <2> QED BY <2>2, <2>4 DEF Left
  <1> QED BY <1>2, <1>3, FilesInvariant, PTL DEF Spec
=============================================================================
