-------------------------- MODULE HostedServerProofs --------------------------
(***************************************************************************)
(* For any threads, tokens, plans, months and kills, a server admits no    *)
(* run beyond the quota, has written down what it answered, and starts     *)
(* nothing for a token that was revoked, as long as no two threads have    *)
(* built a store at once; that proviso is in the properties, and the       *)
(* server never promises it.                                               *)
(*                                                                         *)
(* The invariant ties together the three places an account is in: the      *)
(* memory of the one store is ahead of the file, the file is ahead of what *)
(* callers were told, and only the thread that holds the lock is between   *)
(* them.                                                                   *)
(***************************************************************************)
EXTENDS HostedServer, TLAPS

-----------------------------------------------------------------------------
Inside == {"check", "body", "meter", "count", "event", "engine"} \cup Saving
Locked == {"count"} \cup Saving

(* A store that is, or is about to be, the store.                          *)
Live(x) == x = theStore \/ pc[x] = "build"

Kind(t) == req[t].kind
Named(t) == req[t].token

ControlTypes ==
    /\ theStore \in Thread \cup {Nobody}
    /\ handle \in [Thread -> {"none", "tmp", "file", "gone"}]
    /\ pc \in [Thread -> {"idle", "enter", "build", "check", "body", "meter", "count",
                          "event", "engine"} \cup Saving]
    /\ goal \in [Thread -> {"none", "check", "meter", "event"}]
    /\ req \in [Thread -> [kind : {"none", "run", "checkout", "cancel"},
                           token : Token \cup {Nobody}]]
    /\ ref \in [Thread -> Thread \cup {Nobody}]
    /\ holder \in [Thread -> Thread \cup {Nobody}]

DataTypes ==
    /\ disk \in Accounts
    /\ mem \in [Thread -> Accounts \cup {Nobody}]
    /\ tmp \in Accounts \cup {Torn, Nobody}
    /\ found \in [Thread -> Nat] /\ month \in [Thread -> Period]
    /\ now \in Period /\ crashes \in 0..MaxCrashes /\ requests \in 0..MaxRequests
    /\ minted \subseteq Token /\ paid \subseteq Token /\ cancelled \subseteq Token
    /\ started \in [Token -> [Period -> Nat]]

(* Where a handler can be, for which request.                              *)
Places ==
    \A t \in Thread :
        /\ pc[t] # "idle" => Named(t) \in Token
        /\ pc[t] \in {"enter", "build"} =>
             \/ Kind(t) = "run" /\ goal[t] \in {"check", "meter"}
             \/ Kind(t) \in {"checkout", "cancel"} /\ goal[t] = "event"
        /\ pc[t] \in {"check", "body", "meter", "count", "engine"} => Kind(t) = "run"
        /\ pc[t] = "event" => Kind(t) \in {"checkout", "cancel"}
        /\ pc[t] \in Saving => Kind(t) \in {"run", "checkout", "cancel"}

(* There is one store, and whoever is past default_store() uses it.        *)
OneStoreUsed ==
    /\ \A t \in Thread : pc[t] \in Inside => ref[t] = theStore /\ theStore \in Thread
    /\ \A t \in Thread : pc[t] = "build" => theStore = Nobody
    /\ \A t, u \in Thread : pc[t] = "build" /\ pc[u] = "build" => t = u

LockHeld ==
    \A x, t \in Thread : (holder[x] = t) <=> (x = theStore /\ pc[t] \in Locked)

(* Only the thread that saves has the .tmp, and fills it from the store.   *)
TmpIsSaved ==
    /\ \A t \in Thread : handle[t] # "none" => pc[t] = "fill"
    /\ \A t \in Thread : pc[t] = "fill" => handle[t] = "tmp" /\ tmp = Torn
    /\ \A t \in Thread : pc[t] = "replace" => tmp = mem[theStore]

(* Months to come are not counted, months past within the plan.            *)
Sane(a) ==
    \A k \in Token, p \in Period :
        /\ p > now => a[k].used[p] = 0
        /\ Cap[k] # 0 => a[k].used[p] <= Cap[k]

(* Account a may become account b: no token forgotten, no revocation       *)
(* withdrawn, no run uncounted.                                            *)
Ahead(a, b) ==
    \A k \in Token :
        /\ a[k].status # "absent" => b[k].status # "absent"
        /\ a[k].status = "revoked" => b[k].status = "revoked"
        /\ \A p \in Period : a[k].used[p] <= b[k].used[p]

StoreAhead ==
    /\ Sane(disk)
    /\ \A x \in Thread : Live(x) => mem[x] \in Accounts /\ Sane(mem[x]) /\ Ahead(disk, mem[x])

(* A token drawn for a checkout is nobody else's until it is issued.       *)
Unissued(k) ==
    /\ k \notin paid \cup cancelled
    /\ disk[k].status = "absent"
    /\ \A x \in Thread : Live(x) => mem[x][k].status = "absent"
Drawn(t) == Kind(t) = "checkout" /\ pc[t] \in {"enter", "build", "event"}
FreshTokens ==
    /\ \A k \in Token \ minted : Unissued(k)
    /\ \A t \in Thread : Drawn(t) => Unissued(Named(t)) /\ Named(t) \in minted
    /\ \A t, u \in Thread : Drawn(t) /\ Drawn(u) /\ Named(t) = Named(u) => t = u

(* What the holder of the lock is about to write down.                     *)
Mem(t) == mem[theStore][Named(t)]
InHand ==
    \A t \in Thread :
        /\ pc[t] \in Locked /\ Kind(t) = "run" => Mem(t).status = "active"
        /\ pc[t] = "count" =>
             /\ Mem(t).used[now] <= found[t]
             /\ Cap[Named(t)] # 0 => found[t] + 1 <= Cap[Named(t)]
        /\ pc[t] \in Saving =>
             /\ Kind(t) = "run" => started[Named(t)][month[t]] < Mem(t).used[month[t]]
             /\ Kind(t) = "checkout" => Mem(t).status # "absent"
             /\ Kind(t) = "cancel" => Mem(t).status = "revoked"

WrittenDown ==
    /\ \A k \in paid : disk[k].status # "absent"
    /\ \A k \in cancelled : disk[k].status = "revoked"
    /\ \A k \in Token, p \in Period : started[k][p] <= disk[k].used[p]

Control == ControlTypes /\ Places /\ OneStoreUsed /\ LockHeld
Data == DataTypes /\ TmpIsSaved /\ StoreAhead /\ FreshTokens /\ InHand /\ WrittenDown
HostedInv == Control /\ Data

-----------------------------------------------------------------------------
LEMMA InitInv == Init => HostedInv
<1> SUFFICES ASSUME Init PROVE HostedInv
  OBVIOUS
<1> USE HostedAssumption
<1>1. 1 \in Period /\ now = 1
  BY DEF Init, Period
<1>2. /\ disk \in Accounts
      /\ \A k \in Token : /\ disk[k].status = IF k \in Seeded THEN "active" ELSE "absent"
                          /\ \A p \in Period : disk[k].used[p] = 0
  BY DEF Init, Accounts, Account
<1>3. Control
  BY DEF Init, Control, ControlTypes, Places, OneStoreUsed, LockHeld, Live, Inside, Locked,
     Saving, Named, Kind, NoRequest
<1>4. DataTypes
  BY <1>1, <1>2 DEF Init, DataTypes
<1>5. TmpIsSaved /\ FreshTokens /\ InHand
  BY <1>2 DEF Init, TmpIsSaved, FreshTokens, Unissued, Drawn, InHand, Live, Locked, Saving
<1>6. StoreAhead /\ WrittenDown
  BY <1>2 DEF Init, StoreAhead, Sane, WrittenDown, Live, Period
<1> QED
  BY <1>3, <1>4, <1>5, <1>6 DEF HostedInv, Data

-----------------------------------------------------------------------------
(* A handler that walks on between two uses of the store.                  *)
LEMMA WalkKeepsInv ==
  ASSUME HostedInv, NEW t \in Thread,
         \/ UseStore(t) \/ Check(t) \/ BodyArrives(t) \/ Refuse(t) \/ EngineEnds(t)
         \/ Revoke(t) /\ Mine(t).status = "absent"
  PROVE  HostedInv'
<1> USE HostedAssumption DEF HostedInv, Control, Data
<1>1. UNCHANGED <<fileVars, storeVars, req, found, month, boundVars, pastVars>>
  BY DEF UseStore, Check, BodyArrives, Refuse, EngineEnds, Revoke, callVars, storeVars
<1>2. PICK s \in {"idle", "enter", "check", "body", "meter", "event"} :
        /\ pc' = [pc EXCEPT ![t] = s]
        /\ s \in {"check", "body", "meter"} => Kind(t) = "run"
        /\ s = "event" => Kind(t) \in {"checkout", "cancel"}
        /\ s = "enter" => Kind(t) = "run" /\ goal'[t] = "meter"
        /\ s # "idle" => Named(t) \in Token
        /\ s \in Inside => ref'[t] = theStore /\ theStore \in Thread
        /\ s = "event" => pc[t] = "enter"
  <2>1. CASE UseStore(t)
    BY <2>1 DEF UseStore, Moves, Places, ControlTypes
  <2>2. CASE Check(t)
    BY <2>2 DEF Check, Moves, Places, ControlTypes, OneStoreUsed, Inside, callVars
  <2>3. CASE BodyArrives(t)
    BY <2>3 DEF BodyArrives, NeedsStore, Moves, Places, ControlTypes, Inside, Saving
  <2>4. CASE Refuse(t) \/ EngineEnds(t) \/ (Revoke(t) /\ Mine(t).status = "absent")
    BY <2>4 DEF Refuse, EngineEnds, Revoke, Moves, Inside, Saving
  <2> QED
    BY <2>1, <2>2, <2>3, <2>4
<1>3. /\ pc[t] \in {"enter", "check", "body", "meter", "engine", "event"}
      /\ goal' \in [Thread -> {"none", "check", "meter", "event"}]
      /\ ref' \in [Thread -> Thread \cup {Nobody}]
      /\ \A u \in Thread \ {t} : goal'[u] = goal[u] /\ ref'[u] = ref[u]
  BY DEF UseStore, Check, BodyArrives, NeedsStore, Refuse, EngineEnds, Revoke, callVars,
     ControlTypes
<1>4. ControlTypes'
  BY <1>1, <1>2, <1>3 DEF ControlTypes, fileVars, storeVars
<1>5. Places'
  BY <1>1, <1>2, <1>3 DEF Places, ControlTypes, Saving, Kind, Named
<1>6. OneStoreUsed'
  BY <1>1, <1>2, <1>3 DEF OneStoreUsed, ControlTypes, storeVars
<1>7. LockHeld'
  BY <1>1, <1>2, <1>3 DEF LockHeld, ControlTypes, storeVars, Locked, Saving
<1>8. DataTypes' /\ WrittenDown'
  BY <1>1 DEF DataTypes, WrittenDown, fileVars, storeVars, boundVars, pastVars
<1>9. TmpIsSaved'
  BY <1>1, <1>2, <1>3 DEF TmpIsSaved, ControlTypes, fileVars, storeVars
<1>10. \A x \in Thread : Live(x)' <=> Live(x)
  BY <1>1, <1>2, <1>3 DEF Live, ControlTypes, storeVars
<1>11. StoreAhead'
  BY <1>1, <1>10 DEF StoreAhead, Sane, Ahead, fileVars, storeVars, boundVars
<1>12. FreshTokens'
  BY <1>1, <1>2, <1>3, <1>10 DEF FreshTokens, Unissued, Drawn, Kind, Named, ControlTypes,
     fileVars, storeVars, pastVars
<1>13. InHand'
  BY <1>1, <1>2, <1>3 DEF InHand, Mem, Kind, Named, Locked, Saving, ControlTypes, storeVars,
     boundVars, pastVars
<1> QED
  BY <1>4, <1>5, <1>6, <1>7, <1>8, <1>9, <1>11, <1>12, <1>13

(* A request that arrives, with a token drawn for it if it is a checkout.  *)
LEMMA ArriveKeepsInv ==
  ASSUME HostedInv, NEW t \in Thread, Arrive(t)
  PROVE  HostedInv'
<1> USE HostedAssumption DEF HostedInv, Control, Data
<1>1. PICK k \in Token : ArriveRun(t, k) \/ ArriveCheckout(t, k) \/ ArriveCancel(t, k)
  BY DEF Arrive
<1>2. /\ UNCHANGED <<fileVars, storeVars, ref, found, month, now, crashes, started, paid,
                     cancelled>>
      /\ pc' = [pc EXCEPT ![t] = "enter"] /\ pc[t] = "idle"
      /\ requests' = requests + 1 /\ requests < MaxRequests
  BY <1>1 DEF ArriveRun, ArriveCheckout, ArriveCancel, NeedsStore, Moves, pastVars
<1>3. PICK kind \in {"run", "checkout", "cancel"} :
        /\ req' = [req EXCEPT ![t] = [kind |-> kind, token |-> k]]
        /\ goal' = [goal EXCEPT ![t] = IF kind = "run" THEN "check" ELSE "event"]
        /\ kind = "checkout" => k \notin minted /\ minted' = minted \cup {k}
        /\ kind # "checkout" => minted' = minted
  BY <1>1 DEF ArriveRun, ArriveCheckout, ArriveCancel, NeedsStore, pastVars
<1>4. /\ Kind(t)' = kind /\ Named(t)' = k
      /\ \A u \in Thread \ {t} : Kind(u)' = Kind(u) /\ Named(u)' = Named(u)
                                /\ goal'[u] = goal[u]
      /\ goal'[t] = IF kind = "run" THEN "check" ELSE "event"
  BY <1>3 DEF Kind, Named, ControlTypes
<1>5. ControlTypes'
  BY <1>2, <1>3 DEF ControlTypes, fileVars, storeVars
<1>6. Places'
  BY <1>2, <1>4 DEF Places, ControlTypes, Saving
<1>7. OneStoreUsed' /\ LockHeld'
  BY <1>2 DEF OneStoreUsed, LockHeld, ControlTypes, storeVars, Inside, Locked, Saving
<1>8. DataTypes' /\ WrittenDown'
  BY <1>2, <1>3 DEF DataTypes, WrittenDown, fileVars, storeVars
<1>9. TmpIsSaved'
  BY <1>2 DEF TmpIsSaved, ControlTypes, fileVars, storeVars
<1>10. \A x \in Thread : Live(x)' <=> Live(x)
  BY <1>2 DEF Live, ControlTypes, storeVars
<1>11. StoreAhead'
  BY <1>2, <1>10 DEF StoreAhead, Sane, Ahead, fileVars, storeVars
<1>12. FreshTokens'
  <2>1. \A j \in Token : Unissued(j)' <=> Unissued(j)
    BY <1>2, <1>10 DEF Unissued, fileVars, storeVars
  <2>2. \A u \in Thread \ {t} : Drawn(u)' <=> Drawn(u)
    BY <1>2, <1>4 DEF Drawn, ControlTypes
  <2>3. Drawn(t)' <=> kind = "checkout"
    BY <1>2, <1>4 DEF Drawn, ControlTypes
  <2>4. \A u \in Thread : Drawn(u) => Named(u) \in Token
    BY DEF Drawn, Places
  <2> QED
    BY <1>3, <1>4, <2>1, <2>2, <2>3, <2>4 DEF FreshTokens
<1>13. InHand'
  BY <1>2, <1>4 DEF InHand, Mem, Locked, Saving, ControlTypes, storeVars
<1> QED
  BY <1>5, <1>6, <1>7, <1>8, <1>9, <1>11, <1>12, <1>13

(* default_store() makes the store: it is the file, and the only one.      *)
LEMMA BuildKeepsInv ==
  ASSUME HostedInv, NEW t \in Thread, BuildStore(t), ~doubled'
  PROVE  HostedInv'
<1> USE HostedAssumption DEF HostedInv, Control, Data
<1>1. /\ UNCHANGED <<fileVars, theStore, holder, callVars, boundVars, minted, started, paid,
                     cancelled>>
      /\ theStore = Nobody /\ pc[t] = "enter"
      /\ \A u \in Thread : pc[u] # "build"
  BY DEF BuildStore
<1>2. PICK s \in {"idle", "build"} :
        /\ pc' = [pc EXCEPT ![t] = s]
        /\ mem' = [mem EXCEPT ![t] = IF s = "idle" THEN Nobody ELSE disk]
  BY DEF BuildStore, Moves
<1>3. \A u \in Thread : pc[u] \notin Inside /\ ~Live(u)
  BY <1>1 DEF OneStoreUsed, Live
<1>4. \A u \in Thread : pc'[u] \notin Inside /\ (Live(u)' => u = t /\ s = "build")
  BY <1>1, <1>2, <1>3 DEF Live, ControlTypes, Inside, Saving
<1>5. ControlTypes' /\ Places'
  BY <1>1, <1>2 DEF ControlTypes, Places, Kind, Named, Saving, fileVars, callVars
<1>6. OneStoreUsed'
  BY <1>1, <1>2, <1>4 DEF OneStoreUsed, ControlTypes
<1>7. LockHeld'
  BY <1>1, <1>3, <1>4 DEF LockHeld, Locked, Inside
<1>8. DataTypes' /\ WrittenDown'
  BY <1>1, <1>2 DEF DataTypes, WrittenDown, fileVars, callVars, boundVars
<1>9. TmpIsSaved' /\ InHand'
  BY <1>1, <1>3, <1>4 DEF TmpIsSaved, InHand, Locked, Inside, Saving, fileVars
<1>10. \A x \in Thread : Live(x)' => mem'[x] = disk
  BY <1>2, <1>4 DEF DataTypes
<1>11. StoreAhead'
  BY <1>1, <1>10 DEF StoreAhead, DataTypes, Accounts, Account, Sane, Ahead, fileVars, boundVars
<1>12. FreshTokens'
  <2>1. \A j \in Token : Unissued(j) => Unissued(j)'
    BY <1>1, <1>10 DEF Unissued, fileVars
  <2>2. \A u \in Thread : Drawn(u)' => Drawn(u) /\ Named(u)' = Named(u)
    BY <1>1, <1>2 DEF Drawn, Kind, Named, ControlTypes, callVars
  <2>3. \A u \in Thread : Drawn(u) => Named(u) \in Token
    BY DEF Drawn, Places
  <2> QED
    BY <1>1, <2>1, <2>2, <2>3 DEF FreshTokens
<1> QED
  BY <1>5, <1>6, <1>7, <1>8, <1>9, <1>11, <1>12

LEMMA PublishKeepsInv ==
  ASSUME HostedInv, NEW t \in Thread, PublishStore(t)
  PROVE  HostedInv'
<1> USE HostedAssumption DEF HostedInv, Control, Data
<1>1. /\ UNCHANGED <<fileVars, mem, holder, callVars, boundVars, pastVars>>
      /\ pc[t] = "build" /\ pc' = [pc EXCEPT ![t] = "enter"]
      /\ theStore' = t
  BY DEF PublishStore, Moves
<1>2. /\ theStore = Nobody
      /\ \A u \in Thread : pc[u] \notin Inside /\ pc'[u] \notin Inside /\ pc'[u] # "build"
  BY <1>1 DEF OneStoreUsed, ControlTypes, Inside, Saving
<1>3. \A u \in Thread : Live(u)' => Live(u)
  BY <1>1, <1>2 DEF Live
<1>4. ControlTypes' /\ Places'
  BY <1>1 DEF ControlTypes, Places, Kind, Named, Saving, fileVars, callVars
<1>5. OneStoreUsed'
  BY <1>1, <1>2 DEF OneStoreUsed
<1>6. LockHeld'
  BY <1>1, <1>2 DEF LockHeld, Locked, Inside
<1>7. DataTypes' /\ WrittenDown'
  BY <1>1 DEF DataTypes, WrittenDown, fileVars, callVars, boundVars, pastVars
<1>8. TmpIsSaved' /\ InHand'
  BY <1>1, <1>2 DEF TmpIsSaved, InHand, Locked, Inside, Saving, fileVars
<1>9. StoreAhead'
  BY <1>1, <1>3 DEF StoreAhead, Sane, Ahead, fileVars, boundVars
<1>10. FreshTokens'
  <2>1. \A j \in Token : Unissued(j) => Unissued(j)'
    BY <1>1, <1>3 DEF Unissued, fileVars, pastVars
  <2>2. \A u \in Thread : Drawn(u)' => Drawn(u) /\ Named(u)' = Named(u)
    BY <1>1 DEF Drawn, Kind, Named, ControlTypes, callVars
  <2>3. \A u \in Thread : Drawn(u) => Named(u) \in Token
    BY DEF Drawn, Places
  <2> QED
    BY <1>1, <2>1, <2>2, <2>3 DEF FreshTokens, pastVars
<1> QED
  BY <1>4, <1>5, <1>6, <1>7, <1>8, <1>9, <1>10

-----------------------------------------------------------------------------
(* The lock keeps every other handler out of the store.                    *)
LEMMA LockExcludes ==
  ASSUME Control, NEW t \in Thread, NEW u \in Thread, u # t, pc[u] \in Locked
  PROVE  /\ pc[t] \notin Locked
         /\ theStore \in Thread
         /\ holder[theStore] = u
<1>1. theStore \in Thread
  BY DEF Control, OneStoreUsed, Locked, Inside
<1>2. holder[theStore] = u
  BY <1>1 DEF Control, LockHeld
<1> QED
  BY <1>1, <1>2 DEF Control, LockHeld

(* Taking the lock to count a run.                                         *)
LEMMA ReserveKeepsInv ==
  ASSUME HostedInv, NEW t \in Thread, Reserve(t)
  PROVE  HostedInv'
<1> USE HostedAssumption DEF HostedInv, Control, Data
<1>1. /\ UNCHANGED <<fileVars, mem, theStore, goal, req, ref, month, boundVars, pastVars>>
      /\ pc[t] = "meter" /\ pc' = [pc EXCEPT ![t] = "count"]
      /\ found' = [found EXCEPT ![t] = Mine(t).used[now]]
      /\ Mine(t).status = "active"
      /\ ~(Cap[Named(t)] # 0 /\ Mine(t).used[now] + 1 > Cap[Named(t)])
  BY DEF Reserve, Moves, Refused, Named
<1>2. /\ ref[t] = theStore /\ theStore \in Thread /\ Named(t) \in Token /\ Kind(t) = "run"
  BY <1>1 DEF OneStoreUsed, Places, Inside
<1>3. holder' = [holder EXCEPT ![theStore] = t] /\ holder[theStore] = Nobody
  BY <1>2 DEF Reserve, Lock, Unlocked
<1>4. \A u \in Thread : pc[u] \notin Locked
  BY <1>2, <1>3 DEF LockHeld
<1>5. mem[theStore] \in Accounts
  BY <1>2 DEF StoreAhead, Live
<1>6. Mem(t).used[now] \in Nat /\ Mine(t) = Mem(t)
  BY <1>2, <1>5 DEF Accounts, Account, DataTypes, Mine, Mem, Named
<1>7. ControlTypes' /\ Places'
  BY <1>1, <1>2, <1>3 DEF ControlTypes, Places, Kind, Named, Saving, fileVars
<1>8. OneStoreUsed'
  BY <1>1, <1>2 DEF OneStoreUsed, ControlTypes, Inside
<1>9. LockHeld'
  BY <1>1, <1>2, <1>3, <1>4 DEF LockHeld, ControlTypes, Locked
<1>10. DataTypes' /\ WrittenDown'
  BY <1>1, <1>6 DEF DataTypes, WrittenDown, fileVars, boundVars, pastVars
<1>11. TmpIsSaved'
  BY <1>1 DEF TmpIsSaved, ControlTypes, fileVars
<1>12. \A x \in Thread : Live(x)' <=> Live(x)
  BY <1>1 DEF Live, ControlTypes
<1>13. StoreAhead'
  BY <1>1, <1>12 DEF StoreAhead, Sane, Ahead, fileVars, boundVars
<1>14. FreshTokens'
  BY <1>1, <1>12 DEF FreshTokens, Unissued, Drawn, Kind, Named, ControlTypes, fileVars, pastVars
<1>15. InHand'
  <2>1. Cap[Named(t)] \in Nat
    BY <1>2
  <2>2. found'[t] = Mem(t).used[now] /\ Mem(t)' = Mem(t) /\ now' = now
    BY <1>1, <1>6 DEF DataTypes, Mem, Named, boundVars
  <2>3. Cap[Named(t)] # 0 => found'[t] + 1 <= Cap[Named(t)]
    BY <1>1, <1>6, <2>1, <2>2
  <2>4. \A u \in Thread \ {t} : pc'[u] \notin Locked
    BY <1>1, <1>4 DEF ControlTypes
  <2> QED
    BY <1>1, <1>2, <1>6, <2>2, <2>3, <2>4 DEF InHand, Locked, Saving, ControlTypes, Named, Kind
<1> QED
  BY <1>7, <1>8, <1>9, <1>10, <1>11, <1>13, <1>14, <1>15

(* Counting it in memory.                                                  *)
LEMMA CountKeepsInv ==
  ASSUME HostedInv, NEW t \in Thread, Count(t)
  PROVE  HostedInv'
<1> USE HostedAssumption DEF HostedInv, Control, Data
<1> DEFINE k == Named(t)
<1>1. /\ UNCHANGED <<fileVars, theStore, holder, goal, req, ref, found, boundVars, pastVars>>
      /\ pc[t] = "count" /\ pc' = [pc EXCEPT ![t] = "open"]
      /\ month' = [month EXCEPT ![t] = now]
  BY DEF Count, Moves
<1>2. /\ ref[t] = theStore /\ theStore \in Thread /\ k \in Token /\ Kind(t) = "run"
  BY <1>1 DEF OneStoreUsed, Places, Inside
<1>3. mem[theStore] \in Accounts /\ Sane(mem[theStore]) /\ Ahead(disk, mem[theStore])
  BY <1>2 DEF StoreAhead, Live
<1>4. /\ found[t] \in Nat /\ now \in Period /\ Mem(t) = mem[theStore][k]
      /\ Mem(t).status = "active" /\ Mem(t).used[now] <= found[t]
      /\ Cap[k] # 0 => found[t] + 1 <= Cap[k]
  BY <1>1, <1>2 DEF DataTypes, InHand, Locked, Mem
<1>5. mem' = [mem EXCEPT ![theStore][k].used[now] = found[t] + 1]
  BY <1>2 DEF Count, Named
<1>6. /\ mem'[theStore] \in Accounts
      /\ \A x \in Thread \ {theStore} : mem'[x] = mem[x]
      /\ mem' \in [Thread -> Accounts \cup {Nobody}]
  <2> DEFINE used == [Mem(t).used EXCEPT ![now] = found[t] + 1]
             a == [Mem(t) EXCEPT !.used = used]
  <2>1. Mem(t) \in Account /\ used \in [Period -> Nat]
    BY <1>2, <1>3, <1>4 DEF Accounts, Account
  <2>2. a \in Account
    BY <2>1 DEF Account
  <2>3. [mem[theStore] EXCEPT ![k] = a] \in Accounts
    BY <1>3, <2>2 DEF Accounts
  <2>4. mem' = [mem EXCEPT ![theStore] = [mem[theStore] EXCEPT ![k] = a]]
    BY <1>4, <1>5
  <2> HIDE DEF a, used
  <2> QED
    BY <1>2, <2>3, <2>4 DEF DataTypes
<1>7. /\ \A j \in Token : mem'[theStore][j].status = mem[theStore][j].status
      /\ \A j \in Token \ {k} : mem'[theStore][j].used = mem[theStore][j].used
      /\ \A p \in Period \ {now} : mem'[theStore][k].used[p] = mem[theStore][k].used[p]
      /\ mem'[theStore][k].used[now] = found[t] + 1
  BY <1>2, <1>3, <1>4, <1>5 DEF DataTypes, Accounts, Account
<1>8. \A j \in Token, p \in Period : /\ mem[theStore][j].used[p] \in Nat
                                   /\ disk[j].used[p] \in Nat
                                   /\ started[j][p] \in Nat
  BY <1>3 DEF DataTypes, Accounts, Account
<1>9. \A u \in Thread \ {t} : pc[u] \notin Locked
  BY <1>1, LockExcludes DEF Locked
<1>10. ControlTypes' /\ Places'
  BY <1>1, <1>2 DEF ControlTypes, Places, Kind, Named, Saving, fileVars
<1>11. OneStoreUsed' /\ LockHeld'
  BY <1>1, <1>2 DEF OneStoreUsed, LockHeld, ControlTypes, Inside, Locked, Saving
<1>12. DataTypes' /\ WrittenDown'
  BY <1>1, <1>4, <1>6 DEF DataTypes, WrittenDown, fileVars, boundVars, pastVars
<1>13. TmpIsSaved'
  BY <1>1, <1>2, <1>9 DEF TmpIsSaved, ControlTypes, fileVars, Locked, Saving
<1>14. \A x \in Thread : Live(x)' <=> Live(x)
  BY <1>1 DEF Live, ControlTypes
<1>15. Sane(mem[theStore])'
  <2>1. \A j \in Token, p \in Period : p > now => mem'[theStore][j].used[p] = 0
    BY <1>3, <1>4, <1>7 DEF Sane, Period
  <2>2. \A j \in Token, p \in Period :
           Cap[j] # 0 => mem'[theStore][j].used[p] <= Cap[j]
    BY <1>3, <1>4, <1>7 DEF Sane
  <2> QED
    BY <1>1, <2>1, <2>2 DEF Sane, boundVars
<1>16. Ahead(disk, mem[theStore])'
  <2>1. \A j \in Token, p \in Period : disk[j].used[p] <= mem'[theStore][j].used[p]
    BY <1>3, <1>4, <1>7, <1>8 DEF Ahead
  <2> QED
    BY <1>1, <1>3, <1>7, <2>1 DEF Ahead, fileVars
<1>17. StoreAhead'
  <2>1. Sane(disk)'
    BY <1>1 DEF StoreAhead, Sane, fileVars, boundVars
  <2>2. ASSUME NEW x \in Thread, Live(x)', x # theStore
        PROVE  (mem[x] \in Accounts /\ Sane(mem[x]) /\ Ahead(disk, mem[x]))'
    BY <1>1, <1>6, <1>14, <2>2 DEF StoreAhead, Sane, Ahead, fileVars, boundVars
  <2> QED
    BY <1>1, <1>6, <1>15, <1>16, <2>1, <2>2 DEF StoreAhead
<1>18. FreshTokens'
  <2>1. \A j \in Token : Unissued(j)' <=> Unissued(j)
    BY <1>1, <1>2, <1>6, <1>7, <1>14 DEF Unissued, fileVars, pastVars
  <2>2. \A u \in Thread : Drawn(u)' <=> Drawn(u)
    BY <1>1 DEF Drawn, Kind, ControlTypes
  <2>3. \A u \in Thread : Drawn(u) => Named(u) \in Token
    BY DEF Drawn, Places
  <2> QED
    BY <1>1, <2>1, <2>2, <2>3 DEF FreshTokens, Named, pastVars
<1>19. InHand'
  <2>1. started[k][now] < mem'[theStore][k].used[now]
    <3>1. started[k][now] <= disk[k].used[now] /\ disk[k].used[now] <= Mem(t).used[now]
      BY <1>2, <1>3, <1>4 DEF WrittenDown, Ahead
    <3> QED
      BY <1>2, <1>4, <1>7, <1>8, <3>1
  <2>2. \A u \in Thread \ {t} : pc'[u] \notin Locked
    BY <1>1, <1>9 DEF ControlTypes
  <2>3. /\ Mem(t)' = mem'[theStore][k] /\ month'[t] = now /\ started' = started
        /\ Kind(t)' = "run" /\ pc'[t] = "open" /\ Named(t)' = k
    BY <1>1, <1>2 DEF Mem, Named, Kind, DataTypes, ControlTypes, pastVars
  <2>4. Mem(t)'.status = "active"
    BY <1>2, <1>4, <1>7, <2>3
  <2> QED
    BY <2>1, <2>2, <2>3, <2>4 DEF InHand, Locked, Saving
<1> QED
  BY <1>10, <1>11, <1>12, <1>13, <1>17, <1>18, <1>19

(* Issuing the token drawn, or revoking the one named.                     *)
LEMMA EventKeepsInv ==
  ASSUME HostedInv, NEW t \in Thread, Issue(t) \/ (Revoke(t) /\ Mine(t).status # "absent")
  PROVE  HostedInv'
<1> USE HostedAssumption DEF HostedInv, Control, Data
<1> DEFINE k == Named(t)
<1>1. /\ UNCHANGED <<fileVars, theStore, callVars, boundVars, pastVars>>
      /\ pc[t] = "event" /\ pc' = [pc EXCEPT ![t] = "open"]
      /\ holder' = [holder EXCEPT ![ref[t]] = t] /\ holder[ref[t]] = Nobody
  BY DEF Issue, Revoke, Moves, Lock, Unlocked, ControlTypes
<1>2. /\ ref[t] = theStore /\ theStore \in Thread /\ k \in Token
      /\ Kind(t) \in {"checkout", "cancel"}
  BY <1>1 DEF OneStoreUsed, Places, Inside
<1>3. mem[theStore] \in Accounts /\ Sane(mem[theStore]) /\ Ahead(disk, mem[theStore])
  BY <1>2 DEF StoreAhead, Live
<1>4. PICK status \in {"active", "revoked"} :
        /\ mem' = [mem EXCEPT ![theStore][k].status = status]
        /\ status = "active" => Kind(t) = "checkout"
        /\ status = "revoked" => Kind(t) = "cancel" /\ Mem(t).status # "absent"
  BY <1>1, <1>2 DEF Issue, Revoke, Named, Kind, Mine, Mem, Moves, ControlTypes
<1>5. /\ mem'[theStore] \in Accounts
      /\ \A x \in Thread \ {theStore} : mem'[x] = mem[x]
      /\ mem' \in [Thread -> Accounts \cup {Nobody}]
  <2> DEFINE a == [Mem(t) EXCEPT !.status = status]
  <2>1. a \in Account
    BY <1>2, <1>3 DEF Accounts, Account, Mem
  <2>2. [mem[theStore] EXCEPT ![k] = a] \in Accounts
    BY <1>3, <2>1 DEF Accounts
  <2>3. mem' = [mem EXCEPT ![theStore] = [mem[theStore] EXCEPT ![k] = a]]
    BY <1>4 DEF Mem
  <2> HIDE DEF a
  <2> QED
    BY <1>2, <2>2, <2>3 DEF DataTypes
<1>6. /\ \A j \in Token : mem'[theStore][j].used = mem[theStore][j].used
      /\ \A j \in Token \ {k} : mem'[theStore][j].status = mem[theStore][j].status
      /\ mem'[theStore][k].status = status
  BY <1>2, <1>3, <1>4 DEF DataTypes, Accounts, Account
<1>7. \A u \in Thread : pc[u] \notin Locked
  BY <1>1, <1>2 DEF LockHeld
<1>8. ControlTypes' /\ Places'
  BY <1>1, <1>2 DEF ControlTypes, Places, Kind, Named, Saving, fileVars, callVars
<1>9. OneStoreUsed'
  BY <1>1, <1>2 DEF OneStoreUsed, ControlTypes, Inside, callVars
<1>10. LockHeld'
  BY <1>1, <1>2, <1>7 DEF LockHeld, ControlTypes, Locked, Saving
<1>11. DataTypes' /\ WrittenDown'
  BY <1>1, <1>5 DEF DataTypes, WrittenDown, fileVars, callVars, boundVars, pastVars
<1>12. TmpIsSaved'
  BY <1>1, <1>7 DEF TmpIsSaved, ControlTypes, fileVars, Locked, Saving
<1>13. \A x \in Thread : Live(x)' <=> Live(x)
  BY <1>1 DEF Live, ControlTypes
<1>14. Drawn(t) <=> Kind(t) = "checkout"
  BY <1>1 DEF Drawn
<1>15. status = "active" => disk[k].status = "absent"
  BY <1>4, <1>14 DEF FreshTokens, Unissued
<1>16. StoreAhead'
  <2>1. Sane(disk)' /\ Sane(mem[theStore])'
    BY <1>1, <1>3, <1>6 DEF StoreAhead, Sane, fileVars, boundVars
  <2>2. Ahead(disk, mem[theStore])'
    BY <1>1, <1>3, <1>6, <1>15 DEF Ahead, fileVars
  <2>3. ASSUME NEW x \in Thread, Live(x)', x # theStore
        PROVE  (mem[x] \in Accounts /\ Sane(mem[x]) /\ Ahead(disk, mem[x]))'
    BY <1>1, <1>5, <1>13, <2>3 DEF StoreAhead, Sane, Ahead, fileVars, boundVars
  <2> QED
    BY <1>1, <1>5, <2>1, <2>2, <2>3 DEF StoreAhead
<1>17. FreshTokens'
  <2>1. \A j \in Token \ {k} : Unissued(j) => Unissued(j)'
    BY <1>1, <1>2, <1>5, <1>6, <1>13 DEF Unissued, fileVars, pastVars
  <2>2. \A u \in Thread : Drawn(u)' => Drawn(u) /\ u # t /\ Named(u)' = Named(u)
    BY <1>1 DEF Drawn, Kind, Named, ControlTypes, callVars
  <2>3. \A u \in Thread : Drawn(u) => Named(u) \in Token
    BY DEF Drawn, Places
  <2>4. status = "revoked" => ~Unissued(k)
    BY <1>2, <1>4 DEF Unissued, Live, Mem
  <2>5. k \in minted
    BY <1>2, <1>4, <1>14, <2>4 DEF FreshTokens
  <2>6. \A u \in Thread \ {t} : Drawn(u) => Named(u) # k
    BY <1>4, <1>14, <2>4 DEF FreshTokens
  <2> QED
    BY <1>1, <2>1, <2>2, <2>3, <2>5, <2>6 DEF FreshTokens, pastVars
<1>18. InHand'
  <2>1. \A u \in Thread \ {t} : pc'[u] \notin Locked
    BY <1>1, <1>7 DEF ControlTypes
  <2>2. Mem(t)' = mem'[theStore][k] /\ Kind(t)' = Kind(t) /\ pc'[t] = "open"
    BY <1>1 DEF Mem, Named, Kind, ControlTypes, callVars
  <2> QED
    BY <1>2, <1>4, <1>6, <2>1, <2>2 DEF InHand, Locked, Saving
<1> QED
  BY <1>8, <1>9, <1>10, <1>11, <1>12, <1>16, <1>17, <1>18

-----------------------------------------------------------------------------
(* The steps of a save that leave the accounts file alone, and its failure.*)
LEMMA SaveStepKeepsInv ==
  ASSUME HostedInv, NEW t \in Thread, OpenTmp(t) \/ FillTmp(t) \/ SaveFails(t)
  PROVE  HostedInv'
<1> USE HostedAssumption DEF HostedInv, Control, Data
<1>1. pc[t] \in Saving
  BY DEF OpenTmp, FillTmp, SaveFails, Saving
<1>2. /\ ref[t] = theStore /\ theStore \in Thread /\ Named(t) \in Token
      /\ holder[theStore] = t
      /\ \A u \in Thread \ {t} : pc[u] \notin Locked /\ handle[u] = "none"
  BY <1>1, LockExcludes DEF OneStoreUsed, Places, LockHeld, Inside, Locked, TmpIsSaved,
     ControlTypes, Saving
<1>3. mem[theStore] \in Accounts
  BY <1>2 DEF StoreAhead, Live
<1>4. /\ UNCHANGED <<disk, mem, theStore, callVars, boundVars, pastVars>>
      /\ tmp' \in Accounts \cup {Torn, Nobody}
  BY <1>1, <1>2, <1>3 DEF OpenTmp, FillTmp, SaveFails, DataTypes, storeVars, TmpIsSaved
<1>5. PICK s \in {"fill", "replace", "idle"} :
        /\ pc' = [pc EXCEPT ![t] = s]
        /\ handle' = [handle EXCEPT ![t] = IF s = "fill" THEN "tmp" ELSE "none"]
        /\ holder' = IF s = "idle" THEN [holder EXCEPT ![theStore] = Nobody] ELSE holder
        /\ s = "fill" => tmp' = Torn
        /\ s = "replace" => tmp' = mem[theStore]
  BY <1>1, <1>2 DEF OpenTmp, FillTmp, SaveFails, Moves, Unlock, storeVars, TmpIsSaved
<1>6. ControlTypes' /\ Places'
  BY <1>1, <1>4, <1>5 DEF ControlTypes, Places, Kind, Named, Saving, callVars
<1>7. OneStoreUsed'
  BY <1>1, <1>4, <1>5 DEF OneStoreUsed, ControlTypes, Inside, Saving, callVars
<1>8. LockHeld'
  BY <1>1, <1>2, <1>4, <1>5 DEF LockHeld, ControlTypes, Locked, Saving
<1>9. DataTypes' /\ WrittenDown'
  BY <1>4 DEF DataTypes, WrittenDown, callVars, boundVars, pastVars
<1>10. TmpIsSaved'
  BY <1>2, <1>4, <1>5 DEF TmpIsSaved, ControlTypes, Locked, Saving
<1>11. \A x \in Thread : Live(x)' <=> Live(x)
  BY <1>1, <1>4, <1>5 DEF Live, ControlTypes, Saving
<1>12. StoreAhead'
  BY <1>4, <1>11 DEF StoreAhead, Sane, Ahead, boundVars
<1>13. FreshTokens'
  BY <1>1, <1>4, <1>5, <1>11 DEF FreshTokens, Unissued, Drawn, Kind, Named, ControlTypes,
     Saving, callVars, pastVars
<1>14. InHand'
  BY <1>1, <1>4, <1>5 DEF InHand, Mem, Kind, Named, Locked, Saving, ControlTypes, callVars,
     boundVars, pastVars
<1> QED
  BY <1>6, <1>7, <1>8, <1>9, <1>10, <1>12, <1>13, <1>14

(* The file becomes what is in memory, and the caller is told.             *)
LEMMA ReplaceKeepsInv ==
  ASSUME HostedInv, NEW t \in Thread, ReplaceFile(t)
  PROVE  HostedInv'
<1> USE HostedAssumption DEF HostedInv, Control, Data
<1> DEFINE k == Named(t)
<1>1. /\ UNCHANGED <<mem, theStore, callVars, boundVars, minted>>
      /\ pc[t] = "replace" /\ disk' = tmp /\ tmp' = Nobody
  BY DEF ReplaceFile
<1>2. /\ ref[t] = theStore /\ theStore \in Thread /\ k \in Token
      /\ Kind(t) \in {"run", "checkout", "cancel"} /\ month[t] \in Period
      /\ holder[theStore] = t
      /\ \A u \in Thread : handle[u] = "none" /\ (u # t => pc[u] \notin Locked)
  BY <1>1, LockExcludes DEF OneStoreUsed, Places, LockHeld, Inside, Locked, Saving, TmpIsSaved,
     ControlTypes, DataTypes
<1>3. /\ mem[theStore] \in Accounts /\ Sane(mem[theStore]) /\ Ahead(disk, mem[theStore])
      /\ disk' = mem[theStore]
  BY <1>1, <1>2 DEF StoreAhead, Live, TmpIsSaved
<1>4. handle' = handle /\ holder' = [holder EXCEPT ![theStore] = Nobody]
  BY <1>2 DEF ReplaceFile, Unlock, ControlTypes
<1>5. PICK s \in {"engine", "idle"} :
        /\ pc' = [pc EXCEPT ![t] = s]
        /\ s = "engine" => Kind(t) = "run"
        /\ started' = IF Kind(t) = "run" THEN [started EXCEPT ![k][month[t]] = @ + 1] ELSE started
        /\ paid' = IF Kind(t) = "checkout" THEN paid \cup {k} ELSE paid
        /\ cancelled' = IF Kind(t) = "cancel" THEN cancelled \cup {k} ELSE cancelled
  BY DEF ReplaceFile, Moves, Kind, Named
<1>6. /\ Mem(t) = mem[theStore][k]
      /\ Kind(t) = "run" => started[k][month[t]] < Mem(t).used[month[t]]
      /\ Kind(t) = "checkout" => Mem(t).status # "absent"
      /\ Kind(t) = "cancel" => Mem(t).status = "revoked"
  BY <1>1 DEF InHand, Mem, Saving
<1>7. ControlTypes' /\ Places'
  BY <1>1, <1>2, <1>4, <1>5 DEF ControlTypes, Places, Kind, Named, Saving, callVars
<1>8. OneStoreUsed'
  BY <1>1, <1>2, <1>5 DEF OneStoreUsed, ControlTypes, Inside, callVars
<1>9. LockHeld'
  BY <1>1, <1>2, <1>4, <1>5 DEF LockHeld, ControlTypes, Locked, Saving
<1>10. DataTypes'
  <2>1. started' \in [Token -> [Period -> Nat]]
    BY <1>2, <1>5 DEF DataTypes
  <2> QED
    BY <1>1, <1>2, <1>3, <1>5, <2>1 DEF DataTypes, callVars, boundVars
<1>11. TmpIsSaved'
  BY <1>1, <1>2, <1>4, <1>5 DEF TmpIsSaved, ControlTypes, Locked, Saving
<1>12. \A x \in Thread : Live(x)' => x = theStore
  BY <1>1, <1>2, <1>5 DEF Live, ControlTypes, OneStoreUsed
<1>13. StoreAhead'
  <2>1. Sane(mem[theStore])' /\ Sane(disk)'
    BY <1>1, <1>3 DEF Sane, boundVars
  <2>2. Ahead(disk, mem[theStore])'
    BY <1>1, <1>2, <1>3 DEF Ahead, Accounts, Account
  <2> QED
    BY <1>1, <1>3, <1>12, <2>1, <2>2 DEF StoreAhead
<1>14. FreshTokens'
  <2>1. \A j \in Token : Unissued(j) => mem[theStore][j].status = "absent"
    BY <1>2 DEF Unissued, Live
  <2>2. Kind(t) \in {"checkout", "cancel"} => ~Unissued(k)
    BY <1>2, <1>6, <2>1
  <2>3. \A j \in Token : Unissued(j) => Unissued(j)'
    BY <1>1, <1>2, <1>3, <1>5, <1>12, <2>1, <2>2 DEF Unissued
  <2>4. \A u \in Thread : Drawn(u)' => Drawn(u) /\ Named(u)' = Named(u)
    BY <1>1, <1>5 DEF Drawn, Kind, Named, ControlTypes, callVars
  <2>5. \A u \in Thread : Drawn(u) => Named(u) \in Token
    BY DEF Drawn, Places
  <2> QED
    BY <1>1, <2>3, <2>4, <2>5 DEF FreshTokens
<1>15. InHand'
  BY <1>1, <1>2, <1>5 DEF InHand, Locked, Saving, ControlTypes
<1>16. WrittenDown'
  <2>1. \A j \in paid' : disk'[j].status # "absent"
    BY <1>2, <1>3, <1>5, <1>6 DEF WrittenDown, Ahead, DataTypes
  <2>2. \A j \in cancelled' : disk'[j].status = "revoked"
    BY <1>2, <1>3, <1>5, <1>6 DEF WrittenDown, Ahead, DataTypes
  <2>3. \A j \in Token, p \in Period :
          /\ started[j][p] \in Nat /\ disk[j].used[p] \in Nat
          /\ mem[theStore][j].used[p] \in Nat
    BY <1>3 DEF DataTypes, Accounts, Account
  <2>4. \A j \in Token, p \in Period : started[j][p] <= mem[theStore][j].used[p]
    <3>1. \A j \in Token, p \in Period :
            started[j][p] <= disk[j].used[p] /\ disk[j].used[p] <= mem[theStore][j].used[p]
      BY <1>3 DEF WrittenDown, Ahead
    <3> QED
      BY <2>3, <3>1
  <2>5. \A j \in Token, p \in Period :
          \/ started'[j][p] = started[j][p]
          \/ j = k /\ p = month[t] /\ Kind(t) = "run" /\ started'[j][p] = started[j][p] + 1
    BY <1>2, <1>5 DEF DataTypes
  <2>6. \A j \in Token, p \in Period : started'[j][p] <= disk'[j].used[p]
    BY <1>2, <1>3, <1>6, <2>3, <2>4, <2>5
  <2> QED
    BY <2>1, <2>2, <2>6 DEF WrittenDown
<1> QED
  BY <1>7, <1>8, <1>9, <1>10, <1>11, <1>13, <1>14, <1>15, <1>16

-----------------------------------------------------------------------------
(* A kill takes the memory and every handler; a new month counts from 0.   *)
LEMMA CrashKeepsInv == HostedInv /\ Crash => HostedInv'
<1> SUFFICES ASSUME HostedInv, Crash PROVE HostedInv'
  OBVIOUS
<1> USE HostedAssumption DEF HostedInv, Control, Data
<1>1. UNCHANGED <<disk, tmp, now, requests, minted, started, paid, cancelled>>
  BY DEF Crash, pastVars
<1>2. /\ theStore' = Nobody
      /\ \A t \in Thread : /\ pc'[t] = "idle" /\ handle'[t] = "none"
                         /\ holder'[t] = Nobody /\ ~Live(t)'
  BY DEF Crash, Live
<1>3. ControlTypes'
  BY DEF Crash, ControlTypes, NoRequest
<1>4. Places' /\ OneStoreUsed' /\ LockHeld'
  BY <1>2 DEF Places, OneStoreUsed, LockHeld, Inside, Locked, Saving
<1>5. DataTypes'
  BY <1>1 DEF Crash, DataTypes, Period
<1>6. TmpIsSaved' /\ InHand'
  BY <1>2 DEF TmpIsSaved, InHand, Locked, Saving
<1>7. StoreAhead' /\ WrittenDown'
  BY <1>1, <1>2 DEF StoreAhead, Sane, WrittenDown
<1>8. FreshTokens'
  BY <1>1, <1>2 DEF FreshTokens, Unissued, Drawn
<1> QED
  BY <1>3, <1>4, <1>5, <1>6, <1>7, <1>8

LEMMA MonthKeepsInv == HostedInv /\ NextMonth => HostedInv'
<1> SUFFICES ASSUME HostedInv, NextMonth PROVE HostedInv'
  OBVIOUS
<1> USE HostedAssumption DEF HostedInv, Control, Data
<1>1. /\ UNCHANGED <<fileVars, storeVars, pc, callVars, crashes, requests, pastVars>>
      /\ now' = now + 1 /\ now \in Period /\ now' \in Period
  BY DEF NextMonth, DataTypes, Period
<1>2. Control'
  BY <1>1 DEF ControlTypes, Places, OneStoreUsed, LockHeld, Kind, Named, fileVars, storeVars,
     callVars
<1>3. DataTypes' /\ TmpIsSaved' /\ WrittenDown'
  BY <1>1 DEF DataTypes, TmpIsSaved, WrittenDown, fileVars, storeVars, callVars, pastVars
<1>4. \A p \in Period : p > now' => p > now
  BY <1>1 DEF Period
<1>5. \A x \in Thread : Live(x)' <=> Live(x)
  BY <1>1 DEF Live, storeVars
<1>6. StoreAhead'
  BY <1>1, <1>4, <1>5 DEF StoreAhead, Sane, Ahead, fileVars, storeVars
<1>7. FreshTokens'
  BY <1>1, <1>5 DEF FreshTokens, Unissued, Drawn, Kind, Named, fileVars, storeVars, callVars,
     pastVars
<1>8. InHand'
  <2>1. ASSUME NEW t \in Thread, pc[t] = "count"
        PROVE  Mem(t).used[now'] <= found[t]
    <3>1. theStore \in Thread /\ Named(t) \in Token
      BY <2>1 DEF OneStoreUsed, Places, Inside
    <3>2. Mem(t).used[now'] = 0
      BY <1>1, <3>1 DEF StoreAhead, Live, Sane, Mem, Period
    <3> QED
      BY <3>2 DEF DataTypes
  <2> QED
    BY <1>1, <2>1 DEF InHand, Mem, Kind, Named, storeVars, callVars, pastVars
<1> QED
  BY <1>2, <1>3, <1>6, <1>7, <1>8

LEMMA DoubledStays ==
  ASSUME [Next]_vars, doubled PROVE doubled'
  BY DEF Next, Arrive, Serve, ArriveRun, ArriveCheckout, ArriveCancel, UseStore, BuildStore,
     PublishStore, Check, BodyArrives, Refuse, Reserve, Count, Issue, Revoke, OpenTmp, FillTmp,
     ReplaceFile, SaveFails, EngineEnds, Crash, NextMonth, Quiet, pastVars, vars

LEMMA NextKeepsHostedInv ==
  ASSUME ~doubled => HostedInv, [Next]_vars, ~doubled'
  PROVE  HostedInv'
<1>0. HostedInv
  BY DoubledStays
<1>1. ASSUME NEW t \in Thread, Arrive(t) \/ BodyArrives(t) \/ Serve(t) PROVE HostedInv'
  BY <1>0, <1>1, ArriveKeepsInv, WalkKeepsInv, BuildKeepsInv, PublishKeepsInv, ReserveKeepsInv,
     CountKeepsInv, EventKeepsInv, SaveStepKeepsInv, ReplaceKeepsInv DEF Serve
<1>2. CASE Crash \/ NextMonth
  BY <1>0, <1>2, CrashKeepsInv, MonthKeepsInv
<1>3. CASE Quiet \/ UNCHANGED vars
  <2>1. UNCHANGED vars
    BY <1>3 DEF Quiet
  <2> USE <1>0, <2>1 DEF vars, fileVars, storeVars, callVars, boundVars, pastVars
  <2>2. Control'
    BY DEF HostedInv, Control, ControlTypes, Places, OneStoreUsed, LockHeld, Kind, Named
  <2>3. DataTypes' /\ TmpIsSaved' /\ WrittenDown'
    BY DEF HostedInv, Data, DataTypes, TmpIsSaved, WrittenDown
  <2>4. StoreAhead' /\ FreshTokens' /\ InHand'
    BY DEF HostedInv, Data, StoreAhead, Sane, Ahead, FreshTokens, Unissued, Drawn, InHand, Mem,
       Kind, Named, Live
  <2> QED
    BY <2>2, <2>3, <2>4 DEF HostedInv, Data
<1> QED
  BY <1>1, <1>2, <1>3 DEF Next

LEMMA HostedInvHolds == Spec => [](~doubled => HostedInv)
<1>1. (~doubled => HostedInv) /\ [Next]_vars => (~doubled => HostedInv)'
  BY NextKeepsHostedInv
<1> QED
  BY <1>1, InitInv, PTL DEF Spec

-----------------------------------------------------------------------------
(* What the types rest on, however many stores there are: a store that is  *)
(* used or about to be published holds accounts.                           *)
StoresFilled ==
    /\ theStore \in Thread => mem[theStore] \in Accounts
    /\ \A t \in Thread : pc[t] = "build" => mem[t] \in Accounts
    /\ \A t \in Thread : pc[t] \in Inside =>
         theStore \in Thread /\ ref[t] \in Thread /\ mem[ref[t]] \in Accounts

TypesInv == HostedTypeOK /\ Places /\ StoresFilled

(* A step that leaves every memory alone, or puts accounts where accounts  *)
(* were, and the files and the past within their types.                    *)
LEMMA TypesOfMemory ==
  ASSUME TypesInv, NEW t \in Thread, Count(t) \/ Issue(t) \/ Revoke(t)
  PROVE  /\ mem' \in [Thread -> Accounts \cup {Nobody}]
         /\ \A x \in Thread : mem[x] \in Accounts => mem'[x] \in Accounts
<1> DEFINE x == ref[t]
           k == Named(t)
           a == mem[x][k]
<1>1. x \in Thread /\ mem[x] \in Accounts /\ k \in Token /\ now \in Period /\ found[t] \in Nat
  BY DEF TypesInv, HostedTypeOK, Places, StoresFilled, Inside, Count, Issue, Revoke
<1>2. a \in Account /\ a.used \in [Period -> Nat]
  BY <1>1 DEF Accounts, Account
<1>3. \E b \in Account : mem' = [mem EXCEPT ![x] = [mem[x] EXCEPT ![k] = b]] \/ mem' = mem
  <2>1. CASE Count(t)
    <3> DEFINE u == [a.used EXCEPT ![now] = found[t] + 1]
    <3>1. [a EXCEPT !.used = u] \in Account
      BY <1>1, <1>2 DEF Account
    <3>2. mem' = [mem EXCEPT ![x] = [mem[x] EXCEPT ![k] = [a EXCEPT !.used = u]]]
      BY <2>1 DEF Count, Named
    <3> QED
      BY <3>1, <3>2
  <2>2. CASE Issue(t) \/ Revoke(t)
    <3>1. \A s \in {"active", "revoked"} : [a EXCEPT !.status = s] \in Account
      BY <1>2 DEF Account
    <3>2. \/ mem' = mem
          \/ \E s \in {"active", "revoked"} :
               mem' = [mem EXCEPT ![x] = [mem[x] EXCEPT ![k] = [a EXCEPT !.status = s]]]
      BY <2>2 DEF Issue, Revoke, Named
    <3> QED
      BY <1>2, <3>1, <3>2
  <2> QED
    BY <2>1, <2>2
<1>4. \A b \in Account : [mem[x] EXCEPT ![k] = b] \in Accounts
  BY <1>1 DEF Accounts
<1>5. \E y \in Accounts : mem' = [mem EXCEPT ![x] = y]
  <2>1. mem = [mem EXCEPT ![x] = mem[x]]
    BY DEF TypesInv, HostedTypeOK
  <2> HIDE DEF a, x, k
  <2> QED
    BY <1>1, <1>3, <1>4, <2>1
<1> HIDE DEF a, x, k
<1> QED
  BY <1>1, <1>5 DEF TypesInv, HostedTypeOK

LEMMA ServeKeepsTypes ==
  ASSUME TypesInv, NEW t \in Thread, Arrive(t) \/ BodyArrives(t) \/ Serve(t)
  PROVE  TypesInv'
<1> USE HostedAssumption DEF TypesInv
<1>1. CASE Arrive(t)
  <2>1. PICK k \in Token : ArriveRun(t, k) \/ ArriveCheckout(t, k) \/ ArriveCancel(t, k)
    BY <1>1 DEF Arrive
  <2>2. PICK kind \in {"run", "checkout", "cancel"} :
          /\ req' = [req EXCEPT ![t] = [kind |-> kind, token |-> k]]
          /\ pc' = [pc EXCEPT ![t] = "enter"] /\ pc[t] = "idle"
          /\ goal' = [goal EXCEPT ![t] = IF kind = "run" THEN "check" ELSE "event"]
          /\ minted' \in {minted, minted \cup {k}}
          /\ requests' = requests + 1 /\ requests < MaxRequests
          /\ UNCHANGED <<fileVars, storeVars, ref, found, month, now, crashes, started, paid,
                         cancelled, doubled>>
    BY <2>1 DEF ArriveRun, ArriveCheckout, ArriveCancel, NeedsStore, Moves, pastVars
  <2>3. HostedTypeOK'
    BY <2>2 DEF HostedTypeOK, fileVars, storeVars
  <2>4. Places'
    BY <2>2 DEF HostedTypeOK, Places, Kind, Named, Saving
  <2>5. StoresFilled'
    BY <2>2 DEF HostedTypeOK, StoresFilled, storeVars, Inside, Saving
  <2> QED
    BY <2>3, <2>4, <2>5
<1>2. CASE BuildStore(t) \/ PublishStore(t)
  <2>1. /\ UNCHANGED <<fileVars, holder, callVars, boundVars, minted, started, paid, cancelled>>
        /\ doubled' \in BOOLEAN /\ pc[t] \in {"enter", "build"}
        /\ pc'[t] \in {"idle", "enter", "build"} /\ \A u \in Thread \ {t} : pc'[u] = pc[u]
    BY <1>2 DEF BuildStore, PublishStore, Moves, pastVars, HostedTypeOK
  <2>2. theStore' \in Thread \cup {Nobody} /\ mem' \in [Thread -> Accounts \cup {Nobody}]
    BY <1>2 DEF BuildStore, PublishStore, HostedTypeOK
  <2>3. pc' \in [Thread -> {"idle", "enter", "build", "check", "body", "meter", "count",
                            "event", "engine"} \cup Saving]
    BY <1>2 DEF BuildStore, PublishStore, Moves, HostedTypeOK
  <2>4. HostedTypeOK'
    BY <2>1, <2>2, <2>3 DEF HostedTypeOK, fileVars, callVars, boundVars
  <2>5. Places'
    BY <2>1 DEF Places, Kind, Named, Saving, callVars
  <2>6. StoresFilled'
    BY <1>2, <2>1 DEF BuildStore, PublishStore, Moves, HostedTypeOK, StoresFilled, Inside,
       Saving, callVars
  <2> QED
    BY <2>4, <2>5, <2>6
<1>3. CASE UseStore(t) \/ BodyArrives(t) \/ Check(t) \/ Refuse(t) \/ EngineEnds(t)
  <2>1. /\ UNCHANGED <<fileVars, storeVars, req, found, month, boundVars, pastVars>>
        /\ pc[t] \in {"enter", "body", "check", "meter", "engine"}
        /\ \A u \in Thread \ {t} : pc'[u] = pc[u] /\ goal'[u] = goal[u] /\ ref'[u] = ref[u]
    BY <1>3 DEF UseStore, BodyArrives, NeedsStore, Check, Refuse, EngineEnds, Moves, callVars,
       storeVars, HostedTypeOK
  <2>2. /\ goal' \in [Thread -> {"none", "check", "meter", "event"}]
        /\ ref' \in [Thread -> Thread \cup {Nobody}]
        /\ pc' \in [Thread -> {"idle", "enter", "build", "check", "body", "meter", "count",
                               "event", "engine"} \cup Saving]
    <3>1. CASE UseStore(t)
      BY <3>1 DEF UseStore, Moves, Places, HostedTypeOK
    <3>2. CASE ~UseStore(t)
      BY <1>3, <3>2 DEF BodyArrives, NeedsStore, Check, Refuse, EngineEnds, Moves, callVars,
         storeVars, HostedTypeOK
    <3> QED
      BY <3>1, <3>2
  <2>3. /\ pc'[t] \in {"check", "body", "meter"} => Kind(t) = "run"
        /\ pc'[t] = "event" => Kind(t) \in {"checkout", "cancel"}
        /\ pc'[t] \in {"idle", "enter", "check", "body", "meter", "event"}
        /\ pc'[t] = "enter" => Kind(t) = "run" /\ goal'[t] = "meter"
        /\ pc'[t] \in Inside => ref'[t] \in Thread /\ theStore \in Thread
                                /\ mem[ref'[t]] \in Accounts
    <3>1. CASE UseStore(t)
      BY <3>1 DEF UseStore, Moves, Places, StoresFilled, HostedTypeOK
    <3>2. CASE ~UseStore(t)
      BY <1>3, <3>2 DEF BodyArrives, NeedsStore, Check, Refuse, EngineEnds, Moves, callVars,
         storeVars, HostedTypeOK, Places, StoresFilled, Inside, Saving
    <3> QED
      BY <3>1, <3>2
  <2>4. HostedTypeOK'
    BY <2>1, <2>2 DEF HostedTypeOK, fileVars, storeVars, boundVars, pastVars
  <2>5. Places'
    BY <2>1, <2>3 DEF Places, Kind, Named, Saving
  <2>6. StoresFilled'
    BY <2>1, <2>3 DEF StoresFilled, storeVars, Inside, Saving
  <2> QED
    BY <2>4, <2>5, <2>6
<1>4. CASE Count(t) \/ Issue(t) \/ Revoke(t)
  <2>1. /\ UNCHANGED <<fileVars, theStore, goal, req, ref, found, boundVars, pastVars>>
        /\ pc[t] \in {"count", "event"}
        /\ \E w \in {"open", "idle"} : pc' = [pc EXCEPT ![t] = w]
        /\ month' \in {month, [month EXCEPT ![t] = now]}
    BY <1>4 DEF Count, Issue, Revoke, Moves, callVars
  <2>6. /\ pc'[t] \in {"open", "idle"} /\ \A u \in Thread \ {t} : pc'[u] = pc[u]
        /\ pc' \in [Thread -> {"idle", "enter", "build", "check", "body", "meter", "count",
                               "event", "engine"} \cup Saving]
        /\ month' \in [Thread -> Period]
    BY <2>1 DEF HostedTypeOK, Saving
  <2>2. holder' \in [Thread -> Thread \cup {Nobody}]
    BY <1>4 DEF Count, Issue, Revoke, Lock, HostedTypeOK
  <2>3. HostedTypeOK'
    BY <1>4, <2>1, <2>2, <2>6, TypesOfMemory DEF HostedTypeOK, fileVars, boundVars, pastVars
  <2>4. Places'
    BY <2>1, <2>6 DEF Places, Kind, Named, Saving
  <2>5. StoresFilled'
    BY <1>4, <2>1, <2>6, TypesOfMemory DEF StoresFilled, Inside, Saving
  <2> QED
    BY <2>3, <2>4, <2>5
<1>5. CASE Reserve(t)
  <2>1. ref[t] \in Thread /\ mem[ref[t]] \in Accounts /\ Named(t) \in Token /\ now \in Period
    BY <1>5 DEF Reserve, StoresFilled, Places, HostedTypeOK, Inside
  <2>2. Mine(t).used[now] \in Nat
    BY <2>1 DEF Mine, Named, Accounts, Account
  <2>3. HostedTypeOK'
    BY <1>5, <2>2 DEF Reserve, Moves, Lock, HostedTypeOK, fileVars, boundVars, pastVars
  <2>4. Places'
    BY <1>5 DEF Reserve, Moves, HostedTypeOK, Places, Kind, Named, Saving
  <2>5. StoresFilled'
    BY <1>5 DEF Reserve, Moves, HostedTypeOK, StoresFilled, Inside, Saving
  <2> QED
    BY <2>3, <2>4, <2>5
<1>6. CASE OpenTmp(t) \/ FillTmp(t) \/ SaveFails(t)
  <2>1. ref[t] \in Thread /\ mem[ref[t]] \in Accounts /\ pc[t] \in Saving
    BY <1>6 DEF OpenTmp, FillTmp, SaveFails, StoresFilled, Inside, Saving
  <2>2. /\ tmp' \in Accounts \cup {Torn, Nobody} /\ disk' \in Accounts \cup {Torn}
        /\ UNCHANGED <<mem, theStore, callVars, boundVars, pastVars>>
    BY <1>6, <2>1 DEF OpenTmp, FillTmp, SaveFails, HostedTypeOK, storeVars
  <2>3. /\ handle' \in [Thread -> {"none", "tmp", "file", "gone"}]
        /\ holder' \in [Thread -> Thread \cup {Nobody}]
        /\ pc' \in [Thread -> {"idle", "enter", "build", "check", "body", "meter", "count",
                               "event", "engine"} \cup Saving]
        /\ pc'[t] \in {"idle", "fill", "replace"} /\ \A u \in Thread \ {t} : pc'[u] = pc[u]
    BY <1>6 DEF OpenTmp, FillTmp, SaveFails, Moves, Unlock, HostedTypeOK, storeVars, Saving
  <2>4. HostedTypeOK'
    BY <2>2, <2>3 DEF HostedTypeOK, callVars, boundVars, pastVars
  <2>5. Places'
    BY <2>1, <2>2, <2>3 DEF Places, Kind, Named, Saving, callVars
  <2>6. StoresFilled'
    BY <2>1, <2>2, <2>3 DEF StoresFilled, Inside, Saving, callVars
  <2> QED
    BY <2>4, <2>5, <2>6
<1>7. CASE ReplaceFile(t)
  <2> DEFINE k == Named(t)
  <2>1. k \in Token /\ month[t] \in Period /\ Kind(t) \in {"run", "checkout", "cancel"}
    BY <1>7 DEF ReplaceFile, Places, HostedTypeOK, Saving
  <2>2. /\ started' \in {started, [started EXCEPT ![k][month[t]] = @ + 1]}
        /\ paid' \in {paid, paid \cup {k}} /\ cancelled' \in {cancelled, cancelled \cup {k}}
        /\ UNCHANGED <<mem, theStore, callVars, boundVars, minted, doubled>>
        /\ pc[t] = "replace" /\ \A u \in Thread \ {t} : pc'[u] = pc[u]
        /\ pc' \in [Thread -> {"idle", "enter", "build", "check", "body", "meter", "count",
                               "event", "engine"} \cup Saving]
        /\ pc'[t] \in {"idle", "engine"}
        /\ pc'[t] = "engine" => Kind(t) = "run"
    BY <1>7 DEF ReplaceFile, Moves, Named, Kind, HostedTypeOK
  <2>3. started' \in [Token -> [Period -> Nat]]
    <3>1. started[k][month[t]] + 1 \in Nat /\ started[k] \in [Period -> Nat]
      BY <2>1 DEF HostedTypeOK
    <3>2. [started[k] EXCEPT ![month[t]] = started[k][month[t]] + 1] \in [Period -> Nat]
      BY <2>1, <3>1
    <3>3. started' \in {started, [started EXCEPT ![k] =
                                   [started[k] EXCEPT ![month[t]] = started[k][month[t]] + 1]]}
      BY <2>2
    <3> HIDE DEF k
    <3> QED
      BY <2>1, <3>2, <3>3 DEF HostedTypeOK
  <2>4. disk' \in Accounts \cup {Torn} /\ tmp' = Nobody
    BY <1>7 DEF ReplaceFile, HostedTypeOK
  <2>5. /\ handle' \in [Thread -> {"none", "tmp", "file", "gone"}]
        /\ holder' \in [Thread -> Thread \cup {Nobody}]
    <3>1. \A u \in Thread : handle'[u] \in {"none", "tmp", "file", "gone"}
      BY <1>7, Zenon DEF ReplaceFile, HostedTypeOK
    <3>2. handle' = [u \in Thread |-> handle'[u]]
      BY <1>7, Zenon DEF ReplaceFile
    <3>3. holder' \in [Thread -> Thread \cup {Nobody}]
      BY <1>7 DEF ReplaceFile, Unlock, HostedTypeOK
    <3> QED
      BY <3>1, <3>2, <3>3
  <2>6. HostedTypeOK'
    BY <2>1, <2>2, <2>3, <2>4, <2>5 DEF HostedTypeOK, callVars, boundVars
  <2>7. Places'
    BY <2>1, <2>2 DEF Places, Kind, Named, Saving, callVars
  <2>8. StoresFilled'
    BY <2>2 DEF StoresFilled, Inside, Saving, callVars
  <2> QED
    BY <2>6, <2>7, <2>8
<1> QED
  BY <1>1, <1>2, <1>3, <1>4, <1>5, <1>6, <1>7 DEF Serve

(* Every variable holds a value of its kind, and whatever is used as a     *)
(* store holds accounts, also when two stores were built.                  *)
THEOREM HostedTypes == Spec => []HostedTypeOK
<1> USE HostedAssumption DEF TypesInv
<1>1. Init => TypesInv
  <2> SUFFICES ASSUME Init PROVE TypesInv
    OBVIOUS
  <2>1. disk \in Accounts /\ 1 \in Period
    BY DEF Init, Accounts, Account, Period
  <2>2. /\ now \in Period /\ month \in [Thread -> Period] /\ found \in [Thread -> Nat]
        /\ started \in [Token -> [Period -> Nat]]
        /\ crashes \in 0..MaxCrashes /\ requests \in 0..MaxRequests
    BY <2>1 DEF Init
  <2>3. HostedTypeOK
    BY <2>1, <2>2 DEF Init, HostedTypeOK, NoRequest
  <2>4. Places /\ StoresFilled
    BY DEF Init, Places, StoresFilled, Inside, Saving
  <2> QED
    BY <2>3, <2>4
<1>2. TypesInv /\ [Next]_vars => TypesInv'
  <2> SUFFICES ASSUME TypesInv, [Next]_vars PROVE TypesInv'
    OBVIOUS
  <2>1. ASSUME NEW t \in Thread, Arrive(t) \/ BodyArrives(t) \/ Serve(t) PROVE TypesInv'
    BY <2>1, ServeKeepsTypes
  <2>2. CASE Crash
    <3>1. HostedTypeOK'
      BY <2>2 DEF Crash, HostedTypeOK, NoRequest, Period, pastVars
    <3>2. Places' /\ StoresFilled'
      BY <2>2 DEF Crash, Places, StoresFilled, Inside, Saving
    <3> QED
      BY <3>1, <3>2
  <2>3. CASE NextMonth \/ Quiet \/ UNCHANGED vars
    <3>1. /\ UNCHANGED <<fileVars, storeVars, pc, callVars, crashes, requests, pastVars>>
          /\ now' \in Period
      BY <2>3 DEF NextMonth, Quiet, vars, boundVars, HostedTypeOK, Period
    <3>2. HostedTypeOK'
      BY <3>1 DEF HostedTypeOK, fileVars, storeVars, callVars, pastVars
    <3>3. Places' /\ StoresFilled'
      BY <3>1 DEF Places, StoresFilled, Kind, Named, storeVars, callVars
    <3> QED
      BY <3>2, <3>3
  <2> QED
    BY <2>1, <2>2, <2>3 DEF Next
<1> QED
  BY <1>1, <1>2, PTL DEF Spec

-----------------------------------------------------------------------------
(* store.py:6, :15: at every moment, also after a kill in the middle of a  *)
(* save, the file can be read back and knows every run that was admitted,  *)
(* every token that was paid for and every one that was revoked, as long   *)
(* as no two threads have built a store at once.                           *)
THEOREM AnswersAreDurable == Spec => []AnsweredIsDurable
<1>1. (~doubled => HostedInv) => AnsweredIsDurable
  BY DEF HostedInv, Data, DataTypes, WrittenDown, AnsweredIsDurable
<1> QED
  BY <1>1, HostedInvHolds, PTL

(* store.py:7: no more runs of a period reach the engine than the plan     *)
(* allows, for any number of threads, tokens, months and kills, as long as *)
(* no two threads have built a store at once.                              *)
THEOREM QuotaIsKept == Spec => []QuotaHolds
<1>1. (~doubled => HostedInv) => QuotaHolds
  <2> SUFFICES ASSUME HostedInv, NEW k \in Token, NEW p \in Period, Cap[k] # 0
               PROVE  started[k][p] <= Cap[k]
    BY DEF QuotaHolds
  <2>1. started[k][p] <= disk[k].used[p] /\ disk[k].used[p] <= Cap[k]
    BY DEF HostedInv, Data, WrittenDown, StoreAhead, Sane
  <2>2. started[k][p] \in Nat /\ disk[k].used[p] \in Nat /\ Cap[k] \in Nat
    BY HostedAssumption DEF HostedInv, Data, DataTypes, Accounts, Account
  <2> QED
    BY <2>1, <2>2
<1> QED
  BY <1>1, HostedInvHolds, PTL

(* app.py:53: a run that passed the check before its token was revoked, or *)
(* that comes after a restart, is not admitted once the revocation has     *)
(* been carried out, as long as no two threads have built a store at once. *)
THEOREM RevocationIsFinal == Spec => RevokeIsFinal
<1>1. (~doubled => HostedInv) /\ [Next]_vars
        => [~doubled => \A k \in cancelled : started'[k] = started[k]]_vars
  <2> SUFFICES ASSUME HostedInv, [Next]_vars, NEW k \in cancelled
               PROVE  started'[k] = started[k]
    OBVIOUS
  <2>1. CASE started' = started
    BY <2>1
  <2>2. ASSUME NEW t \in Thread, ReplaceFile(t), Kind(t) = "run" PROVE started'[k] = started[k]
    <3>1. /\ pc[t] = "replace"
          /\ started' = [started EXCEPT ![Named(t)][month[t]] = @ + 1]
      BY <2>2 DEF ReplaceFile, Kind, Named
    <3>2. theStore \in Thread /\ Mem(t).status = "active"
      BY <2>2, <3>1 DEF HostedInv, Control, Data, OneStoreUsed, InHand, Inside, Locked, Saving
    <3>3. k \in Token /\ mem[theStore][k].status = "revoked"
      BY <3>2 DEF HostedInv, Data, DataTypes, WrittenDown, StoreAhead, Live, Ahead
    <3>4. k # Named(t)
      BY <3>2, <3>3 DEF Mem
    <3> QED
      BY <3>1, <3>3, <3>4 DEF HostedInv, Data, DataTypes
  <2>3. started' = started \/ \E t \in Thread : ReplaceFile(t) /\ Kind(t) = "run"
    BY DEF Next, Arrive, Serve, ArriveRun, ArriveCheckout, ArriveCancel, UseStore, BuildStore,
       PublishStore, Check, BodyArrives, Refuse, Reserve, Count, Issue, Revoke, OpenTmp, FillTmp,
       ReplaceFile, SaveFails, EngineEnds, Crash, NextMonth, Quiet, pastVars, vars, Kind
  <2> QED
    BY <2>1, <2>2, <2>3
<1> QED
  BY <1>1, HostedInvHolds, PTL DEF Spec, RevokeIsFinal
=============================================================================
