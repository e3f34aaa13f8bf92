---------------------------- MODULE HostedServer ----------------------------
(***************************************************************************)
(* boostopt_server: the request handlers of app.py, one thread each, and   *)
(* the account store behind them (store.py), from which a run is metered   *)
(* before the engine may start, and in which payment events (billing.py)   *)
(* create and revoke tokens.  The store is one JSON file, held in memory   *)
(* by an AccountStore that the first request builds.                       *)
(*                                                                         *)
(* Payment events reach the store with a valid signature and a known plan; *)
(* the others are answered 400 and change nothing.  The accounts file      *)
(* exists when the server starts.                                          *)
(***************************************************************************)
EXTENDS Naturals, FiniteSets

CONSTANTS
    Thread,      \* handler threads; a store is named after its builder
    Token,       \* tokens, issued or not
    Seeded,      \* those in the file at the start
    Cap,         \* the monthly quota of a token's plan; 0 is unlimited
    Nobody, Torn,
    MaxPeriod, MaxCrashes, MaxRequests    \* bounds

Period == 1..MaxPeriod

ASSUME HostedAssumption ==
    /\ Seeded \subseteq Token /\ Cap \in [Token -> Nat] /\ Nobody \notin Thread
    /\ MaxPeriod \in Nat \ {0} /\ {MaxCrashes, MaxRequests} \subseteq Nat

VARIABLES
    disk,      \* the accounts file: Accounts, or Torn
    tmp,       \* its .tmp sibling: Accounts, Torn, or Nobody when there is none
    handle,    \* Thread -> where the file it has open ended up
    mem,       \* Thread -> _accounts of the store it built, or Nobody
    theStore,  \* _STORE
    holder,    \* store -> the thread inside its lock, or Nobody
    pc, goal,  \* Thread -> where its request stands; why it needs the store
    req,       \* Thread -> the request
    ref,       \* Thread -> the store default_store() gave it
    found,     \* Thread -> the usage consume() read
    month,     \* Thread -> the period it counted its run in
    now, crashes, requests,
    minted,    \* tokens ever drawn; secrets.token_urlsafe draws none twice
    started,   \* Token -> Period -> runs admitted to the engine
    paid, cancelled,   \* tokens whose creation, revocation was carried out
    doubled    \* a second thread has built a store while a first was at it

fileVars == <<disk, tmp, handle>>
storeVars == <<mem, theStore, holder>>
callVars == <<goal, req, ref, found, month>>
boundVars == <<now, crashes, requests>>
pastVars == <<minted, started, paid, cancelled, doubled>>
vars == <<fileVars, storeVars, pc, callVars, boundVars, pastVars>>

Account == [status : {"absent", "active", "revoked"}, used : [Period -> Nat]]
Accounts == [Token -> Account]

NoRequest == [kind |-> "none", token |-> Nobody]

Init ==
    /\ disk = [k \in Token |-> [status |-> IF k \in Seeded THEN "active" ELSE "absent",
                                used   |-> [p \in Period |-> 0]]]
    /\ tmp = Nobody /\ handle = [t \in Thread |-> "none"]
    /\ mem = [t \in Thread |-> Nobody] /\ theStore = Nobody
    /\ holder = [t \in Thread |-> Nobody]
    /\ pc = [t \in Thread |-> "idle"] /\ goal = [t \in Thread |-> "none"]
    /\ req = [t \in Thread |-> NoRequest] /\ ref = [t \in Thread |-> Nobody]
    /\ found = [t \in Thread |-> 0] /\ month = [t \in Thread |-> 1]
    /\ now = 1 /\ crashes = 0 /\ requests = 0
    /\ minted = Seeded /\ started = [k \in Token |-> [p \in Period |-> 0]]
    /\ paid = {} /\ cancelled = {} /\ doubled = FALSE

Moves(t, to) == pc' = [pc EXCEPT ![t] = to]

(* default_store() is called first, then the thread goes on to `why`.      *)
NeedsStore(t, why) == Moves(t, "enter") /\ goal' = [goal EXCEPT ![t] = why]

-----------------------------------------------------------------------------
(* do_POST: a run for a token, or a payment event.                         *)
ArriveRun(t, k) ==
    /\ pc[t] = "idle" /\ requests < MaxRequests
    /\ requests' = requests + 1
    /\ req' = [req EXCEPT ![t] = [kind |-> "run", token |-> k]]
    /\ NeedsStore(t, "check")
    /\ UNCHANGED <<fileVars, storeVars, ref, found, month, now, crashes, pastVars>>

ArriveCheckout(t, k) ==
    /\ pc[t] = "idle" /\ requests < MaxRequests /\ k \notin minted
    /\ requests' = requests + 1
    /\ minted' = minted \cup {k}
    /\ req' = [req EXCEPT ![t] = [kind |-> "checkout", token |-> k]]
    /\ NeedsStore(t, "event")
    /\ UNCHANGED <<fileVars, storeVars, ref, found, month, now, crashes,
                   started, paid, cancelled, doubled>>

ArriveCancel(t, k) ==
    /\ pc[t] = "idle" /\ requests < MaxRequests
    /\ requests' = requests + 1
    /\ req' = [req EXCEPT ![t] = [kind |-> "cancel", token |-> k]]
    /\ NeedsStore(t, "event")
    /\ UNCHANGED <<fileVars, storeVars, ref, found, month, now, crashes, pastVars>>

(* default_store(): there is one ...                                       *)
UseStore(t) ==
    /\ pc[t] = "enter" /\ theStore # Nobody
    /\ ref' = [ref EXCEPT ![t] = theStore]
    /\ Moves(t, goal[t])
    /\ UNCHANGED <<fileVars, storeVars, goal, req, found, month, boundVars, pastVars>>

(* ... or there is none and the thread builds it from the file, which must *)
(* parse.  There is no lock here: a second thread may be doing the same,   *)
(* and then there are two stores, each with its own memory and lock, over  *)
(* one file.                                                               *)
BuildStore(t) ==
    /\ pc[t] = "enter" /\ theStore = Nobody
    /\ doubled' = (doubled \/ \E u \in Thread : pc[u] = "build")
    /\ mem' = [mem EXCEPT ![t] = IF disk = Torn THEN Nobody ELSE disk]
    /\ Moves(t, IF disk = Torn THEN "idle" ELSE "build")
    /\ UNCHANGED <<fileVars, theStore, holder, callVars, boundVars,
                   minted, started, paid, cancelled>>

PublishStore(t) ==
    /\ pc[t] = "build"
    /\ theStore' = t
    /\ Moves(t, "enter")
    /\ UNCHANGED <<fileVars, mem, holder, callVars, boundVars, pastVars>>

-----------------------------------------------------------------------------
Unlocked(t) == holder[ref[t]] = Nobody

Lock(t) == holder' = [holder EXCEPT ![ref[t]] = t]
Unlock(t) == holder' = [holder EXCEPT ![ref[t]] = Nobody]

Mine(t) == mem[ref[t]][req[t].token]

(* entitlement.check: 401, or on to the body.                              *)
Check(t) ==
    /\ pc[t] = "check" /\ Unlocked(t)
    /\ Moves(t, IF Mine(t).status = "active" THEN "body" ELSE "idle")
    /\ UNCHANGED <<fileVars, storeVars, callVars, boundVars, pastVars>>

(* rfile.read(n) returns once the client has sent the n bytes it announced,*)
(* however long that takes.  A malformed body is answered 400 before       *)
(* anything is counted.                                                    *)
BodyArrives(t) ==
    /\ pc[t] = "body"
    /\ \/ Moves(t, "idle") /\ UNCHANGED goal
       \/ NeedsStore(t, "meter")
    /\ UNCHANGED <<fileVars, storeVars, req, ref, found, month, boundVars, pastVars>>

(* As a bug would have it: the last run of the month is let through twice. *)
RefusedLate(t) ==
    \/ Mine(t).status # "active"
    \/ Cap[req[t].token] # 0 /\ Mine(t).used[now] > Cap[req[t].token]

(* As a bug would have it: consume() relies on the check at the door.      *)
RefusedByQuotaOnly(t) ==
    Cap[req[t].token] # 0 /\ Mine(t).used[now] + 1 > Cap[req[t].token]

(* consume(): 429 for a token that is gone by now, or over its quota.      *)
Refused(t) ==
    \/ Mine(t).status # "active"
    \/ Cap[req[t].token] # 0 /\ Mine(t).used[now] + 1 > Cap[req[t].token]

Refuse(t) ==
    /\ pc[t] = "meter" /\ Unlocked(t) /\ Refused(t)
    /\ Moves(t, "idle")
    /\ UNCHANGED <<fileVars, storeVars, callVars, boundVars, pastVars>>

Reserve(t) ==
    /\ pc[t] = "meter" /\ Unlocked(t) /\ ~Refused(t)
    /\ Lock(t)
    /\ found' = [found EXCEPT ![t] = Mine(t).used[now]]
    /\ Moves(t, "count")
    /\ UNCHANGED <<fileVars, mem, theStore, goal, req, ref, month, boundVars, pastVars>>

(* The period is asked for again: the month may have changed.              *)
Count(t) ==
    /\ pc[t] = "count"
    /\ mem' = [mem EXCEPT ![ref[t]][req[t].token].used[now] = found[t] + 1]
    /\ month' = [month EXCEPT ![t] = now]
    /\ Moves(t, "open")
    /\ UNCHANGED <<fileVars, theStore, holder, goal, req, ref, found, boundVars, pastVars>>

(* issue() of the token drawn, and revoke() of the one named.              *)
Issue(t) ==
    /\ pc[t] = "event" /\ req[t].kind = "checkout" /\ Unlocked(t)
    /\ Lock(t)
    /\ mem' = [mem EXCEPT ![ref[t]][req[t].token].status = "active"]
    /\ Moves(t, "open")
    /\ UNCHANGED <<fileVars, theStore, callVars, boundVars, pastVars>>

Revoke(t) ==
    /\ pc[t] = "event" /\ req[t].kind = "cancel" /\ Unlocked(t)
    /\ IF Mine(t).status = "absent"
         THEN Moves(t, "idle") /\ UNCHANGED <<mem, holder>>
         ELSE /\ Lock(t)
              /\ mem' = [mem EXCEPT ![ref[t]][req[t].token].status = "revoked"]
              /\ Moves(t, "open")
    /\ UNCHANGED <<fileVars, theStore, callVars, boundVars, pastVars>>

-----------------------------------------------------------------------------
(* As a bug would have it: the accounts file itself is opened for writing. *)
OpenInPlace(t) ==
    /\ pc[t] = "open"
    /\ disk' = Torn /\ tmp' = mem[ref[t]]
    /\ handle' = [handle EXCEPT ![t] = "file"]
    /\ Moves(t, "fill")
    /\ UNCHANGED <<storeVars, callVars, boundVars, pastVars>>

(* _save(): the .tmp is truncated ...                                      *)
OpenTmp(t) ==
    /\ pc[t] = "open"
    /\ tmp' = Torn
    /\ handle' = [handle EXCEPT ![t] = "tmp"]
    /\ Moves(t, "fill")
    /\ UNCHANGED <<disk, storeVars, callVars, boundVars, pastVars>>

(* ... and filled.  Two stores share its name: the file a thread opened    *)
(* may hold what another wrote, have been renamed, or be gone.             *)
FillTmp(t) ==
    /\ pc[t] = "fill"
    /\ tmp' \in IF handle[t] = "tmp"
                 THEN {mem[ref[t]]} \cup (IF tmp = Torn THEN {} ELSE {Torn})
                 ELSE {tmp}
    /\ disk' = IF handle[t] = "file" THEN mem[ref[t]] ELSE disk
    /\ handle' = [handle EXCEPT ![t] = "none"]
    /\ Moves(t, "replace")
    /\ UNCHANGED <<storeVars, callVars, boundVars, pastVars>>

(* tmp.replace(): the file changes in one step and the lock is released.   *)
(* What was asked for is done: a run may start, an event is answered.      *)
ReplaceFile(t) ==
    /\ pc[t] = "replace" /\ tmp # Nobody
    /\ disk' = tmp /\ tmp' = Nobody
    /\ handle' = [u \in Thread |-> CASE handle[u] = "tmp" -> "file"
                                     [] handle[u] = "file" -> "gone"
                                     [] OTHER -> handle[u]]
    /\ Unlock(t)
    /\ LET k == req[t].token IN
       \/ /\ req[t].kind = "run"
          /\ started' = [started EXCEPT ![k][month[t]] = @ + 1]
          /\ Moves(t, "engine")
          /\ UNCHANGED <<paid, cancelled>>
       \/ /\ req[t].kind = "checkout" /\ paid' = paid \cup {k}
          /\ Moves(t, "idle")
          /\ UNCHANGED <<started, cancelled>>
       \/ /\ req[t].kind = "cancel" /\ cancelled' = cancelled \cup {k}
          /\ Moves(t, "idle")
          /\ UNCHANGED <<started, paid>>
    /\ UNCHANGED <<mem, theStore, callVars, boundVars, minted, doubled>>

Saving == {"open", "fill", "replace"}

(* As a bug would have it: the lock is not released on the way out.        *)
SaveFailsLocked(t) ==
    /\ pc[t] \in Saving
    /\ handle' = [handle EXCEPT ![t] = "none"]
    /\ Moves(t, "idle")
    /\ UNCHANGED <<disk, tmp, storeVars, callVars, boundVars, pastVars>>

(* An OSError, which nobody catches: the connection is dropped, the change *)
(* stays in memory.                                                        *)
SaveFails(t) ==
    /\ pc[t] \in Saving
    /\ handle' = [handle EXCEPT ![t] = "none"]
    /\ Unlock(t)
    /\ Moves(t, "idle")
    /\ UNCHANGED <<disk, tmp, mem, theStore, callVars, boundVars, pastVars>>

(* optimize_hosted returns (200) or raises (500); the run stays counted.   *)
EngineEnds(t) ==
    /\ pc[t] = "engine"
    /\ Moves(t, "idle")
    /\ UNCHANGED <<fileVars, storeVars, callVars, boundVars, pastVars>>

-----------------------------------------------------------------------------
(* The server is killed, and started again by its first request.           *)
Crash ==
    /\ crashes < MaxCrashes
    /\ crashes' = crashes + 1
    /\ pc' = [t \in Thread |-> "idle"] /\ goal' = [t \in Thread |-> "none"]
    /\ req' = [t \in Thread |-> NoRequest] /\ ref' = [t \in Thread |-> Nobody]
    /\ found' = [t \in Thread |-> 0] /\ month' = [t \in Thread |-> 1]
    /\ handle' = [t \in Thread |-> "none"]
    /\ mem' = [t \in Thread |-> Nobody] /\ theStore' = Nobody
    /\ holder' = [t \in Thread |-> Nobody]
    /\ UNCHANGED <<disk, tmp, now, requests, pastVars>>

NextMonth ==
    /\ now < MaxPeriod
    /\ now' = now + 1
    /\ UNCHANGED <<fileVars, storeVars, pc, callVars, crashes, requests, pastVars>>

Arrive(t) == \E k \in Token : ArriveRun(t, k) \/ ArriveCheckout(t, k) \/ ArriveCancel(t, k)

Serve(t) ==
    \/ UseStore(t) \/ BuildStore(t) \/ PublishStore(t)
    \/ Check(t) \/ Refuse(t) \/ Reserve(t) \/ Count(t)
    \/ Issue(t) \/ Revoke(t)
    \/ OpenTmp(t) \/ FillTmp(t) \/ ReplaceFile(t) \/ SaveFails(t)
    \/ EngineEnds(t)

Quiet == requests = MaxRequests /\ (\A t \in Thread : pc[t] = "idle") /\ UNCHANGED vars

Next ==
    \/ \E t \in Thread : Arrive(t) \/ BodyArrives(t) \/ Serve(t)
    \/ Crash \/ NextMonth \/ Quiet

(* Every handler thread is scheduled, and the engine, which runs generated *)
(* programs only, under a timeout each, returns or raises.  Requests, the  *)
(* rest of a body, crashes and months owe nothing.                         *)
Spec == Init /\ [][Next]_vars /\ \A t \in Thread : WF_vars(Serve(t))

-----------------------------------------------------------------------------
(* Every variable holds a value of its kind.                               *)
HostedTypeOK ==
    /\ disk \in Accounts \cup {Torn}
    /\ tmp \in Accounts \cup {Torn, Nobody}
    /\ handle \in [Thread -> {"none", "tmp", "file", "gone"}]
    /\ mem \in [Thread -> Accounts \cup {Nobody}]
    /\ theStore \in Thread \cup {Nobody}
    /\ holder \in [Thread -> Thread \cup {Nobody}]
    /\ pc \in [Thread -> {"idle", "enter", "build", "check", "body", "meter", "count",
                          "event", "engine"} \cup Saving]
    /\ goal \in [Thread -> {"none", "check", "meter", "event"}]
    /\ req \in [Thread -> [kind : {"none", "run", "checkout", "cancel"},
                           token : Token \cup {Nobody}]]
    /\ ref \in [Thread -> Thread \cup {Nobody}]
    /\ found \in [Thread -> Nat] /\ month \in [Thread -> Period]
    /\ now \in Period /\ crashes \in 0..MaxCrashes /\ requests \in 0..MaxRequests
    /\ doubled \in BOOLEAN /\ minted \subseteq Token /\ paid \subseteq Token /\ cancelled \subseteq Token
    /\ started \in [Token -> [Period -> Nat]]

(* "every run is metered - counted per billing period and capped at the    *)
(* plan's monthly quota" (store.py:7): whatever the threads, crashes and   *)
(* month ends, no more runs of a period reach the engine than the plan     *)
(* allows, as long as no two threads have built a store at once.           *)
QuotaHolds ==
    ~doubled => \A k \in Token, p \in Period : Cap[k] # 0 => started[k][p] <= Cap[k]

(* The sentence as it stands, which two threads with the first requests    *)
(* refute: each builds a store (store.py:154-158) and counts for itself.   *)
EveryRunIsMetered ==
    \A k \in Token, p \in Period : Cap[k] # 0 => started[k][p] <= Cap[k]

(* "tokens survive restarts" (store.py:6) and "the on-disk write is        *)
(* atomic" (store.py:15): at every moment the file can be read back, and   *)
(* knows every run that was admitted, every token that was paid for and    *)
(* every one that was revoked, as long as there was one store at a time.   *)
AnsweredIsDurable ==
    ~doubled =>
        /\ disk \in Accounts
        /\ \A k \in paid : disk[k].status # "absent"
        /\ \A k \in cancelled : disk[k].status = "revoked"
        /\ \A k \in Token, p \in Period : started[k][p] <= disk[k].used[p]

(* Once a revocation has been carried out, no run of that token is         *)
(* admitted any more: not one that passed the check before, and not after  *)
(* a restart, as long as there was one store at a time.                    *)
RevokeIsFinal ==
    [][~doubled => \A k \in cancelled : started'[k] = started[k]]_vars

(* No thread can do more for its request: there is none, or its body is    *)
(* still to come.                                                          *)
Waits(t) == pc[t] \in {"idle", "body"}

(* Every request comes to an end or to the wait for its body, and one that *)
(* has its body comes to an end, whatever fails and however many stores    *)
(* there are: no lock is kept.                                             *)
RequestsEnd == \A t \in Thread : []<>Waits(t)
=============================================================================
