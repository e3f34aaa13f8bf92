------------------------------- MODULE Daemon -------------------------------
(***************************************************************************)
(* The warm daemon (surfaces/daemon.py): `boostopt serve` processes, the   *)
(* thin clients that hand it their command over a per-user Unix socket and *)
(* run it themselves when no daemon answers (cli/main.py, main), `boostopt *)
(* serve --stop`, and the workspace files that commands of different       *)
(* processes record into: the baseline floors (baselines.py) and the       *)
(* rewrite cache (cache.py).                                               *)
(*                                                                         *)
(* A socket file is identified with the serve process that bound it: it    *)
(* is live while that process listens and stale afterwards.                *)
(***************************************************************************)
EXTENDS Integers, Sequences, FiniteSets

CONSTANTS
    Command,       \* invocations of `boostopt optimize` and `analyze`
    Server,        \* invocations of `boostopt serve`, with --stop or without
    None,          \* no socket file, no peer
    Torn,          \* a floor file cut short: it does not parse
    Gain(_),       \* the speedup a command measures
    MaxSignals     \* bound: kills and Ctrl-C of serve processes and clients

Peer == Command \union Server

ASSUME DaemonAssumption ==
    /\ Command \intersect Server = {}
    /\ None \notin Peer \union {"open", "sent", "left", "closed"} /\ MaxSignals \in Nat
    /\ \A set \in SUBSET Command : set # Torn
    /\ \A c \in Command : Gain(c) \in Nat \ {0}

VARIABLES
    sock,       \* the socket file: who bound it
    pc,         \* where each process is
    peer,       \* the peer a serve process has accepted
    backlog,    \* connections waiting to be accepted
    link,       \* each peer's connection
    job,        \* what is left of a command's run, and in which process
    floors,     \* .boostopt/baselines: the commands whose record it holds
    high,       \* .boostopt/cache: the speedup of its last line
    ran,        \* history: complete runs of a command
    recorded,   \* history: the commands that saved their record
    cut,        \* history: commands whose run a signal cut short or orphaned
    overlap,    \* history: did two commands ever run at once?
    crowded,    \* history: was a serve looking, binding or closing beside another?
    signals

vars == <<sock, pc, peer, backlog, link, job, floors, high, ran, recorded,
          cut, overlap, crowded, signals>>
files == <<floors, high>>
history == <<ran, recorded, cut, overlap, crowded>>

Idle == [by |-> None]

Loop == {"accept", "recv", "run", "answer"}
Listening(s) == pc[s] \in Loop \union {"close"}
Live == {s \in Server : Listening(s)}

(* Processes between a look at the socket and what they do about it.       *)
Passing == {s \in Server :
              pc[s] \in {"probe", "clear", "bind", "listen", "close", "unlink", "forget"}}

Go(p, at) == pc' = [pc EXCEPT ![p] = at]
Watch == crowded' = (crowded \/ \E p, q \in Passing' : p # q)

-----------------------------------------------------------------------------
(* A connection.  connect() succeeds while the file's owner listens, even  *)
(* when it is busy with another request.                                   *)

Connects == sock # None /\ Listening(sock)

Connect(p) ==
    /\ backlog' = [backlog EXCEPT ![sock] = Append(@, p)]
    /\ link' = [link EXCEPT ![p] = "open"]

(* The descriptors of a serve process that ends are closed: its peers read *)
(* end of file.                                                            *)
Hangup(s) ==
    /\ link' = [p \in Peer |->
                  IF (p = peer[s] \/ \E i \in DOMAIN backlog[s] : backlog[s][i] = p)
                       /\ link[p] \in {"open", "sent"}
                  THEN "reset" ELSE link[p]]
    /\ backlog' = [backlog EXCEPT ![s] = <<>>]
    /\ peer' = [peer EXCEPT ![s] = None]

-----------------------------------------------------------------------------
(* A command: engine work, then what it records in the workspace.          *)

Running == {c \in Command : job[c] # Idle}

(* The rewrite cache is loaded once, when the engine is made.              *)
Begin(c, p) ==
    /\ job' = [job EXCEPT ![c] = [by |-> p, at |-> "gate", mem |-> high, data |-> {}]]
    /\ overlap' = (overlap \/ Running # {})

Done(c) ==
    /\ job' = [job EXCEPT ![c] = Idle]
    /\ ran' = [ran EXCEPT ![c] = @ + 1]
    /\ IF job[c].by = c THEN Go(c, "done") ELSE Go(job[c].by, "answer")

(* Nothing is accepted, and nothing recorded.                              *)
Rejected(c) ==
    /\ job[c] # Idle /\ job[c].at = "gate"
    /\ Done(c)
    /\ UNCHANGED <<sock, peer, backlog, link, files, recorded, cut, overlap, crowded,
                   signals>>

(* As a bug would have it: the entry is written whatever was there.        *)
PutCacheAlways(c) ==
    /\ job[c] # Idle /\ job[c].at = "gate"
    /\ high' = Gain(c)
    /\ job' = [job EXCEPT ![c].at = "record"]
    /\ UNCHANGED <<sock, pc, peer, backlog, link, floors, history, signals>>

(* RewriteCache.put compares with what this process loaded, and appends.   *)
PutCache(c) ==
    /\ job[c] # Idle /\ job[c].at = "gate"
    /\ high' = IF job[c].mem >= Gain(c) THEN high ELSE Gain(c)
    /\ job' = [job EXCEPT ![c].at = "record"]
    /\ UNCHANGED <<sock, pc, peer, backlog, link, floors, history, signals>>

(* As a bug would have it: the file is opened for writing, then read.      *)
OpenBeforeLoad(c) ==
    /\ job[c] # Idle /\ job[c].at = "record"
    /\ job' = [job EXCEPT ![c].at = "save"]
    /\ floors' = Torn
    /\ UNCHANGED <<sock, pc, peer, backlog, link, high, history, signals>>

(* Baselines.record: load (a file that does not parse is no floors at      *)
(* all), then write_text in place, which empties the file first.           *)
LoadFloors(c) ==
    /\ job[c] # Idle /\ job[c].at = "record"
    /\ job' = [job EXCEPT ![c].at = "save",
                          ![c].data = IF floors = Torn THEN {} ELSE floors]
    /\ floors' = Torn
    /\ UNCHANGED <<sock, pc, peer, backlog, link, high, history, signals>>

SaveFloors(c) ==
    /\ job[c] # Idle /\ job[c].at = "save"
    /\ floors' = job[c].data \union {c}
    /\ recorded' = recorded \union {c}
    /\ Done(c)
    /\ UNCHANGED <<sock, peer, backlog, link, high, cut, overlap, crowded, signals>>

CommandStep(c) ==
    \/ Rejected(c) \/ PutCache(c)
    \/ LoadFloors(c) \/ SaveFloors(c)

-----------------------------------------------------------------------------
(* The client: main and try_client.                                        *)

RunLocally(c) ==
    /\ Go(c, "local")
    /\ Begin(c, c)
    /\ UNCHANGED <<sock, peer, backlog, files, ran, recorded, cut, crowded, signals>>

StartCommand(c) ==
    /\ pc[c] = "new"
    /\ \/ /\ Connects                          \* without --no-daemon
          /\ Connect(c)
          /\ Go(c, "send")
          /\ UNCHANGED <<sock, peer, job, files, history, signals>>
       \/ /\ RunLocally(c)                     \* with it, or nobody listens
          /\ UNCHANGED link

Send(p) ==
    /\ pc[p] = "send"
    /\ \/ /\ link[p] = "open"
          /\ link' = [link EXCEPT ![p] = "sent"]
          /\ Go(p, "wait")
       \/ /\ link[p] = "reset"
          /\ Go(p, "wait")
          /\ UNCHANGED link
    /\ UNCHANGED <<sock, peer, backlog, job, files, history, signals>>

(* As a bug would have it: the client gives up waiting and runs anyway.    *)
ReceiveTimesOut(c) ==
    /\ pc[c] = "wait"
    /\ \/ /\ link[c] = "reply"
          /\ Go(c, "done")
          /\ UNCHANGED <<sock, peer, backlog, link, job, files, history, signals>>
       \/ /\ link[c] \in {"reset", "sent"} /\ job[c] = Idle
          /\ RunLocally(c)
          /\ link' = [link EXCEPT ![c] = "left"]

(* The answer of the daemon, or end of file: then the command runs here.   *)
Receive(c) ==
    /\ pc[c] = "wait"
    /\ \/ /\ link[c] = "reply"
          /\ Go(c, "done")
          /\ UNCHANGED <<sock, peer, backlog, link, job, files, history, signals>>
       \/ /\ link[c] = "reset"
          /\ RunLocally(c)
          /\ UNCHANGED link

-----------------------------------------------------------------------------
(* serve --stop.                                                           *)

StartStop(k) ==
    /\ pc[k] = "new"
    /\ \/ /\ sock = None                       \* "no daemon running"
          /\ Go(k, "over")
          /\ UNCHANGED <<backlog, link>>
       \/ /\ Connects
          /\ Connect(k)
          /\ Go(k, "send")
       \/ /\ sock # None /\ ~Connects
          /\ Go(k, "forget")
          /\ UNCHANGED <<backlog, link>>
    /\ Watch
    /\ UNCHANGED <<sock, peer, job, files, ran, recorded, cut, overlap, signals>>

ClearStale(k) ==
    /\ pc[k] = "forget"
    /\ sock' = None
    /\ Go(k, "over")
    /\ UNCHANGED <<peer, backlog, link, job, files, history, signals>>

(* A reply, or end of file: either way "daemon stopped".                   *)
Stopped(k) ==
    /\ pc[k] = "wait" /\ link[k] \in {"reply", "reset"}
    /\ Go(k, "over")
    /\ UNCHANGED <<sock, peer, backlog, link, job, files, history, signals>>

-----------------------------------------------------------------------------
(* serve: refuse to double-start, clear a stale socket, bind and listen.   *)

(* As a bug would have it: whatever socket is there counts as stale.       *)
StartServeBlindly(s) ==
    /\ pc[s] = "new"
    /\ Go(s, IF sock = None THEN "bind" ELSE "clear")
    /\ UNCHANGED <<backlog, link>>
    /\ Watch
    /\ UNCHANGED <<sock, peer, job, files, ran, recorded, cut, overlap, signals>>

StartServe(s) ==
    /\ pc[s] = "new"
    /\ \/ /\ sock = None
          /\ Go(s, "bind")
          /\ UNCHANGED <<backlog, link>>
       \/ /\ Connects
          /\ Connect(s)
          /\ Go(s, "probe")
       \/ /\ sock # None /\ ~Connects
          /\ Go(s, "clear")
          /\ UNCHANGED <<backlog, link>>
    /\ Watch
    /\ UNCHANGED <<sock, peer, job, files, ran, recorded, cut, overlap, signals>>

(* "daemon already running": the probing connection is closed, unused.     *)
EndProbe(s) ==
    /\ pc[s] = "probe"
    /\ Go(s, "over")
    /\ link' = [link EXCEPT ![s] = "closed"]
    /\ UNCHANGED <<sock, peer, backlog, job, files, history, signals>>

Clear(s) ==
    /\ pc[s] = "clear"
    /\ sock' = None
    /\ Go(s, "bind")
    /\ UNCHANGED <<peer, backlog, link, job, files, history, signals>>

(* bind() fails when the file is there again: the process ends.            *)
Bind(s) ==
    /\ pc[s] = "bind"
    /\ IF sock = None
       THEN sock' = s /\ Go(s, "listen")
       ELSE Go(s, "over") /\ UNCHANGED sock
    /\ UNCHANGED <<peer, backlog, link, job, files, history, signals>>

Listen(s) ==
    /\ pc[s] = "listen"
    /\ Go(s, "accept")
    /\ UNCHANGED <<sock, peer, backlog, link, job, files, history, signals>>

-----------------------------------------------------------------------------
(* The loop: one request at a time.                                        *)

Accept(s) ==
    /\ pc[s] = "accept" /\ backlog[s] # <<>>
    /\ peer' = [peer EXCEPT ![s] = Head(backlog[s])]
    /\ backlog' = [backlog EXCEPT ![s] = Tail(@)]
    /\ Go(s, "recv")
    /\ UNCHANGED <<sock, link, job, files, history, signals>>

(* _recv_all reads to end of file, without a time limit.  A stop request   *)
(* is answered and ends the loop; a request that is empty or cut short is  *)
(* an error to be answered like any other.                                 *)
Request(s) ==
    /\ pc[s] = "recv" /\ link[peer[s]] \in {"sent", "left", "closed"}
    /\ LET p == peer[s] IN
       \/ /\ p \in Server /\ link[p] = "sent"
          /\ Go(s, "close")
          /\ link' = [link EXCEPT ![p] = "reply"]
          /\ Watch
          /\ UNCHANGED <<job, overlap>>
       \/ /\ p \in Command /\ link[p] \in {"sent", "left"}
          /\ Go(s, "run")
          /\ Begin(p, s)
          /\ UNCHANGED <<link, crowded>>
       \/ /\ link[p] = "closed"
          /\ Go(s, "answer")
          /\ UNCHANGED <<job, overlap, link, crowded>>
    /\ UNCHANGED <<sock, peer, backlog, files, ran, recorded, cut, signals>>

(* The reply.  It is sent outside the try block: a peer that has gone away *)
(* ends the loop.                                                          *)
Answer(s) ==
    /\ pc[s] = "answer"
    /\ IF link[peer[s]] \in {"left", "closed"}
       THEN /\ Go(s, "close")
            /\ UNCHANGED <<peer, link>>
       ELSE /\ Go(s, "accept")
            /\ link' = [link EXCEPT ![peer[s]] = "reply"]
            /\ peer' = [peer EXCEPT ![s] = None]
    /\ Watch
    /\ UNCHANGED <<sock, backlog, job, files, ran, recorded, cut, overlap, signals>>

(* As a bug would have it: the listening socket stays open.                *)
CloseForgetsQueue(s) ==
    /\ pc[s] = "close"
    /\ Go(s, "unlink")
    /\ UNCHANGED <<sock, peer, backlog, link, job, files, history, signals>>

(* finally: close the listening socket, then remove the file at the path.  *)
Close(s) ==
    /\ pc[s] = "close"
    /\ Hangup(s)
    /\ Go(s, "unlink")
    /\ UNCHANGED <<sock, job, files, history, signals>>

Unlink(s) ==
    /\ pc[s] = "unlink"
    /\ sock' = None
    /\ Go(s, "over")
    /\ UNCHANGED <<peer, backlog, link, job, files, history, signals>>

-----------------------------------------------------------------------------
(* Signals, at most MaxSignals of them.                                    *)

Served(s) == {c \in Command : job[c].by = s}
Orphaned(s) == Served(s) \union (IF pc[s] = "answer" THEN {peer[s]} \intersect Command ELSE {})

(* As a bug would have it: the request goes on after the loop has ended.   *)
InterruptKeepsJob(s) ==
    /\ pc[s] \in Loop /\ signals < MaxSignals
    /\ signals' = signals + 1
    /\ Go(s, "close")
    /\ Watch
    /\ UNCHANGED <<sock, peer, backlog, link, job, files, ran, recorded, cut, overlap>>

(* Ctrl-C in the loop drops the request and leaves through finally.        *)
Interrupt(s) ==
    /\ pc[s] \in Loop /\ signals < MaxSignals
    /\ signals' = signals + 1
    /\ Go(s, "close")
    /\ cut' = cut \union Orphaned(s)
    /\ job' = [c \in Command |-> IF c \in Served(s) THEN Idle ELSE job[c]]
    /\ Watch
    /\ UNCHANGED <<sock, peer, backlog, link, files, ran, recorded, overlap>>

(* A kill leaves the socket file behind.                                   *)
Kill(s) ==
    /\ pc[s] \in Loop \union {"listen", "close", "unlink"} /\ signals < MaxSignals
    /\ signals' = signals + 1
    /\ Go(s, "over")
    /\ Hangup(s)
    /\ cut' = cut \union Orphaned(s)
    /\ job' = [c \in Command |-> IF c \in Served(s) THEN Idle ELSE job[c]]
    /\ UNCHANGED <<sock, files, ran, recorded, overlap, crowded>>

(* The user stops a command: its connection is closed (a request already   *)
(* sent is still there to be read) and a run in its own process is cut.    *)
Quit(c) ==
    /\ pc[c] \in {"send", "wait", "local"} /\ signals < MaxSignals
    /\ signals' = signals + 1
    /\ Go(c, "gone")
    /\ link' = [link EXCEPT ![c] = CASE @ = "open" -> "closed" [] @ = "sent" -> "left"
                                     [] OTHER -> @]
    /\ IF job[c].by = c
       THEN job' = [job EXCEPT ![c] = Idle] /\ cut' = cut \union {c}
       ELSE UNCHANGED <<job, cut>>
    /\ UNCHANGED <<sock, peer, backlog, files, ran, recorded, overlap, crowded>>

-----------------------------------------------------------------------------

Init ==
    /\ sock = None
    /\ pc = [p \in Peer |-> "new"]
    /\ peer = [s \in Server |-> None]
    /\ backlog = [s \in Server |-> <<>>]
    /\ link = [p \in Peer |-> None]
    /\ job = [c \in Command |-> Idle]
    /\ floors = {} /\ high = 0
    /\ ran = [c \in Command |-> 0]
    /\ recorded = {} /\ cut = {} /\ overlap = FALSE /\ crowded = FALSE /\ signals = 0

ClientStep(c) == Send(c) \/ Receive(c) \/ CommandStep(c)

ServeStep(s) ==
    \/ ClearStale(s) \/ Send(s) \/ Stopped(s)
    \/ EndProbe(s) \/ Clear(s) \/ Bind(s) \/ Listen(s)
    \/ Accept(s) \/ Request(s) \/ Answer(s) \/ Close(s) \/ Unlink(s)

Next ==
    \/ \E c \in Command : StartCommand(c) \/ ClientStep(c) \/ Quit(c)
    \/ \E s \in Server : StartStop(s) \/ StartServe(s) \/ ServeStep(s) \/ Interrupt(s) \/ Kill(s)

(* Processes that were started keep running; nobody has to start one.      *)
Fairness ==
    /\ \A c \in Command : WF_vars(ClientStep(c))
    /\ \A s \in Server : WF_vars(ServeStep(s))

Spec == Init /\ [][Next]_vars /\ Fairness

-----------------------------------------------------------------------------
(* The shape of the state; a run belongs to the process that is busy with  *)
(* it (main.py:390, daemon.py:104).                                        *)
DaemonTypeOK ==
    /\ sock \in Server \union {None}
    /\ peer \in [Server -> Peer \union {None}]
    /\ \A s \in Server : backlog[s] \in Seq(Peer)
    /\ link \in [Peer -> {None, "open", "sent", "left", "reply", "reset", "closed"}]
    /\ floors = Torn \/ floors \subseteq Command
    /\ ran \in [Command -> 0 .. 2]
    /\ \A c \in Running :
         IF job[c].by = c THEN pc[c] = "local"
         ELSE pc[job[c].by] = "run" /\ peer[job[c].by] = c

(* Falling back to the client's own process (daemon.py:134) runs a command *)
(* a second time only when a signal took the daemon that had it: a busy    *)
(* daemon, a daemon that stops and a daemon that dies of another client    *)
(* never make a command run twice.                                         *)
RunsOnce == \A c \in Command : ran[c] + (IF c \in Running THEN 1 ELSE 0) > 1 => c \in cut

(* The floors are loaded, changed and saved without a lock between         *)
(* processes (baselines.py:129): the daemon's taking requests one at a     *)
(* time is what keeps a record from being lost.  Every command recorded    *)
(* stays recorded unless two commands ran at once or a signal cut one.     *)
FloorsKept == ~overlap /\ cut = {} /\ Running = {} => floors = recorded

(* "The high score only ever rises" (cache.py:42), as long as no two       *)
(* commands run at once: put compares with the entry its own process       *)
(* loaded, and the last line of the file wins.                             *)
HighScoreRises == [][~overlap' => high' >= high]_vars

(* "refuse to double-start" (daemon.py:77): as long as no two serve or     *)
(* stop commands are between their look at the socket and what they do     *)
(* about it, one daemon serves at most, and the socket leads to it.        *)
OneDaemon == ~crowded => \A s \in Live : Live = {s} /\ (pc[s] \in Loop => sock = s)

(* Whatever becomes of the daemon, a command that was started ends, with   *)
(* the daemon's answer or its own: stopping, interrupted, killed, orphaned *)
(* and crashed daemons let their clients go (daemon.py:110, 134).          *)
CommandsEnd ==
    \A c \in Command : pc[c] # "new" ~> pc[c] \in {"done", "gone"}

(* "never let one request kill the daemon" (daemon.py:105).                *)
RequestsNeverKill ==
    [][\A s \in Server :
         pc[s] \in Loop /\ pc'[s] = "close" =>
            \/ signals' > signals
            \/ pc[s] = "recv" /\ pc[peer[s]] = "wait"]_vars
=============================================================================
