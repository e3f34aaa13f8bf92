----------------------------- MODULE DaemonProofs -----------------------------
(***************************************************************************)
(* For any number of commands, serve processes and signals: a command runs *)
(* once unless a signal took its daemon, one daemon serves unless two were *)
(* started or stopped at once, and what commands record one after another  *)
(* is kept.                                                                *)
(***************************************************************************)
EXTENDS Daemon, SequenceTheorems, TLAPS

CommandAt == {"new", "send", "wait", "local", "done", "gone"}
ServerAt == {"new", "probe", "clear", "bind", "listen", "forget", "send", "wait",
             "accept", "recv", "run", "answer", "close", "unlink", "over"}
Run == [by : Peer, at : {"gate", "record", "save"}, mem : Nat, data : SUBSET Command]

ControlTypes ==
    /\ sock \in Server \union {None}
    /\ pc \in [Peer -> CommandAt \union ServerAt]
    /\ \A c \in Command : pc[c] \in CommandAt
    /\ \A s \in Server : pc[s] \in ServerAt
    /\ peer \in [Server -> Peer \union {None}]
    /\ backlog \in [Server -> Seq(Peer)]
    /\ link \in [Peer -> {None, "open", "sent", "left", "reply", "reset", "closed"}]
DataTypes ==
    /\ job \in [Command -> Run \union {Idle}]
    /\ floors = Torn \/ floors \subseteq Command
    /\ high \in Nat /\ ran \in [Command -> Nat]
    /\ recorded \subseteq Command /\ cut \subseteq Command
    /\ overlap \in BOOLEAN /\ crowded \in BOOLEAN

(* A run belongs to the process that is busy with it, and a serve process  *)
(* has a peer as long as it is busy with one.                              *)
Belongs(c) ==
    job[c] # Idle =>
        IF job[c].by = c THEN pc[c] = "local"
        ELSE job[c].by \in Server /\ pc[job[c].by] = "run" /\ peer[job[c].by] = c
Attends(s) ==
    /\ pc[s] \in {"recv", "run", "answer"} => peer[s] \in Peer
    /\ pc[s] = "run" => peer[s] \in Command
    /\ peer[s] # None => pc[s] \in {"recv", "run", "answer", "close"}
Owners == /\ \A c \in Command : Belongs(c)
          /\ \A s \in Server : Attends(s)

Control == ControlTypes /\ DataTypes /\ Owners

-----------------------------------------------------------------------------
(* The constants, spelt out.                                               *)
LEMMA Distinct ==
    /\ Command \intersect Server = {}
    /\ None \notin Peer \union {"open", "sent", "left", "closed"}
    /\ Peer = Command \union Server
    /\ \A c \in Command : Gain(c) \in Nat /\ Gain(c) > 0
    /\ Torn \notin SUBSET Command
    /\ \A r \in Run : r # Idle
  BY DaemonAssumption DEF DaemonAssumption, Peer, Run, Idle

LEMMA InitControl == Init => Control
  <1> SUFFICES ASSUME Init PROVE Control
    OBVIOUS
  <1>1. ControlTypes
    BY DEF Init, ControlTypes, Peer, CommandAt, ServerAt
  <1>2. DataTypes
    BY DEF Init, DataTypes
  <1>3. Owners
    BY Distinct DEF Init, Owners, Belongs, Attends
  <1> QED BY <1>1, <1>2, <1>3 DEF Control

(* A step of a process that is not at a command's work.                    *)
LEMMA OwnersStay ==
    ASSUME Control, NEW p \in Peer, NEW a, Go(p, a), pc[p] \notin {"run", "local"},
           UNCHANGED job, DOMAIN peer' = Server,
           \A s \in Server : s # p => peer'[s] = peer[s],
           p \in Server => Attends(p)'
    PROVE  Owners'
  <1>1. \A q \in Peer : q # p => pc'[q] = pc[q]
    BY DEF Go, Control, ControlTypes
  <1>2. \A c \in Command : Belongs(c)'
    BY <1>1, Distinct DEF Control, Owners, Belongs
  <1>3. \A s \in Server : Attends(s)'
    BY <1>1, Distinct DEF Control, Owners, Attends
  <1> QED BY <1>2, <1>3 DEF Owners

(* The types of a step of a process's own position.                        *)
LEMMA Positions ==
    ASSUME Control, NEW p \in Peer, NEW a, Go(p, a),
           p \in Command => a \in CommandAt, p \in Server => a \in ServerAt
    PROVE  /\ pc' \in [Peer -> CommandAt \union ServerAt] /\ pc'[p] = a
           /\ \A q \in Peer : q # p => pc'[q] = pc[q]
           /\ \A c \in Command : pc'[c] \in CommandAt
           /\ \A s \in Server : pc'[s] \in ServerAt
  BY Distinct DEF Go, Control, ControlTypes

(* Steps that move one process and change only the socket or a link.       *)
LEMMA PlainStep ==
    ASSUME Control, NEW p \in Peer, NEW a, Go(p, a), pc[p] \notin {"run", "local"},
           p \in Command => a \in CommandAt, p \in Server => a \in ServerAt,
           UNCHANGED <<peer, job, files, ran, recorded, cut, overlap>>,
           sock' \in Server \union {None}, backlog' \in [Server -> Seq(Peer)],
           link' \in [Peer -> {None, "open", "sent", "left", "reply", "reset", "closed"}],
           crowded' \in BOOLEAN,
           p \in Server => peer[p] = None /\ a \notin {"recv", "run", "answer"}
    PROVE  Control'
  <1>1. ControlTypes'
    BY Positions DEF Control, ControlTypes
  <1>2. DataTypes'
    BY DEF Control, DataTypes, files
  <1>3. p \in Server => Attends(p)'
    BY Positions, Distinct DEF Attends
  <1>4. Owners'
    BY <1>3, OwnersStay DEF Control, ControlTypes
  <1> QED BY <1>1, <1>2, <1>4 DEF Control

LEMMA Connecting ==
    ASSUME Control, NEW p \in Peer, Connects, Connect(p)
    PROVE  /\ sock \in Server
           /\ backlog' \in [Server -> Seq(Peer)]
           /\ link' \in [Peer -> {None, "open", "sent", "left", "reply", "reset", "closed"}]
  <1>1. sock \in Server
    BY DEF Connects, Control, ControlTypes
  <1>2. Append(backlog[sock], p) \in Seq(Peer)
    BY <1>1 DEF Control, ControlTypes
  <1> QED BY <1>1, <1>2 DEF Connect, Control, ControlTypes

LEMMA StoppingControl ==
    ASSUME Control, NEW k \in Server,
           \/ StartStop(k) \/ ClearStale(k) \/ Stopped(k)
           \/ StartServe(k) \/ EndProbe(k) \/ Clear(k) \/ Bind(k) \/ Listen(k) \/ Unlink(k)
    PROVE  Control'
  <1>1. /\ UNCHANGED <<peer, job, files, ran, recorded, cut, overlap>>
        /\ pc[k] \in {"new", "forget", "wait", "probe", "clear", "bind", "listen", "unlink"}
        /\ k \in Peer /\ k \notin Command
    BY Distinct DEF StartStop, ClearStale, Stopped, StartServe, EndProbe, Clear, Bind, Listen,
       Unlink, history
  <1>2. peer[k] = None
    BY <1>1 DEF Control, Owners, Attends
  <1>3. crowded' \in BOOLEAN
    BY DEF StartStop, ClearStale, Stopped, StartServe, EndProbe, Clear, Bind, Listen,
       Unlink, history, Watch, Control, DataTypes
  <1>4. \E a \in ServerAt \ {"recv", "run", "answer"} : Go(k, a)
    BY DEF StartStop, ClearStale, Stopped, StartServe, EndProbe, Clear, Bind, Listen,
       Unlink, ServerAt
  <1>5. sock' \in Server \union {None}
    BY DEF StartStop, ClearStale, Stopped, StartServe, EndProbe, Clear, Bind, Listen,
       Unlink, Control, ControlTypes
  <1>6. /\ backlog' \in [Server -> Seq(Peer)]
        /\ link' \in [Peer -> {None, "open", "sent", "left", "reply", "reset", "closed"}]
    <2>1. CASE Connects /\ Connect(k)
      BY <1>1, <2>1, Connecting
    <2>2. CASE UNCHANGED backlog /\ (link' = link \/ link' = [link EXCEPT ![k] = "closed"])
      BY <2>2 DEF Control, ControlTypes
    <2> QED BY <2>1, <2>2 DEF StartStop, ClearStale, Stopped, StartServe, EndProbe, Clear,
         Bind, Listen, Unlink
  <1> QED BY <1>1, <1>2, <1>3, <1>4, <1>5, <1>6, PlainStep

LEMMA SendControl ==
    ASSUME Control, NEW p \in Peer, Send(p)
    PROVE  Control'
  <1>1. /\ UNCHANGED <<sock, peer, backlog, job, files, ran, recorded, cut, overlap, crowded>>
        /\ pc[p] = "send" /\ Go(p, "wait")
        /\ link' = link \/ link' = [link EXCEPT ![p] = "sent"]
    BY DEF Send, history
  <1>2. p \in Server => peer[p] = None
    BY <1>1 DEF Control, Owners, Attends
  <1>3. /\ sock' \in Server \union {None} /\ backlog' \in [Server -> Seq(Peer)]
        /\ link' \in [Peer -> {None, "open", "sent", "left", "reply", "reset", "closed"}]
        /\ crowded' \in BOOLEAN /\ "wait" \in CommandAt /\ "wait" \in ServerAt
    BY <1>1 DEF Control, ControlTypes, DataTypes, CommandAt, ServerAt
  <1> QED BY <1>1, <1>2, <1>3, PlainStep

(* A command is about to run in a process p.                               *)
LEMMA Beginning ==
    ASSUME Control, NEW c \in Command, NEW p \in Peer, Begin(c, p)
    PROVE  /\ job' \in [Command -> Run \union {Idle}] /\ overlap' \in BOOLEAN
           /\ job'[c] # Idle /\ job'[c].by = p
           /\ \A d \in Command : d # c => job'[d] = job[d]
  <1> DEFINE j == [by |-> p, at |-> "gate", mem |-> high, data |-> {}]
  <1>1. j \in Run /\ j.by = p
    BY DEF Run, Control, DataTypes
  <1>2. job' = [job EXCEPT ![c] = j] /\ overlap' \in BOOLEAN
    BY DEF Begin, Control, DataTypes
  <1> HIDE DEF j
  <1> QED BY <1>1, <1>2, Distinct DEF Control, DataTypes

LEMMA RunLocallyControl ==
    ASSUME Control, NEW c \in Command, RunLocally(c), pc[c] # "local",
           link' = link
    PROVE  Control'
  <1>1. /\ UNCHANGED <<sock, peer, backlog, link, files, ran, recorded, cut, crowded>>
        /\ Go(c, "local") /\ Begin(c, c)
    BY DEF RunLocally
  <1>2. c \in Peer /\ c \notin Server /\ "local" \in CommandAt
    BY Distinct DEF CommandAt
  <1>3. ControlTypes'
    BY <1>1, <1>2, Positions DEF Control, ControlTypes
  <1>4. DataTypes'
    BY <1>1, <1>2, Beginning DEF Control, DataTypes, files
  <1>5. pc'[c] = "local" /\ \A q \in Peer : q # c => pc'[q] = pc[q]
    BY <1>1, <1>2, Positions
  <1>6. /\ job'[c].by = c
        /\ \A d \in Command : d # c => job'[d] = job[d]
    BY <1>1, <1>2, Beginning
  <1>7. \A d \in Command : Belongs(d)'
    BY <1>1, <1>2, <1>5, <1>6, Distinct DEF Control, Owners, Belongs
  <1>8. \A s \in Server : Attends(s)'
    BY <1>1, <1>2, <1>5, Distinct DEF Control, Owners, Attends
  <1> QED BY <1>3, <1>4, <1>7, <1>8 DEF Control, Owners

LEMMA StartCommandControl ==
    ASSUME Control, NEW c \in Command, StartCommand(c)
    PROVE  Control'
  <1>1. c \in Peer /\ c \notin Server /\ pc[c] = "new"
    BY Distinct DEF StartCommand
  <1>2. CASE RunLocally(c) /\ UNCHANGED link
    BY <1>1, <1>2, RunLocallyControl
  <1>3. CASE /\ Connects /\ Connect(c) /\ Go(c, "send")
             /\ UNCHANGED <<sock, peer, job, files, history, signals>>
    <2>1. "send" \in CommandAt /\ sock' \in Server \union {None} /\ crowded' \in BOOLEAN
      BY <1>3 DEF CommandAt, Control, ControlTypes, DataTypes, history
    <2>2. UNCHANGED <<peer, job, files, ran, recorded, cut, overlap>>
      BY <1>3 DEF history
    <2> QED BY <1>1, <1>3, <2>1, <2>2, Connecting, PlainStep
  <1> QED BY <1>2, <1>3 DEF StartCommand

LEMMA ReceiveControl ==
    ASSUME Control, NEW c \in Command, Receive(c)
    PROVE  Control'
  <1>1. c \in Peer /\ c \notin Server /\ pc[c] = "wait"
    BY Distinct DEF Receive
  <1>2. CASE RunLocally(c) /\ UNCHANGED link
    BY <1>1, <1>2, RunLocallyControl
  <1>3. CASE /\ Go(c, "done")
             /\ UNCHANGED <<sock, peer, backlog, link, job, files, history, signals>>
    <2>1. /\ "done" \in CommandAt /\ sock' \in Server \union {None} /\ crowded' \in BOOLEAN
          /\ backlog' \in [Server -> Seq(Peer)]
          /\ link' \in [Peer -> {None, "open", "sent", "left", "reply", "reset", "closed"}]
      BY <1>3 DEF CommandAt, Control, ControlTypes, DataTypes, history
    <2>2. UNCHANGED <<peer, job, files, ran, recorded, cut, overlap>>
      BY <1>3 DEF history
    <2> QED BY <1>1, <1>3, <2>1, <2>2, PlainStep
  <1> QED BY <1>2, <1>3 DEF Receive

-----------------------------------------------------------------------------
(* The steps of a run.                                                     *)
LEMMA RunsAt ==
    ASSUME Control, NEW c \in Command, job[c] # Idle
    PROVE  /\ job[c] \in Run /\ job[c].by \in Peer
           /\ IF job[c].by = c THEN pc[c] = "local"
              ELSE job[c].by \in Server /\ pc[job[c].by] = "run" /\ peer[job[c].by] = c
  BY DEF Control, DataTypes, Owners, Belongs, Run

(* Its end: the process that ran it goes on.                               *)
LEMMA Ended ==
    ASSUME Control, NEW c \in Command, job[c] # Idle, Done(c),
           UNCHANGED <<sock, peer, backlog, link>>
    PROVE  /\ ControlTypes' /\ Owners' /\ ran' \in [Command -> Nat]
           /\ job' \in [Command -> Run \union {Idle}] /\ job'[c] = Idle
           /\ \A d \in Command : d # c => job'[d] = job[d]
  <1> DEFINE p == job[c].by
             a == IF p = c THEN "done" ELSE "answer"
  <1>1. /\ p \in Peer /\ Go(p, a) /\ pc[p] \in {"local", "run"}
        /\ IF p = c THEN pc[c] = "local"
           ELSE p \in Server /\ pc[p] = "run" /\ peer[p] = c
    BY RunsAt DEF Done
  <1>2. (p \in Command => a \in CommandAt) /\ (p \in Server => a \in ServerAt)
    BY <1>1, Distinct DEF CommandAt, ServerAt
  <1>3. /\ ControlTypes' /\ pc'[p] = a
        /\ \A q \in Peer : q # p => pc'[q] = pc[q]
    BY <1>1, <1>2, Positions DEF Control, ControlTypes
  <1>4. /\ job' \in [Command -> Run \union {Idle}] /\ job'[c] = Idle
        /\ ran' \in [Command -> Nat]
        /\ \A d \in Command : d # c => job'[d] = job[d]
    BY DEF Done, Control, DataTypes
  <1>5. ASSUME NEW d \in Command, d # c, job[d] # Idle
        PROVE  job[d].by # p
    <2>1. IF job[d].by = d THEN pc[d] = "local"
          ELSE job[d].by \in Server /\ pc[job[d].by] = "run" /\ peer[job[d].by] = d
      BY <1>5, RunsAt
    <2> QED BY <1>1, <1>5, <2>1, Distinct
  <1> HIDE DEF p, a
  <1>6. \A d \in Command : Belongs(d)'
    <2> SUFFICES ASSUME NEW d \in Command PROVE Belongs(d)'
      OBVIOUS
    <2>1. CASE d = c \/ job[d] = Idle
      BY <1>4, <2>1 DEF Belongs
    <2>2. CASE d # c /\ job[d] # Idle
      <3>1. job[d].by \in Peer /\ job[d].by # p /\ job'[d] = job[d]
        BY <1>4, <1>5, <2>2, RunsAt
      <3> QED BY <1>3, <2>2, <3>1, Distinct DEF Belongs, Control, Owners
    <2> QED BY <2>1, <2>2
  <1>7. ASSUME NEW s \in Server PROVE Attends(s)'
    <2>1. CASE s # p
      BY <1>3, <1>7, <2>1, Distinct DEF Control, Owners, Attends
    <2>2. CASE s = p
      <3>1. peer[s] = c /\ a = "answer"
        BY <1>1, <1>7, <2>2, Distinct DEF a
      <3> QED BY <1>3, <2>2, <3>1, Distinct DEF Attends
    <2> QED BY <2>1, <2>2
  <1> QED BY <1>3, <1>4, <1>6, <1>7 DEF Owners

LEMMA Continued ==
    ASSUME Control, NEW c \in Command, job[c] # Idle, NEW j \in Run, j.by = job[c].by,
           job' = [job EXCEPT ![c] = j], UNCHANGED <<sock, pc, peer, backlog, link>>
    PROVE  /\ ControlTypes' /\ Owners' /\ job' \in [Command -> Run \union {Idle}]
  <1>1. ControlTypes'
    BY DEF Control, ControlTypes
  <1>2. job' \in [Command -> Run \union {Idle}] /\ job'[c] = j
        /\ \A d \in Command : d # c => job'[d] = job[d]
    BY DEF Control, DataTypes
  <1>3. \A d \in Command : Belongs(d)'
    BY <1>2, Distinct DEF Control, Owners, Belongs
  <1>4. \A s \in Server : Attends(s)'
    BY DEF Control, Owners, Attends
  <1> QED BY <1>1, <1>2, <1>3, <1>4 DEF Owners

LEMMA CommandStepControl ==
    ASSUME Control, NEW c \in Command, CommandStep(c)
    PROVE  Control'
  <1>1. job[c] # Idle /\ job[c] \in Run /\ UNCHANGED <<sock, peer, backlog, link>>
    BY RunsAt DEF CommandStep, Rejected, PutCache, LoadFloors, SaveFloors
  <1>2. CASE Rejected(c)
    <2>1. DataTypes'
      BY <1>1, <1>2, Ended DEF Rejected, Control, DataTypes, files
    <2> QED BY <1>1, <1>2, <2>1, Ended DEF Rejected, Control
  <1>3. CASE SaveFloors(c)
    <2>1. job[c].data \subseteq Command
      BY <1>1 DEF Run
    <2>2. DataTypes'
      BY <1>1, <1>3, <2>1, Ended DEF SaveFloors, Control, DataTypes
    <2> QED BY <1>1, <1>3, <2>2, Ended DEF SaveFloors, Control
  <1>4. CASE PutCache(c)
    <2> DEFINE j == [job[c] EXCEPT !.at = "record"]
    <2>1. j \in Run /\ j.by = job[c].by
      BY <1>1 DEF Run
    <2>2. job' = [job EXCEPT ![c] = j] /\ pc' = pc
      BY <1>4 DEF PutCache
    <2> HIDE DEF j
    <2>3. ControlTypes' /\ Owners' /\ job' \in [Command -> Run \union {Idle}]
      BY <1>1, <2>1, <2>2, Continued
    <2>4. high' \in Nat
      BY <1>4, Distinct DEF PutCache, Control, DataTypes
    <2> QED BY <1>4, <2>3, <2>4 DEF PutCache, Control, DataTypes, history
  <1>5. CASE LoadFloors(c)
    <2> DEFINE data == IF floors = Torn THEN {} ELSE floors
               j == [job[c] EXCEPT !.at = "save", !.data = data]
    <2>1. data \subseteq Command
      BY DEF Control, DataTypes
    <2>2. j \in Run /\ j.by = job[c].by
      BY <1>1, <2>1 DEF Run
    <2>3. job' = [job EXCEPT ![c] = j] /\ pc' = pc
      BY <1>5 DEF LoadFloors
    <2> HIDE DEF j
    <2>4. ControlTypes' /\ Owners' /\ job' \in [Command -> Run \union {Idle}]
      BY <1>1, <2>2, <2>3, Continued
    <2> QED BY <1>5, <2>4 DEF LoadFloors, Control, DataTypes, history
  <1> QED BY <1>2, <1>3, <1>4, <1>5 DEF CommandStep

-----------------------------------------------------------------------------
(* The loop, and its end.                                                  *)
LEMMA LoopTypes ==
    ASSUME Control, NEW s \in Server,
           Accept(s) \/ Request(s) \/ Answer(s) \/ Close(s) \/ Interrupt(s) \/ Kill(s)
    PROVE  /\ ControlTypes' /\ crowded' \in BOOLEAN
           /\ \A q \in Peer : q # s => pc'[q] = pc[q]
           /\ \A r \in Server : r # s => peer'[r] = peer[r]
  <1>1. /\ \E a \in ServerAt : Go(s, a)
        /\ s \in Peer /\ s \notin Command /\ sock' = sock
    BY Distinct DEF Accept, Request, Answer, Close, Interrupt, Kill, ServerAt
  <1>2. /\ pc' \in [Peer -> CommandAt \union ServerAt]
        /\ \A c \in Command : pc'[c] \in CommandAt
        /\ \A r \in Server : pc'[r] \in ServerAt
        /\ \A q \in Peer : q # s => pc'[q] = pc[q]
    BY <1>1, Positions
  <1>3. crowded' \in BOOLEAN
    BY DEF Accept, Request, Answer, Close, Interrupt, Kill, Watch, history, Control, DataTypes
  <1>4. CASE Hangup(s)
    <2>1. /\ peer' \in [Server -> Peer \union {None}]
          /\ \A r \in Server : r # s => peer'[r] = peer[r]
      BY <1>4 DEF Hangup, Control, ControlTypes
    <2>2. <<>> \in Seq(Peer)
      OBVIOUS
    <2>3. backlog' \in [Server -> Seq(Peer)]
      BY <1>4, <2>2 DEF Hangup, Control, ControlTypes
    <2>4. link' \in [Peer -> {None, "open", "sent", "left", "reply", "reset", "closed"}]
      BY <1>4 DEF Hangup, Control, ControlTypes
    <2> QED BY <1>1, <1>2, <1>3, <2>1, <2>3, <2>4 DEF Control, ControlTypes
  <1>5. CASE Accept(s)
    <2>1. backlog[s] \in Seq(Peer) /\ backlog[s] # <<>>
      BY <1>5 DEF Accept, Control, ControlTypes
    <2>2. Head(backlog[s]) \in Peer /\ Tail(backlog[s]) \in Seq(Peer)
      BY <2>1, HeadTailProperties
    <2> QED BY <1>1, <1>2, <1>3, <1>5, <2>2 DEF Accept, Control, ControlTypes
  <1>6. CASE Request(s) \/ Answer(s)
    <2>1. /\ peer' \in [Server -> Peer \union {None}]
          /\ \A r \in Server : r # s => peer'[r] = peer[r]
      BY <1>6 DEF Request, Answer, Control, ControlTypes
    <2>2. link' \in [Peer -> {None, "open", "sent", "left", "reply", "reset", "closed"}]
      BY <1>6 DEF Request, Answer, Control, ControlTypes
    <2>3. backlog' = backlog
      BY <1>6 DEF Request, Answer
    <2> QED BY <1>1, <1>2, <1>3, <2>1, <2>2, <2>3 DEF Control, ControlTypes
  <1>7. CASE Interrupt(s)
    BY <1>1, <1>2, <1>3, <1>7 DEF Interrupt, Control, ControlTypes
  <1> QED BY <1>4, <1>5, <1>6, <1>7 DEF Close, Kill

(* Between requests.                                                       *)
LEMMA QueueControl ==
    ASSUME Control, NEW s \in Server, Accept(s) \/ Answer(s) \/ Close(s)
    PROVE  Control'
  <1>1. ControlTypes' /\ crowded' \in BOOLEAN
    BY LoopTypes
  <1>2. UNCHANGED <<job, files, ran, recorded, cut, overlap>>
    BY DEF Accept, Answer, Close, history
  <1>3. DataTypes'
    BY <1>1, <1>2 DEF Control, DataTypes, files
  <1>4. /\ pc[s] \notin {"run", "local"} /\ s \in Peer /\ s \notin Command
        /\ \E a : Go(s, a)
    BY Distinct DEF Accept, Answer, Close
  <1>5. /\ \A r \in Server : r # s => peer'[r] = peer[r]
        /\ DOMAIN peer' = Server
    BY <1>1, LoopTypes DEF ControlTypes
  <1>6. Attends(s)'
    <2>1. CASE Accept(s)
      <3>1. peer'[s] \in Peer /\ pc'[s] = "recv"
        <4>1. backlog[s] \in Seq(Peer) /\ backlog[s] # <<>>
          BY <2>1 DEF Accept, Control, ControlTypes
        <4>2. Head(backlog[s]) \in Peer
          BY <4>1, HeadTailProperties
        <4> QED BY <2>1, <4>2, <1>4 DEF Accept, Go, Control, ControlTypes
      <3> QED BY <3>1 DEF Attends
    <2>2. CASE Answer(s)
      BY <1>4, <2>2 DEF Answer, Go, Attends, Control, ControlTypes
    <2>3. CASE Close(s)
      BY <1>4, <2>3 DEF Close, Hangup, Go, Attends, Control, ControlTypes
    <2> QED BY <2>1, <2>2, <2>3
  <1>7. Owners'
    BY <1>2, <1>4, <1>5, <1>6, OwnersStay
  <1> QED BY <1>1, <1>3, <1>7 DEF Control

LEMMA RequestControl ==
    ASSUME Control, NEW s \in Server, Request(s)
    PROVE  Control'
  <1>1. /\ ControlTypes' /\ crowded' \in BOOLEAN
        /\ \A q \in Peer : q # s => pc'[q] = pc[q]
    BY LoopTypes
  <1>2. /\ UNCHANGED <<peer, files, ran, recorded, cut>> /\ pc[s] = "recv"
        /\ peer[s] \in Peer /\ s \in Peer /\ s \notin Command
    BY Distinct DEF Request, Control, Owners, Attends
  <1>3. CASE UNCHANGED <<job, overlap>> /\ \E a \in {"close", "answer"} : Go(s, a)
    <2>1. DataTypes'
      BY <1>1, <1>2, <1>3 DEF Control, DataTypes, files
    <2>2. Attends(s)'
      BY <1>2, <1>3 DEF Attends, Go, Control, ControlTypes
    <2>3. Owners'
      BY <1>2, <1>3, <2>2, OwnersStay DEF Control, ControlTypes
    <2> QED BY <1>1, <2>1, <2>3 DEF Control
  <1>4. CASE peer[s] \in Command /\ Go(s, "run") /\ Begin(peer[s], s)
    <2>1. PICK c \in Command : c = peer[s] /\ Begin(c, s)
      BY <1>4
    <2>2. /\ job' \in [Command -> Run \union {Idle}] /\ overlap' \in BOOLEAN
          /\ job'[c] # Idle /\ job'[c].by = s
          /\ \A d \in Command : d # c => job'[d] = job[d]
      BY <1>2, <2>1, Beginning
    <2>3. DataTypes'
      BY <1>1, <1>2, <2>2 DEF Control, DataTypes, files
    <2>4. pc'[s] = "run" /\ peer'[s] = c
      BY <1>2, <1>4, <2>1 DEF Go, Control, ControlTypes
    <2>5. \A d \in Command : Belongs(d)'
      <3> SUFFICES ASSUME NEW d \in Command, d # c PROVE Belongs(d)'
        BY <1>2, <2>2, <2>4, Distinct DEF Belongs
      <3> QED BY <1>1, <1>2, <2>2, Distinct DEF Control, Owners, Belongs
    <2>6. \A r \in Server : Attends(r)'
      BY <1>1, <1>2, <2>1, <2>4, Distinct DEF Control, Owners, Attends
    <2> QED BY <1>1, <2>3, <2>5, <2>6 DEF Control, Owners
  <1> QED BY <1>3, <1>4 DEF Request

(* A signal drops what the process was running.                            *)
LEMMA Dropping ==
    ASSUME Control, NEW s \in Server,
           job' = [c \in Command |-> IF c \in Served(s) THEN Idle ELSE job[c]],
           cut' = cut \union Orphaned(s)
    PROVE  /\ job' \in [Command -> Run \union {Idle}] /\ cut' \subseteq Command
           /\ \A c \in Command : job'[c] # Idle => job'[c] = job[c] /\ job[c].by # s
           /\ \A c \in Command : job'[c] # job[c] => c \in cut'
  BY DEF Served, Orphaned, Control, DataTypes

LEMMA SignalControl ==
    ASSUME Control, NEW s \in Server, Interrupt(s) \/ Kill(s)
    PROVE  Control'
  <1>1. /\ ControlTypes' /\ crowded' \in BOOLEAN
        /\ \A q \in Peer : q # s => pc'[q] = pc[q]
        /\ \A r \in Server : r # s => peer'[r] = peer[r]
    BY LoopTypes
  <1>2. /\ UNCHANGED <<files, ran, recorded, overlap>> /\ s \in Peer /\ s \notin Command
        /\ job' = [c \in Command |-> IF c \in Served(s) THEN Idle ELSE job[c]]
        /\ cut' = cut \union Orphaned(s)
    BY Distinct DEF Interrupt, Kill
  <1>3. /\ job' \in [Command -> Run \union {Idle}] /\ cut' \subseteq Command
        /\ \A c \in Command : job'[c] # Idle => job'[c] = job[c] /\ job[c].by # s
    BY <1>2, Dropping
  <1>4. DataTypes'
    BY <1>1, <1>2, <1>3 DEF Control, DataTypes, files
  <1>5. \A c \in Command : Belongs(c)'
    <2> SUFFICES ASSUME NEW c \in Command, job'[c] # Idle PROVE Belongs(c)'
      BY DEF Belongs
    <2>1. job'[c] = job[c] /\ job[c] # Idle /\ job[c].by # s
      BY <1>3
    <2> QED BY <1>1, <2>1, <1>2, RunsAt, Distinct DEF Belongs
  <1>6. Attends(s)'
    <2>1. CASE Interrupt(s)
      BY <1>2, <2>1 DEF Interrupt, Go, Attends, Control, ControlTypes
    <2>2. CASE Kill(s)
      BY <1>2, <2>2 DEF Kill, Hangup, Go, Attends, Control, ControlTypes
    <2> QED BY <2>1, <2>2
  <1>7. \A r \in Server : Attends(r)'
    BY <1>1, <1>6, Distinct DEF Control, Owners, Attends
  <1> QED BY <1>1, <1>4, <1>5, <1>7 DEF Control, Owners

LEMMA QuitControl ==
    ASSUME Control, NEW c \in Command, Quit(c)
    PROVE  Control'
  <1>1. /\ UNCHANGED <<sock, peer, backlog, files, ran, recorded, overlap, crowded>>
        /\ Go(c, "gone") /\ c \in Peer /\ c \notin Server /\ pc[c] \in {"send", "wait", "local"}
        /\ "gone" \in CommandAt
    BY Distinct DEF Quit, CommandAt
  <1>2. /\ pc' \in [Peer -> CommandAt \union ServerAt]
        /\ \A q \in Peer : q # c => pc'[q] = pc[q]
        /\ \A d \in Command : pc'[d] \in CommandAt
        /\ \A s \in Server : pc'[s] \in ServerAt
    BY <1>1, Positions
  <1>3. link' \in [Peer -> {None, "open", "sent", "left", "reply", "reset", "closed"}]
    BY DEF Quit, Control, ControlTypes
  <1>4. ControlTypes'
    BY <1>1, <1>2, <1>3 DEF Control, ControlTypes
  <1>5. /\ job' \in [Command -> Run \union {Idle}] /\ cut' \subseteq Command
        /\ job[c].by = c => job'[c] = Idle
        /\ \A d \in Command : job'[d] # Idle => job'[d] = job[d]
    BY DEF Quit, Control, DataTypes
  <1>6. DataTypes'
    BY <1>1, <1>5 DEF Control, DataTypes, files
  <1>7. \A d \in Command : Belongs(d)'
    <2> SUFFICES ASSUME NEW d \in Command, job'[d] # Idle PROVE Belongs(d)'
      BY DEF Belongs
    <2>1. job'[d] = job[d] /\ job[d] # Idle /\ ~(d = c /\ job[c].by = c)
      BY <1>5
    <2> QED BY <1>1, <1>2, <2>1, RunsAt, Distinct DEF Belongs
  <1>8. \A s \in Server : Attends(s)'
    BY <1>1, <1>2, Distinct DEF Control, Owners, Attends
  <1> QED BY <1>4, <1>6, <1>7, <1>8 DEF Control, Owners

LEMMA NextControl ==
    ASSUME Control, [Next]_vars
    PROVE  Control'
  <1>1. ASSUME NEW c \in Command, StartCommand(c) \/ ClientStep(c) \/ Quit(c)
        PROVE  Control'
    <2>1. c \in Peer
      BY Distinct
    <2> QED BY <1>1, <2>1, StartCommandControl, SendControl, ReceiveControl,
             CommandStepControl, QuitControl DEF ClientStep
  <1>2. ASSUME NEW s \in Server,
               StartStop(s) \/ StartServe(s) \/ ServeStep(s) \/ Interrupt(s) \/ Kill(s)
        PROVE  Control'
    <2>1. s \in Peer
      BY Distinct
    <2> QED BY <1>2, <2>1, StoppingControl, SendControl, QueueControl, RequestControl,
             SignalControl DEF ServeStep
  <1>3. CASE UNCHANGED vars
    BY <1>3 DEF vars, files, history, Control, ControlTypes, DataTypes, Owners, Belongs, Attends
  <1> QED BY <1>1, <1>2, <1>3 DEF Next

(* The control invariant.                                                  *)
THEOREM ControlHolds == Spec => []Control
  BY InitControl, NextControl, PTL DEF Spec

-----------------------------------------------------------------------------
(* While serve processes come and go one at a time: a serving one owns the *)
(* socket, and one that is about to remove or bind the socket knows that   *)
(* nobody serves.                                                          *)
NobodyServes == \A r \in Server : pc[r] \notin Loop
Path(s) ==
    /\ pc[s] \in Loop \union {"listen"} => sock = s
    /\ pc[s] = "bind" => sock = None
    /\ pc[s] \in {"clear", "forget", "close", "unlink"} => NobodyServes
OnePasses == \A p, q \in Passing : p = q
SocketInv == ~crowded => OnePasses /\ \A s \in Server : Path(s)

LEMMA WatchedStep ==
    ASSUME Watch
    PROVE  ~crowded' => OnePasses' /\ ~crowded
  BY DEF Watch, OnePasses

(* Steps that change neither the socket nor who serves or passes.          *)
LEMMA SocketStays ==
    ASSUME SocketInv, UNCHANGED <<sock, crowded>>,
           \A s \in Server : \/ pc'[s] = pc[s]
                              \/ (pc[s] \in Loop /\ pc'[s] \in Loop)
                              \/ pc'[s] \in {"over", "send", "wait"}
    PROVE  SocketInv'
  <1>1. Passing' \subseteq Passing
    BY DEF Passing, Loop
  <1>2. NobodyServes => NobodyServes'
    BY DEF NobodyServes, Loop
  <1>3. ASSUME NEW s \in Server, Path(s) PROVE Path(s)'
    BY <1>2, <1>3 DEF Path, Loop
  <1> QED BY <1>1, <1>3 DEF SocketInv, OnePasses

LEMMA CommandSocket ==
    ASSUME Control, SocketInv, NEW c \in Command, StartCommand(c) \/ ClientStep(c) \/ Quit(c)
    PROVE  SocketInv'
  <1>1. UNCHANGED <<sock, crowded>>
    BY DEF StartCommand, ClientStep, Quit, RunLocally, Send, Receive, CommandStep, Rejected,
       PutCache, LoadFloors, SaveFloors, history
  <1>2. CASE pc' = pc
    BY <1>1, <1>2, SocketStays
  <1>3. CASE \E a : Go(c, a)
    <2>1. \A s \in Server : pc'[s] = pc[s]
      BY <1>3, Distinct DEF Go, Control, ControlTypes
    <2> QED BY <1>1, <2>1, SocketStays
  <1>4. CASE job[c] # Idle /\ Done(c) /\ job[c].by # c
    <2>1. pc[job[c].by] = "run" /\ Go(job[c].by, "answer")
      BY <1>4, RunsAt DEF Done
    <2>2. \A s \in Server : pc'[s] = pc[s] \/ (pc[s] = "run" /\ pc'[s] = "answer")
      BY <2>1, Distinct DEF Go, Control, ControlTypes
    <2> QED BY <1>1, <2>2, SocketStays DEF Loop
  <1> QED BY <1>2, <1>3, <1>4
       DEF StartCommand, ClientStep, Quit, RunLocally, Send, Receive, CommandStep, Rejected,
           PutCache, LoadFloors, SaveFloors, Done

(* A serving process ends its loop: no other one serves.                   *)
LEMMA LoopEnds ==
    ASSUME SocketInv, Control, NEW s \in Server, pc[s] \in Loop, Go(s, "close"), Watch,
           sock' = sock
    PROVE  SocketInv'
  <1> SUFFICES ASSUME ~crowded' PROVE OnePasses' /\ \A r \in Server : Path(r)'
    BY DEF SocketInv
  <1>1. /\ OnePasses' /\ pc'[s] = "close"
        /\ \A r \in Server : r # s => pc'[r] = pc[r]
    BY WatchedStep, Distinct DEF Go, Control, ControlTypes
  <1>2. \A r \in Server : Path(r) /\ (pc[r] \in Loop => r = s)
    BY WatchedStep DEF SocketInv, Path
  <1>3. NobodyServes'
    BY <1>1, <1>2 DEF NobodyServes, Loop
  <1> QED BY <1>1, <1>2, <1>3 DEF Path

(* A first look at the socket.                                             *)
LEMMA LookSocket ==
    ASSUME SocketInv, Control, NEW s \in Server, StartServe(s) \/ StartStop(s)
    PROVE  SocketInv'
  <1> SUFFICES ASSUME ~crowded' PROVE OnePasses' /\ \A r \in Server : Path(r)'
    BY DEF SocketInv
  <1>1. /\ OnePasses' /\ ~crowded /\ sock' = sock
        /\ \A r \in Server : r # s => pc'[r] = pc[r]
    BY WatchedStep, Distinct DEF StartServe, StartStop, Go, Control, ControlTypes
  <1>2. /\ pc'[s] \in {"bind", "probe", "clear", "over", "send", "forget"}
        /\ pc'[s] = "bind" => sock = None
        /\ pc'[s] \in {"clear", "forget"} => sock # None /\ ~Connects
    BY Distinct DEF StartServe, StartStop, Go, Control, ControlTypes
  <1>3. \A r \in Server : Path(r)
    BY <1>1 DEF SocketInv
  <1>4. pc'[s] \in {"clear", "forget"} => NobodyServes
    <2> SUFFICES ASSUME sock # None, ~Connects, NEW r \in Server, pc[r] \in Loop PROVE FALSE
      BY <1>2 DEF NobodyServes
    <2>1. sock = r
      BY <1>3 DEF Path
    <2> QED BY <2>1 DEF Connects, Listening
  <1>5. NobodyServes => NobodyServes'
    BY <1>1, <1>2 DEF NobodyServes, Loop
  <1>6. Path(s)'
    BY <1>1, <1>2, <1>4, <1>5 DEF Path, Loop
  <1>7. \A r \in Server : r # s => Path(r)'
    BY <1>1, <1>3, <1>5 DEF Path
  <1> QED BY <1>1, <1>6, <1>7

(* The steps of the one that passes.                                       *)
LEMMA PassingSocket ==
    ASSUME SocketInv, Control, NEW s \in Server,
           Clear(s) \/ Bind(s) \/ Listen(s) \/ Close(s) \/ Unlink(s) \/ ClearStale(s)
    PROVE  SocketInv'
  <1> SUFFICES ASSUME ~crowded' PROVE OnePasses' /\ \A r \in Server : Path(r)'
    BY DEF SocketInv
  <1>1. /\ crowded' = crowded /\ s \in Passing
        /\ \A r \in Server : r # s => pc'[r] = pc[r]
    BY Distinct DEF Clear, Bind, Listen, Close, Unlink, ClearStale, history, Passing, Go,
       Control, ControlTypes
  <1>2. OnePasses /\ \A r \in Server : Path(r)
    BY <1>1 DEF SocketInv
  <1>3. \A r \in Server : r # s => r \notin Passing /\ r \notin Passing'
    BY <1>1, <1>2 DEF OnePasses, Passing
  <1>4. OnePasses'
    BY <1>3 DEF OnePasses, Passing
  <1>5. NobodyServes
    BY <1>2, Distinct DEF Clear, Bind, Listen, Close, Unlink, ClearStale, Path, NobodyServes,
       Loop, Bind, Peer
  <1>6. ASSUME NEW r \in Server, r # s PROVE Path(r)'
    BY <1>1, <1>3, <1>5, <1>6 DEF Path, NobodyServes, Passing
  <1>7. pc'[s] # "accept" => NobodyServes'
    BY <1>1, <1>5, Distinct DEF NobodyServes, Clear, Bind, Listen, Close, Unlink, ClearStale, Go,
       Loop, Control, ControlTypes
  <1>8. Path(s)'
    BY <1>2, <1>7, Distinct DEF Path, Clear, Bind, Listen, Close, Unlink, ClearStale, Go, Loop,
       Control, ControlTypes
  <1> QED BY <1>4, <1>6, <1>8

LEMMA ServerSocket ==
    ASSUME SocketInv, Control, NEW s \in Server,
           StartStop(s) \/ StartServe(s) \/ ServeStep(s) \/ Interrupt(s) \/ Kill(s)
    PROVE  SocketInv'
  <1>1. \A a : Go(s, a) => pc'[s] = a /\ \A r \in Server : r # s => pc'[r] = pc[r]
    BY Distinct DEF Go, Control, ControlTypes
  <1>2. CASE Send(s) \/ Stopped(s) \/ EndProbe(s) \/ Kill(s) \/ Accept(s)
    <2>1. UNCHANGED <<sock, crowded>>
      BY <1>2 DEF Send, Stopped, EndProbe, Kill, Accept, history
    <2>2. \/ pc'[s] \in {"over", "send", "wait"}
          \/ (pc[s] \in Loop /\ pc'[s] \in Loop)
      BY <1>1, <1>2 DEF Send, Stopped, EndProbe, Kill, Accept, Loop
    <2>3. \A r \in Server : r # s => pc'[r] = pc[r]
      BY <1>1, <1>2 DEF Send, Stopped, EndProbe, Kill, Accept
    <2> QED BY <2>1, <2>2, <2>3, SocketStays
  <1>3. CASE Request(s) \/ Answer(s) \/ Interrupt(s)
    <2>1. CASE Go(s, "close") /\ Watch
      BY <1>3, <2>1, LoopEnds DEF Request, Answer, Interrupt, Loop
    <2>2. CASE pc[s] \in Loop /\ \E a \in Loop : Go(s, a)
      <3>1. \A r \in Server : pc'[r] = pc[r] \/ (pc[r] \in Loop /\ pc'[r] \in Loop)
        BY <1>1, <2>2
      <3>2. CASE UNCHANGED crowded
        BY <1>3, <3>1, <3>2, SocketStays DEF Request, Answer, Interrupt
      <3>3. CASE Watch
        <4>1. Passing' \subseteq Passing
          BY <3>1 DEF Passing, Loop
        <4>2. CASE crowded
          BY <3>3, <4>2 DEF Watch, SocketInv
        <4>3. CASE ~crowded
          <5>1. crowded' = crowded
            BY <3>3, <4>1, <4>3 DEF Watch, SocketInv, OnePasses, Control, DataTypes
          <5> QED BY <1>3, <3>1, <5>1, SocketStays DEF Request, Answer, Interrupt
        <4> QED BY <4>2, <4>3
      <3> QED BY <1>3, <3>2, <3>3 DEF Request, Answer, Interrupt
    <2> QED BY <1>3, <2>1, <2>2 DEF Request, Answer, Interrupt, Loop
  <1> QED BY <1>2, <1>3, LookSocket, PassingSocket DEF ServeStep

(* daemon.py:77: serve refuses to double-start, and the socket leads to    *)
(* the one that serves, as long as no two are between look and act.        *)
THEOREM OneServes == Spec => []OneDaemon
  <1>1. Init => SocketInv
    BY Distinct DEF Init, SocketInv, OnePasses, Passing, Path, NobodyServes, Loop, Peer
  <1>2. Control /\ SocketInv /\ [Next]_vars => SocketInv'
    <2> SUFFICES ASSUME Control, SocketInv, [Next]_vars PROVE SocketInv'
      OBVIOUS
    <2>1. CASE UNCHANGED vars
      BY <2>1, SocketStays DEF vars, history
    <2> QED BY <2>1, CommandSocket, ServerSocket DEF Next
  <1>3. Control /\ SocketInv => OneDaemon
    <2> SUFFICES ASSUME Control, SocketInv, ~crowded, NEW s \in Live
                 PROVE  Live = {s} /\ (pc[s] \in Loop => sock = s)
      BY DEF OneDaemon
    <2>1. s \in Server /\ (pc[s] \in Loop \/ pc[s] = "close")
      BY DEF Live, Listening
    <2>2. \A r \in Live : r \in Server /\ (pc[r] \in Loop \/ pc[r] = "close")
      BY DEF Live, Listening
    <2>3. \A r \in Live : r = s
      BY <2>1, <2>2 DEF SocketInv, OnePasses, Path, NobodyServes, Passing
    <2> QED BY <2>1, <2>3 DEF SocketInv, Path
  <1> QED BY <1>1, <1>2, <1>3, ControlHolds, PTL DEF Spec

-----------------------------------------------------------------------------
(* Commands one after another: a run works on the files as the runs before *)
(* it left them.                                                           *)
Keeps(c) ==
    /\ job[c].at \in {"gate", "record"} => floors = recorded
    /\ job[c].at = "save" => job[c].data = recorded
FilesInv ==
    ~overlap =>
        /\ \A c, d \in Running : c = d
        /\ \A c \in Running : job[c].at = "gate" => job[c].mem = high
        /\ cut = {} => /\ Running = {} => floors = recorded
                       /\ \A c \in Running : Keeps(c)

(* Steps that at most drop runs, which they remember.                      *)
LEMMA FilesStay ==
    ASSUME FilesInv, UNCHANGED <<files, recorded, overlap>>, cut \subseteq cut',
           \A c \in Command : job'[c] = job[c] \/ (job'[c] = Idle /\ cut' # {})
    PROVE  FilesInv'
  <1>1. Running' \subseteq Running /\ \A c \in Running' : job'[c] = job[c]
    BY DEF Running
  <1>2. cut' = {} => Running' = Running
    BY DEF Running
  <1> QED BY <1>1, <1>2 DEF FilesInv, Keeps, files

LEMMA BeginFiles ==
    ASSUME Control, FilesInv, NEW c \in Command, NEW p \in Peer, Begin(c, p),
           UNCHANGED <<files, recorded, cut>>
    PROVE  FilesInv'
  <1> SUFFICES ASSUME ~overlap' PROVE FilesInv'
    BY DEF FilesInv
  <1>1. ~overlap /\ Running = {}
    BY DEF Begin
  <1>2. /\ job'[c] = [by |-> p, at |-> "gate", mem |-> high, data |-> {}]
        /\ \A d \in Command : d # c => job'[d] = job[d]
    BY DEF Begin, Control, DataTypes
  <1>3. Running' \subseteq {c}
    BY <1>1, <1>2 DEF Running
  <1>4. job'[c].at = "gate" /\ job'[c].mem = high
    BY <1>2
  <1>5. cut = {} => floors = recorded
    BY <1>1 DEF FilesInv
  <1>6. c \in Running'
    BY <1>2, Beginning DEF Running
  <1> QED BY <1>1, <1>3, <1>4, <1>5, <1>6 DEF FilesInv, Keeps, files

LEMMA RunFiles ==
    ASSUME Control, FilesInv, NEW c \in Command, CommandStep(c)
    PROVE  FilesInv'
  <1>1. c \in Running /\ job[c] \in Run /\ UNCHANGED <<cut, overlap>>
    BY RunsAt DEF CommandStep, Rejected, PutCache, LoadFloors, SaveFloors, Running, history
  <1> SUFFICES ASSUME ~overlap PROVE FilesInv'
    BY <1>1 DEF FilesInv
  <1>2. Running = {c} /\ (job[c].at = "gate" => job[c].mem = high) /\ (cut = {} => Keeps(c))
    BY <1>1 DEF FilesInv
  <1>3. CASE Rejected(c) \/ SaveFloors(c)
    <2>1. Running' = {}
      BY <1>2, <1>3 DEF Rejected, SaveFloors, Running, Done, Control, DataTypes
    <2>2. CASE Rejected(c)
      BY <1>1, <1>2, <2>1, <2>2 DEF Rejected, FilesInv, Keeps, files
    <2>3. CASE SaveFloors(c)
      BY <1>1, <1>2, <2>1, <2>3 DEF SaveFloors, FilesInv, Keeps
    <2> QED BY <1>3, <2>2, <2>3
  <1>4. CASE PutCache(c)
    <2>1. job'[c] = [job[c] EXCEPT !.at = "record"]
      BY <1>4 DEF PutCache, Control, DataTypes
    <2>2. job'[c].at = "record" /\ Running' \subseteq {c}
      BY <1>1, <1>2, <1>4, <2>1 DEF PutCache, Run, Running, Control, DataTypes
    <2>3. c \in Running'
      <3>1. job'[c] \in Run
        BY <1>1, <2>1 DEF Run
      <3> QED BY <3>1, Distinct DEF Running
    <2>4. cut = {} => floors = recorded
      BY <1>2, <1>4 DEF PutCache, Keeps
    <2> QED BY <1>1, <1>4, <2>2, <2>3, <2>4 DEF PutCache, FilesInv, Keeps, history
  <1>5. CASE LoadFloors(c)
    <2>1. cut = {} => floors = recorded /\ recorded # Torn
      BY <1>2, <1>5, Distinct DEF LoadFloors, Keeps, Control, DataTypes
    <2> DEFINE data == IF floors = Torn THEN {} ELSE floors
    <2>2. job'[c] = [job[c] EXCEPT !.at = "save", !.data = data]
      BY <1>5 DEF LoadFloors, Control, DataTypes
    <2>3. job'[c].at = "save" /\ job'[c].data = data /\ Running' \subseteq {c}
      BY <1>1, <1>2, <1>5, <2>2 DEF LoadFloors, Run, Running, Control, DataTypes
    <2>4. c \in Running'
      <3>1. data \subseteq Command
        BY DEF Control, DataTypes
      <3>2. job'[c] \in Run
        BY <1>1, <2>2, <3>1 DEF Run
      <3> QED BY <3>2, Distinct DEF Running
    <2> QED BY <1>1, <1>5, <2>1, <2>3, <2>4 DEF LoadFloors, FilesInv, Keeps, history
  <1> QED BY <1>3, <1>4, <1>5 DEF CommandStep

LEMMA NextFiles ==
    ASSUME Control, FilesInv, [Next]_vars
    PROVE  FilesInv'
  <1>1. ASSUME NEW c \in Command, StartCommand(c) \/ Send(c) \/ Receive(c)
        PROVE  FilesInv'
    <2>1. CASE RunLocally(c)
      BY <2>1, BeginFiles, Distinct DEF RunLocally
    <2>2. CASE UNCHANGED <<job, files, history>>
      BY <2>2, FilesStay DEF history
    <2> QED BY <1>1, <2>1, <2>2 DEF StartCommand, Send, Receive
  <1>2. ASSUME NEW c \in Command, Quit(c) PROVE FilesInv'
    <2>1. /\ cut \subseteq cut' /\ UNCHANGED <<files, recorded, overlap>>
          /\ \A d \in Command : job'[d] = job[d] \/ (job'[d] = Idle /\ cut' # {})
      BY <1>2 DEF Quit, Control, DataTypes
    <2> QED BY <2>1, FilesStay
  <1>3. ASSUME NEW s \in Server, Request(s) PROVE FilesInv'
    <2>1. CASE peer[s] \in Command /\ Begin(peer[s], s)
      BY <1>3, <2>1, BeginFiles, Distinct DEF Request
    <2>2. CASE UNCHANGED <<job, overlap>>
      BY <1>3, <2>2, FilesStay DEF Request
    <2> QED BY <1>3, <2>1, <2>2 DEF Request
  <1>4. ASSUME NEW s \in Server, Interrupt(s) \/ Kill(s) PROVE FilesInv'
    <2>1. /\ UNCHANGED <<files, recorded, overlap>>
          /\ job' = [c \in Command |-> IF c \in Served(s) THEN Idle ELSE job[c]]
          /\ cut' = cut \union Orphaned(s)
      BY <1>4 DEF Interrupt, Kill
    <2>2. \A c \in Command : job'[c] = job[c] \/ (job'[c] = Idle /\ cut' # {})
      BY <2>1 DEF Orphaned
    <2> QED BY <2>1, <2>2, FilesStay
  <1>5. ASSUME NEW s \in Server,
               \/ StartStop(s) \/ StartServe(s) \/ Send(s) \/ Stopped(s) \/ EndProbe(s)
               \/ Clear(s) \/ Bind(s) \/ Listen(s) \/ ClearStale(s)
               \/ Accept(s) \/ Answer(s) \/ Close(s) \/ Unlink(s)
        PROVE  FilesInv'
    <2>1. UNCHANGED <<job, files, recorded, cut, overlap>>
      BY <1>5 DEF StartStop, StartServe, Send, Stopped, EndProbe, Clear, Bind, Listen,
         ClearStale, Accept, Answer, Close, Unlink, history
    <2> QED BY <2>1, FilesStay
  <1>6. CASE UNCHANGED vars
    BY <1>6, FilesStay DEF vars, files
  <1> QED BY <1>1, <1>2, <1>3, <1>4, <1>5, <1>6, RunFiles DEF Next, ClientStep, ServeStep

LEMMA FilesHold == Spec => []FilesInv
  <1>1. Init => FilesInv
    BY DEF Init, FilesInv, Running
  <1> QED BY <1>1, NextFiles, ControlHolds, PTL DEF Spec

(* baselines.py:129: a floor that was recorded stays, as long as commands  *)
(* run one after another and no signal cuts one.                           *)
THEOREM RecordsStay == Spec => []FloorsKept
  <1>1. FilesInv => FloorsKept
    BY DEF FilesInv, FloorsKept
  <1> QED BY <1>1, FilesHold, PTL

(* cache.py:42: the high score only rises, as long as commands run one     *)
(* after another.                                                          *)
THEOREM ScoreRises == Spec => HighScoreRises
  <1>1. Control /\ FilesInv /\ [Next]_vars => (~overlap' => high' >= high)
    <2> SUFFICES ASSUME Control, FilesInv, [Next]_vars, ~overlap' PROVE high' >= high
      OBVIOUS
    <2>1. high \in Nat
      BY DEF Control, DataTypes
    <2>2. CASE high' = high
      BY <2>1, <2>2
    <2>3. ASSUME NEW c \in Command, PutCache(c) PROVE high' >= high
      <3>1. c \in Running /\ ~overlap /\ job[c].at = "gate"
        BY <2>3 DEF PutCache, Running, history
      <3>2. job[c].mem = high
        BY <3>1 DEF FilesInv
      <3> QED BY <2>1, <2>3, <3>2, Distinct DEF PutCache
    <2> QED BY <2>2, <2>3
         DEF Next, StartCommand, ClientStep, Quit, RunLocally, Send, Receive, CommandStep,
             Rejected, LoadFloors, SaveFloors, StartStop, StartServe, ServeStep, Stopped,
             EndProbe, Clear, Bind, Listen, ClearStale, Accept, Request, Answer, Close, Unlink,
             Interrupt, Kill, files, vars
  <1> QED BY <1>1, ControlHolds, FilesHold, PTL DEF Spec, HighScoreRises
-----------------------------------------------------------------------------
(* A command's connection is in one place, and what has become of the      *)
(* command so far goes with the place.                                     *)
Waits(c) == \E s \in Server : \E i \in DOMAIN backlog[s] : backlog[s][i] = c
Nowhere(c) == ~Waits(c) /\ \A s \in Server : peer[s] # c
Off == {None, "reset", "reply"}
Unseen(c) == job[c] = Idle /\ ran[c] = 0
Dropped(c) == job[c] = Idle /\ ran[c] <= 1 /\ (c \notin cut => ran[c] = 0)

Placed(c) ==
    /\ \A s, t \in Server : peer[s] = c /\ peer[t] = c => s = t
    /\ Waits(c) => \A s \in Server : peer[s] # c
    /\ \A s, t \in Server : \A i \in DOMAIN backlog[s], j \in DOMAIN backlog[t] :
         backlog[s][i] = c /\ backlog[t][j] = c => s = t /\ i = j
    /\ pc[c] = "new" \/ link[c] \in Off => Nowhere(c)
Held(c, s) ==
    /\ pc[s] = "recv" => Unseen(c)
    /\ pc[s] = "run" => job[c] # Idle /\ job[c].by = s /\ ran[c] = 0
    /\ pc[s] \in {"answer", "close"} => job[c] = Idle /\ ran[c] <= 1
    /\ pc[s] = "close" /\ link[c] \in {"open", "sent"} => Dropped(c)
Counted(c) ==
    /\ pc[c] = "new" \/ Waits(c) => Unseen(c)
    /\ \A s \in Server : peer[s] = c => Held(c, s)
    /\ link[c] = "reset" /\ pc[c] \in {"send", "wait"} => Dropped(c)
    /\ ran[c] <= 2 /\ (c \notin cut => ran[c] <= 1)
    /\ job[c] # Idle => ran[c] <= 1 /\ (c \notin cut => ran[c] = 0)
CountInv == \A c \in Command : Placed(c) /\ Counted(c)

(* Steps that put a command nowhere new.                                   *)
LEMMA PlacedStays ==
    ASSUME NEW c \in Command, Placed(c),
           \A s \in Server : peer'[s] = c => peer[s] = c,
           \A s \in Server : \A i \in DOMAIN backlog'[s] :
              backlog'[s][i] = c => i \in DOMAIN backlog[s] /\ backlog[s][i] = c,
           pc'[c] = "new" => pc[c] = "new",
           link'[c] \in Off => link[c] \in Off \/ pc[c] = "new" \/ Nowhere(c)'
    PROVE  Placed(c)'
  <1>1. Waits(c)' => Waits(c)
    BY DEF Waits
  <1>2. Nowhere(c) => Nowhere(c)'
    BY <1>1 DEF Nowhere
  <1> QED BY <1>1, <1>2 DEF Placed

(* Steps that leave a command's work alone, and who holds it where he is.  *)
LEMMA CountedStays ==
    ASSUME NEW c \in Command, Counted(c),
           job'[c] = job[c], ran'[c] = ran[c], cut \subseteq cut',
           \A s \in Server : peer'[s] = c => peer[s] = c /\ pc'[s] = pc[s],
           Waits(c)' => Waits(c),
           pc'[c] = "new" => pc[c] = "new",
           link'[c] \in {"open", "sent"} =>
              link[c] \in {"open", "sent"} \/ \A s \in Server : peer[s] # c,
           link'[c] = "reset" /\ pc'[c] \in {"send", "wait"} =>
              Dropped(c) \/ (link[c] = "reset" /\ pc[c] \in {"send", "wait"})
    PROVE  Counted(c)'
  <1>1. (Unseen(c) => Unseen(c)') /\ (Dropped(c) => Dropped(c)')
    BY DEF Unseen, Dropped
  <1>2. ASSUME NEW s \in Server, peer'[s] = c PROVE Held(c, s)'
    BY <1>1, <1>2 DEF Counted, Held
  <1> QED BY <1>1, <1>2 DEF Counted

(* A connection is queued behind the others.                               *)
LEMMA Queued ==
    ASSUME Control, NEW p \in Peer, Connects, Connect(p), NEW s \in Server,
           NEW i \in DOMAIN backlog'[s]
    PROVE  \/ i \in DOMAIN backlog[s] /\ backlog'[s][i] = backlog[s][i]
           \/ s = sock /\ i = Len(backlog[s]) + 1 /\ backlog'[s][i] = p
  <1>1. backlog[s] \in Seq(Peer)
    BY DEF Control, ControlTypes
  <1>2. CASE s # sock
    BY <1>2 DEF Connect, Control, ControlTypes
  <1>3. CASE s = sock
    <2>1. backlog'[s] = Append(backlog[s], p)
      BY <1>3 DEF Connect, Control, ControlTypes
    <2> QED BY <1>1, <1>3, <2>1
  <1> QED BY <1>2, <1>3

(* Another process's connection is queued.                                 *)
LEMMA OtherConnects ==
    ASSUME Control, NEW c \in Command, Placed(c), Counted(c),
           NEW p \in Peer, p # c, Connects, Connect(p), NEW a, Go(p, a),
           pc[p] = "new", UNCHANGED <<peer, job, ran, cut>>
    PROVE  Placed(c)' /\ Counted(c)'
  <1>1. \A s \in Server : \A i \in DOMAIN backlog'[s] :
           backlog'[s][i] = c => i \in DOMAIN backlog[s] /\ backlog[s][i] = c
    BY Queued
  <1>2. pc'[c] = pc[c] /\ link'[c] = link[c]
    BY Distinct DEF Go, Connect, Control, ControlTypes
  <1>3. \A s \in Server : peer'[s] = c => pc'[s] = pc[s]
    <2> SUFFICES ASSUME NEW s \in Server, peer[s] = c PROVE pc'[s] = pc[s]
      OBVIOUS
    <2>1. pc[s] # "new"
      BY Distinct DEF Control, Owners, Attends
    <2> QED BY <2>1, Distinct DEF Go, Control, ControlTypes
  <1>4. Waits(c)' => Waits(c)
    BY <1>1 DEF Waits
  <1> QED BY <1>1, <1>2, <1>3, <1>4, PlacedStays, CountedStays, Distinct

(* Its own is: it has not been seen.                                       *)
LEMMA CommandConnects ==
    ASSUME Control, NEW c \in Command, Placed(c), Counted(c),
           Connects, Connect(c), Go(c, "send"),
           pc[c] = "new", UNCHANGED <<peer, job, ran, cut>>
    PROVE  Placed(c)' /\ Counted(c)'
  <1>1. Nowhere(c) /\ Unseen(c)
    BY DEF Placed, Counted
  <1>2. \A s \in Server : \A i \in DOMAIN backlog'[s] :
           backlog'[s][i] = c => s = sock /\ i = Len(backlog[s]) + 1
    BY <1>1, Queued, Distinct DEF Nowhere, Waits
  <1>3. pc'[c] = "send" /\ link'[c] = "open"
    BY Distinct DEF Go, Connect, Control, ControlTypes
  <1>4. Unseen(c)' /\ (\A s \in Server : peer'[s] # c)
    BY <1>1 DEF Nowhere, Unseen
  <1>5. Placed(c)'
    BY <1>2, <1>3, <1>4, Distinct DEF Placed, Off
  <1>6. Counted(c)'
    BY <1>1, <1>3, <1>4 DEF Counted, Unseen
  <1> QED BY <1>5, <1>6

(* A process that holds nobody's connection moves.                         *)
LEMMA MoveCounts ==
    ASSUME Control, NEW c \in Command, Placed(c), Counted(c),
           NEW p \in Peer, NEW a, Go(p, a), a # "new",
           p \in Server => peer[p] # c,
           p = c => pc[c] \in {"send", "wait"} \/ a \notin {"send", "wait"},
           UNCHANGED <<peer, backlog>>, cut \subseteq cut', job'[c] = job[c], ran'[c] = ran[c],
           link'[c] \in Off => link[c] \in Off,
           link'[c] \in {"open", "sent"} => link[c] \in {"open", "sent"},
           link'[c] = "reset" => link[c] = "reset"
    PROVE  Placed(c)' /\ Counted(c)'
  <1>1. pc'[p] = a /\ \A q \in Peer : q # p => pc'[q] = pc[q]
    BY DEF Go, Control, ControlTypes
  <1>2. /\ pc'[c] = "new" => pc[c] = "new"
        /\ pc'[c] \in {"send", "wait"} => pc[c] \in {"send", "wait"}
    BY <1>1, Distinct
  <1>3. \A s \in Server : peer'[s] = c => pc'[s] = pc[s]
    BY <1>1, Distinct
  <1>4. Waits(c)' => Waits(c)
    BY DEF Waits
  <1> QED BY <1>2, <1>3, <1>4, PlacedStays, CountedStays

(* A command runs in its own process: it never ran, or its daemon dropped  *)
(* it.                                                                     *)
LEMMA LocalCounts ==
    ASSUME Control, NEW c \in Command, Placed(c), Counted(c),
           pc[c] = "new" \/ (pc[c] = "wait" /\ link[c] = "reset"),
           RunLocally(c), UNCHANGED link
    PROVE  Placed(c)' /\ Counted(c)'
  <1>1. Nowhere(c) /\ Dropped(c)
    BY DEF Placed, Off, Counted, Unseen, Dropped
  <1>2. Nowhere(c)'
    BY <1>1 DEF Nowhere, Waits, RunLocally
  <1>3. pc'[c] = "local" /\ UNCHANGED <<ran, cut>>
    BY Distinct DEF RunLocally, Go, Control, ControlTypes
  <1>4. Placed(c)'
    BY <1>2 DEF Placed, Nowhere, Waits
  <1>5. Counted(c)'
    BY <1>1, <1>2, <1>3 DEF Counted, Nowhere, Dropped
  <1> QED BY <1>4, <1>5

(* Another command's work.                                                 *)
LEMMA OtherWorks ==
    ASSUME Control, NEW c \in Command, Placed(c), Counted(c),
           NEW d \in Command, d # c, CommandStep(d)
    PROVE  Placed(c)' /\ Counted(c)'
  <1>1. /\ UNCHANGED <<peer, backlog, link, cut>>
        /\ job'[c] = job[c] /\ ran'[c] = ran[c] /\ job[d] # Idle
    BY DEF CommandStep, Rejected, PutCache, LoadFloors, SaveFloors, Done, history, Control,
       DataTypes
  <1>2. CASE UNCHANGED pc
    <2>1. Waits(c)' => Waits(c)
      BY <1>1 DEF Waits
    <2> QED BY <1>1, <1>2, <2>1, PlacedStays, CountedStays
  <1>3. CASE Done(d)
    <2>1. PICK p \in Peer, a \in {"done", "answer"} :
             Go(p, a) /\ p # c /\ (p \in Server => peer[p] # c)
      BY <1>1, <1>3, Distinct DEF Done, Control, Owners, Belongs
    <2> QED BY <1>1, <2>1, MoveCounts
  <1> QED BY <1>2, <1>3 DEF CommandStep, Rejected, PutCache, LoadFloors, SaveFloors

(* Its own.                                                                *)
LEMMA WorkCounts ==
    ASSUME Control, NEW c \in Command, Placed(c), Counted(c), CommandStep(c)
    PROVE  Placed(c)' /\ Counted(c)'
  <1>1. /\ UNCHANGED <<peer, backlog, link, cut>> /\ job[c] # Idle
        /\ job[c] \in Run
    BY DEF CommandStep, Rejected, PutCache, LoadFloors, SaveFloors, history, Control, DataTypes
  <1>2. pc[c] # "new" /\ ~Waits(c) /\ ~(link[c] = "reset" /\ pc[c] \in {"send", "wait"})
    BY <1>1 DEF Counted, Unseen, Dropped
  <1>3. ~Waits(c)'
    BY <1>1, <1>2 DEF Waits
  <1>4. \A s \in Server : peer[s] = c => pc[s] \notin {"recv", "answer", "close"}
    BY <1>1 DEF Counted, Held, Unseen
  <1>5. CASE PutCache(c) \/ LoadFloors(c)
    <2>1. UNCHANGED <<pc, ran>>
      BY <1>5 DEF PutCache, LoadFloors, history
    <2>2. job'[c].by = job[c].by /\ job'[c] \in Run
      BY <1>1, <1>5 DEF PutCache, LoadFloors, Run, Control, DataTypes
    <2>3. job'[c] # Idle
      BY <2>2, Distinct
    <2>4. Placed(c)'
      BY <1>1, <2>1, PlacedStays
    <2>5. ASSUME NEW s \in Server, peer'[s] = c PROVE Held(c, s)'
      BY <1>1, <1>4, <2>1, <2>2, <2>3, <2>5 DEF Held, Counted
    <2> QED BY <1>1, <1>2, <1>3, <2>1, <2>3, <2>4, <2>5 DEF Counted
  <1>6. CASE Done(c)
    <2>1. job'[c] = Idle /\ ran'[c] = ran[c] + 1 /\ ran[c] \in Nat
      BY <1>6 DEF Done, Control, DataTypes
    <2>2. CASE job[c].by = c
      <3>1. pc'[c] = "done" /\ \A s \in Server : pc'[s] = pc[s]
        BY <1>6, <2>2, Distinct DEF Done, Go, Control, ControlTypes
      <3>2. \A s \in Server : peer[s] = c => pc[s] # "run"
        BY <2>2, Distinct DEF Counted, Held
      <3>3. Placed(c)'
        BY <1>1, <3>1, PlacedStays
      <3>4. ASSUME NEW s \in Server, peer'[s] = c PROVE Held(c, s)'
        BY <1>1, <1>4, <3>1, <3>2, <3>4 DEF Held
      <3> QED BY <1>1, <1>3, <2>1, <3>1, <3>3, <3>4 DEF Counted
    <2>3. CASE job[c].by # c
      <3> DEFINE t == job[c].by
      <3>1. /\ t \in Server /\ pc[t] = "run" /\ peer[t] = c /\ Go(t, "answer")
        BY <1>1, <1>6, <2>3 DEF Done, Control, Owners, Belongs
      <3> HIDE DEF t
      <3>2. pc'[c] = pc[c] /\ pc'[t] = "answer" /\ ran[c] = 0
        BY <3>1, Distinct DEF Go, Control, ControlTypes, Counted, Held
      <3>3. \A s \in Server : peer[s] = c => s = t
        BY <3>1 DEF Placed
      <3>4. Placed(c)'
        BY <1>1, <3>2, PlacedStays
      <3>5. ASSUME NEW s \in Server, peer'[s] = c PROVE Held(c, s)'
        BY <1>1, <2>1, <3>2, <3>3, <3>5 DEF Held
      <3> QED BY <1>1, <1>2, <1>3, <2>1, <3>2, <3>4, <3>5 DEF Counted
    <2> QED BY <2>2, <2>3
  <1> QED BY <1>5, <1>6 DEF CommandStep, Rejected, SaveFloors

(* The head of the queue is taken.                                         *)
LEMMA AcceptCounts ==
    ASSUME Control, NEW c \in Command, Placed(c), Counted(c), NEW s \in Server, Accept(s)
    PROVE  Placed(c)' /\ Counted(c)'
  <1>1. /\ UNCHANGED <<link, job, ran, cut>>
        /\ pc[s] = "accept" /\ pc'[s] = "recv"
        /\ \A q \in Peer : q # s => pc'[q] = pc[q]
        /\ \A t \in Server : t # s => peer'[t] = peer[t] /\ backlog'[t] = backlog[t]
    BY Distinct DEF Accept, history, Go, Control, ControlTypes
  <1>2. /\ 1 \in DOMAIN backlog[s] /\ peer'[s] = backlog[s][1]
        /\ \A i \in DOMAIN backlog'[s] :
             i + 1 \in DOMAIN backlog[s] /\ backlog'[s][i] = backlog[s][i + 1] /\ i # 0
    BY DEF Accept, Control, ControlTypes
  <1>3. Waits(c)' => Waits(c)
    BY <1>1, <1>2 DEF Waits
  <1>4. pc'[c] = pc[c] /\ c # None
    BY <1>1, Distinct
  <1>5. \A t, r \in Server : \A i \in DOMAIN backlog'[t], j \in DOMAIN backlog'[r] :
           backlog'[t][i] = c /\ backlog'[r][j] = c => t = r /\ i = j
    <2> SUFFICES ASSUME NEW t \in Server, NEW r \in Server,
                        NEW i \in DOMAIN backlog'[t], NEW j \in DOMAIN backlog'[r],
                        backlog'[t][i] = c, backlog'[r][j] = c
                 PROVE  t = r /\ i = j
      OBVIOUS
    <2>1. backlog[t] \in Seq(Peer) /\ backlog[s] \in Seq(Peer)
          /\ backlog'[t] \in Seq(Peer) /\ backlog'[r] \in Seq(Peer)
      BY <1>1 DEF Accept, Control, ControlTypes
    <2>2. i \in Int /\ j \in Int
      BY <2>1
    <2> QED BY <1>1, <1>2, <2>2 DEF Placed
  <1>6. CASE backlog[s][1] = c
    <2>1. Waits(c) /\ Unseen(c) /\ \A t \in Server : peer[t] # c
      BY <1>2, <1>6 DEF Waits, Placed, Counted
    <2>2. \A t \in Server : peer'[t] = c => t = s
      BY <1>1, <2>1
    <2>3. ~Waits(c)'
      <3> SUFFICES ASSUME NEW t \in Server, NEW i \in DOMAIN backlog'[t], backlog'[t][i] = c
                   PROVE  FALSE
        BY DEF Waits
      <3>1. i \in Nat
        BY <1>1 DEF Accept, Control, ControlTypes
      <3>2. CASE t = s
        BY <1>2, <1>6, <3>1, <3>2 DEF Placed
      <3>3. CASE t # s
        BY <1>1, <1>2, <1>6, <3>3 DEF Placed
      <3> QED BY <3>2, <3>3
    <2>4. pc[c] # "new" /\ link[c] \notin Off
      BY <2>1 DEF Placed, Nowhere
    <2>5. Placed(c)'
      BY <1>1, <1>4, <1>5, <2>2, <2>3, <2>4 DEF Placed
    <2>6. Counted(c)'
      BY <1>1, <1>4, <2>1, <2>2, <2>3, <2>4 DEF Counted, Held, Unseen, Off
    <2> QED BY <2>5, <2>6
  <1>7. CASE backlog[s][1] # c
    <2>1. \A t \in Server : peer'[t] = c => peer[t] = c /\ t # s
      BY <1>1, <1>2, <1>7
    <2>2. Nowhere(c) => Nowhere(c)'
      BY <1>3, <2>1 DEF Nowhere
    <2>3. Placed(c)'
      BY <1>1, <1>3, <1>4, <1>5, <2>1, <2>2 DEF Placed
    <2>4. \A t \in Server : peer'[t] = c => pc'[t] = pc[t]
      BY <1>1, <2>1, Distinct
    <2>5. Counted(c)'
      BY <1>1, <1>3, <1>4, <2>1, <2>4, CountedStays
    <2> QED BY <2>3, <2>5
  <1> QED BY <1>6, <1>7

LEMMA RequestCounts ==
    ASSUME Control, NEW c \in Command, Placed(c), Counted(c), NEW s \in Server, Request(s)
    PROVE  Placed(c)' /\ Counted(c)'
  <1>1. UNCHANGED <<peer, backlog, ran, cut>> /\ pc[s] = "recv" /\ peer[s] \in Peer
    BY DEF Request, Control, Owners, Attends
  <1>2. CASE peer[s] # c
    <2>1. PICK a \in {"close", "run", "answer"} : Go(s, a)
      BY DEF Request
    <2>2. job'[c] = job[c] /\ link'[c] = link[c]
      BY <1>1, <1>2, Distinct DEF Request, Begin, Control, ControlTypes, DataTypes
    <2>3. s \in Peer /\ s # c /\ a # "new" /\ cut \subseteq cut' /\ ran'[c] = ran[c]
      BY <1>1, <2>1, Distinct
    <2> QED BY <1>1, <1>2, <2>1, <2>2, <2>3, MoveCounts
  <1>3. CASE peer[s] = c
    <2>1. Unseen(c) /\ ~Waits(c) /\ pc[c] # "new" /\ \A t \in Server : peer[t] = c => t = s
      BY <1>1, <1>3 DEF Counted, Held, Placed, Nowhere
    <2>2. UNCHANGED link /\ link[c] # "reset" /\ pc'[c] = pc[c]
      BY <1>3, Distinct DEF Request, Go, Control, ControlTypes
    <2>3. Placed(c)'
      BY <1>1, <2>2, PlacedStays
    <2>4. ~Waits(c)'
      BY <1>1, <2>1 DEF Waits
    <2>5. CASE Go(s, "run") /\ Begin(c, s)
      <3>1. pc'[s] = "run" /\ job'[c].by = s /\ job'[c] # Idle
        BY <2>5, Beginning, Distinct DEF Go, Begin, Control, ControlTypes, DataTypes
      <3> QED BY <1>1, <2>1, <2>2, <2>3, <2>4, <3>1 DEF Counted, Held, Unseen
    <2>6. CASE Go(s, "answer") /\ UNCHANGED job
      <3>1. pc'[s] = "answer"
        BY <2>6, Distinct DEF Go, Control, ControlTypes
      <3>2. job'[c] = Idle /\ ran'[c] = 0
        BY <1>1, <2>1, <2>6 DEF Unseen
      <3>3. \A t \in Server : peer'[t] = c => Held(c, t)'
        BY <1>1, <2>1, <3>1, <3>2 DEF Held
      <3> QED BY <2>2, <2>3, <2>4, <2>1, <3>2, <3>3 DEF Counted
    <2> QED BY <1>3, <2>5, <2>6, Distinct DEF Request
  <1> QED BY <1>2, <1>3

LEMMA AnswerCounts ==
    ASSUME Control, NEW c \in Command, Placed(c), Counted(c), NEW s \in Server, Answer(s)
    PROVE  Placed(c)' /\ Counted(c)'
  <1>1. /\ UNCHANGED <<backlog, job, ran, cut>>
        /\ pc[s] = "answer" /\ pc'[s] \in {"close", "accept"} /\ pc'[c] = pc[c]
        /\ \A t \in Server : t # s => pc'[t] = pc[t] /\ peer'[t] = peer[t]
        /\ peer'[s] \in {peer[s], None} /\ c # None
    BY Distinct DEF Answer, Go, Control, ControlTypes
  <1>2. Waits(c)' => Waits(c)
    BY <1>1 DEF Waits
  <1>3. CASE peer[s] # c
    <2>1. link'[c] = link[c]
      BY <1>3, Distinct DEF Answer, Control, ControlTypes
    <2>2. \A t \in Server : peer'[t] = c => peer[t] = c /\ pc'[t] = pc[t]
      BY <1>1, <1>3
    <2> QED BY <1>1, <1>2, <2>1, <2>2, PlacedStays, CountedStays
  <1>4. CASE peer[s] = c
    <2>1. /\ pc[c] # "new" /\ ~Waits(c) /\ job[c] = Idle /\ ran[c] <= 1
          /\ \A t \in Server : peer[t] = c => t = s
      BY <1>1, <1>4 DEF Placed, Nowhere, Counted, Held
    <2>2. \A t \in Server : peer'[t] = c => t = s
      BY <1>1, <2>1
    <2>3. CASE link[c] \in {"left", "closed"}
      <3>1. UNCHANGED <<peer, link>>
        BY <1>4, <2>3 DEF Answer
      <3>2. Placed(c)'
        BY <1>1, <3>1, PlacedStays
      <3> QED BY <1>1, <1>2, <2>1, <2>2, <2>3, <3>1, <3>2 DEF Counted, Held
    <2>4. CASE link[c] \notin {"left", "closed"}
      <3>1. link'[c] = "reply" /\ peer'[s] = None
        BY <1>4, <2>4, Distinct DEF Answer, Control, ControlTypes
      <3>2. Nowhere(c)'
        BY <1>1, <1>2, <2>1, <2>2, <3>1 DEF Nowhere
      <3>3. Placed(c)'
        BY <1>1, <3>2, PlacedStays DEF Nowhere
      <3> QED BY <1>1, <2>1, <3>1, <3>2, <3>3 DEF Counted, Nowhere
    <2> QED BY <2>3, <2>4
  <1> QED BY <1>3, <1>4

(* A signal to a serve process.                                            *)
LEMMA SignalCuts ==
    ASSUME Control, NEW c \in Command, Placed(c), Counted(c), NEW s \in Server,
           pc[s] \in Loop \union {"listen", "close", "unlink"},
           job' = [d \in Command |-> IF d \in Served(s) THEN Idle ELSE job[d]],
           cut' = cut \union Orphaned(s), UNCHANGED ran
    PROVE  /\ peer[s] # c => job'[c] = job[c]
           /\ peer[s] = c /\ (pc[s] = "close" => Dropped(c)) => Dropped(c)'
           /\ job'[c] \in {job[c], Idle}
  <1>1. peer[s] # c => job[c].by # s
    <2> SUFFICES ASSUME peer[s] # c, job[c].by = s PROVE FALSE
      OBVIOUS
    <2>1. job[c] # Idle
      BY Distinct DEF Idle
    <2> QED BY <2>1, Distinct DEF Control, Owners, Belongs
  <1>2. ASSUME peer[s] = c, pc[s] = "close" => Dropped(c) PROVE Dropped(c)'
    <2>1. pc[s] \in {"recv", "run", "answer", "close"}
      BY <1>2, Distinct DEF Control, Owners, Attends
    <2>2. Held(c, s)
      BY <1>2 DEF Counted
    <2>3. pc[s] \in {"run", "answer"} => c \in cut'
      BY <1>2, <2>2 DEF Held, Orphaned, Served
    <2>4. job'[c] = Idle
      BY <1>2, <2>1, <2>2 DEF Held, Served, Unseen, Dropped
    <2>5. ran[c] <= 1 /\ (pc[s] \in {"recv", "close"} /\ c \notin cut => ran[c] = 0)
      BY <1>2, <2>1, <2>2 DEF Held, Unseen, Dropped
    <2> QED BY <2>1, <2>3, <2>4, <2>5 DEF Dropped
  <1> QED BY <1>1, <1>2 DEF Served

LEMMA InterruptCounts ==
    ASSUME Control, NEW c \in Command, Placed(c), Counted(c), NEW s \in Server, Interrupt(s)
    PROVE  Placed(c)' /\ Counted(c)'
  <1>1. /\ UNCHANGED <<peer, backlog, link, ran>> /\ Go(s, "close") /\ pc[s] \in Loop
        /\ job' = [d \in Command |-> IF d \in Served(s) THEN Idle ELSE job[d]]
        /\ cut' = cut \union Orphaned(s) /\ s \in Peer /\ s # c
    BY Distinct DEF Interrupt
  <1>2. CASE peer[s] # c
    <2>1. job'[c] = job[c]
      BY <1>1, <1>2, SignalCuts
    <2> QED BY <1>1, <1>2, <2>1, MoveCounts
  <1>3. CASE peer[s] = c
    <2>1. Dropped(c)'
      BY <1>1, <1>3, SignalCuts DEF Loop
    <2>2. /\ pc'[s] = "close" /\ pc'[c] = pc[c] /\ ~Waits(c) /\ pc[c] # "new"
          /\ \A t \in Server : peer[t] = c => t = s
      BY <1>1, <1>3, Distinct DEF Go, Control, ControlTypes, Placed, Nowhere
    <2>3. ~Waits(c)'
      BY <1>1, <2>2 DEF Waits
    <2>4. Placed(c)'
      BY <1>1, <2>2, PlacedStays
    <2>5. \A t \in Server : peer'[t] = c => Held(c, t)'
      BY <1>1, <2>1, <2>2 DEF Held, Dropped
    <2>6. job'[c] = Idle /\ ran'[c] <= 2 /\ ran'[c] <= 1
      BY <1>1, <2>1 DEF Dropped, Control, DataTypes
    <2>7. c \notin cut' => ran'[c] <= 1
      BY <2>6
    <2> QED BY <2>1, <2>2, <2>3, <2>4, <2>5, <2>6, <2>7 DEF Counted
  <1> QED BY <1>2, <1>3

(* A serve process closes its descriptors.                                 *)
LEMMA HangupCounts ==
    ASSUME Control, NEW c \in Command, Placed(c), Counted(c), NEW s \in Server,
           Close(s) \/ Kill(s)
    PROVE  Placed(c)' /\ Counted(c)'
  <1>1. /\ Hangup(s) /\ UNCHANGED ran /\ cut \subseteq cut' /\ pc'[c] = pc[c]
        /\ \A t \in Server : t # s => pc'[t] = pc[t]
    BY Distinct DEF Close, Kill, history, Go, Control, ControlTypes
  <1>2. /\ peer'[s] = None /\ backlog'[s] = <<>> /\ c # None
        /\ \A t \in Server : t # s => peer'[t] = peer[t] /\ backlog'[t] = backlog[t]
    BY <1>1, Distinct DEF Hangup, Control, ControlTypes
  <1>3. \A t \in Server : \A i \in DOMAIN backlog'[t] :
           i \in DOMAIN backlog[t] /\ backlog'[t][i] = backlog[t][i]
    BY <1>2
  <1>4. Waits(c)' => Waits(c)
    BY <1>3 DEF Waits
  <1>5. \A t \in Server : peer'[t] = c => peer[t] = c /\ pc'[t] = pc[t] /\ t # s
    BY <1>1, <1>2
  <1> DEFINE here == peer[s] = c \/ \E i \in DOMAIN backlog[s] : backlog[s][i] = c
  <1>6. CASE ~here
    <2>1. link'[c] = link[c]
      BY <1>1, <1>6, Distinct DEF Hangup
    <2>2. job'[c] = job[c]
      BY <1>6, SignalCuts DEF Close, Kill
    <2> QED BY <1>1, <1>3, <1>4, <1>5, <2>1, <2>2, PlacedStays, CountedStays
  <1>7. CASE here
    <2>1. pc[c] # "new" /\ link[c] \notin Off
      BY <1>7 DEF Placed, Nowhere, Waits
    <2>2. Nowhere(c)'
      <3>1. ASSUME NEW t \in Server, NEW i \in DOMAIN backlog'[t], backlog'[t][i] = c
            PROVE  FALSE
        <4>1. t # s /\ i \in DOMAIN backlog[t] /\ backlog[t][i] = c
          BY <1>2, <1>3, <3>1
        <4> QED BY <1>7, <4>1 DEF Placed, Waits
      <3>2. ASSUME NEW t \in Server, peer'[t] = c PROVE FALSE
        BY <1>5, <1>7, <3>2 DEF Placed, Waits
      <3> QED BY <3>1, <3>2 DEF Nowhere, Waits
    <2>3. Placed(c)'
      BY <1>1, <1>3, <1>5, <2>2, PlacedStays
    <2>4. link[c] \in {"open", "sent"} => Dropped(c)'
      <3> SUFFICES ASSUME link[c] \in {"open", "sent"} PROVE Dropped(c)'
        OBVIOUS
      <3>1. CASE peer[s] = c
        <4>1. pc[s] = "close" => Dropped(c)
          BY <3>1 DEF Counted, Held
        <4>2. CASE Kill(s)
          BY <3>1, <4>1, <4>2, SignalCuts DEF Kill
        <4>3. CASE Close(s)
          BY <4>1, <4>3 DEF Close, Dropped, history
        <4> QED BY <4>2, <4>3
      <3>2. CASE peer[s] # c
        <4>1. Unseen(c)
          BY <1>7, <3>2 DEF Counted, Waits
        <4>2. job'[c] = job[c]
          BY <3>2, SignalCuts DEF Close, Kill
        <4> QED BY <1>1, <4>1, <4>2 DEF Unseen, Dropped
      <3> QED BY <3>1, <3>2
    <2>5. link'[c] = "reset" => Dropped(c)'
      BY <1>1, <2>1, <2>4, Distinct DEF Hangup, Off
    <2>6. job'[c] \in {job[c], Idle}
      BY SignalCuts DEF Close, Kill
    <2> QED BY <1>1, <2>1, <2>2, <2>3, <2>5, <2>6 DEF Counted, Nowhere
  <1> QED BY <1>6, <1>7

LEMMA QuitCounts ==
    ASSUME Control, NEW c \in Command, Placed(c), Counted(c), NEW d \in Command, Quit(d)
    PROVE  Placed(c)' /\ Counted(c)'
  <1>1. /\ UNCHANGED <<peer, backlog, ran>> /\ cut \subseteq cut' /\ Go(d, "gone")
        /\ \A s \in Server : pc'[s] = pc[s]
    BY Distinct DEF Quit, Go, Control, ControlTypes
  <1>2. CASE c # d
    <2>1. link'[c] = link[c] /\ job'[c] = job[c]
      BY <1>2, Distinct DEF Quit, Control, ControlTypes, DataTypes
    <2> QED BY <1>1, <1>2, <2>1, Distinct, MoveCounts
  <1>3. CASE c = d
    <2>1. /\ pc'[c] = "gone" /\ pc[c] # "new"
          /\ link'[c] \in Off => link[c] \in Off
          /\ link'[c] \notin {"open", "sent"}
      BY <1>1, <1>3, Distinct DEF Quit, Go, Off, Control, ControlTypes
    <2>2. job'[c] = job[c] \/ (job[c].by = c /\ job'[c] = Idle)
      BY <1>3 DEF Quit, Control, DataTypes
    <2>3. Placed(c)'
      BY <1>1, <2>1, PlacedStays
    <2>4. Waits(c)' => Unseen(c)
      BY <1>1 DEF Waits, Counted
    <2>5. ASSUME NEW s \in Server, peer'[s] = c PROVE Held(c, s)'
      BY <1>1, <2>1, <2>2, <2>5, Distinct DEF Counted, Held, Unseen
    <2> QED BY <1>1, <2>1, <2>2, <2>3, <2>4, <2>5 DEF Counted, Unseen
  <1> QED BY <1>2, <1>3

LEMMA CommandCounts ==
    ASSUME Control, NEW c \in Command, Placed(c), Counted(c), NEW d \in Command,
           StartCommand(d) \/ ClientStep(d)
    PROVE  Placed(c)' /\ Counted(c)'
  <1>1. CASE CommandStep(d)
    BY <1>1, OtherWorks, WorkCounts
  <1>2. CASE StartCommand(d) /\ Connects /\ Connect(d) /\ Go(d, "send")
    <2>1. UNCHANGED <<peer, job, ran, cut>> /\ pc[d] = "new" /\ d \in Peer
      BY <1>2, Distinct DEF StartCommand, RunLocally, Go, history, Control, ControlTypes
    <2> QED BY <1>2, <2>1, OtherConnects, CommandConnects
  <1>3. CASE RunLocally(d) /\ UNCHANGED link /\ d # c
    <2>1. /\ UNCHANGED <<peer, backlog, ran, cut>> /\ job'[c] = job[c] /\ Go(d, "local")
      BY <1>3 DEF RunLocally, Begin, Control, DataTypes
    <2> QED BY <1>3, <2>1, Distinct, MoveCounts
  <1>4. CASE Send(d)
    <2>1. /\ UNCHANGED <<peer, backlog, job, ran, cut>> /\ Go(d, "wait") /\ pc[d] = "send"
          /\ link'[c] = link[c] \/ (link[c] = "open" /\ link'[c] = "sent")
      BY <1>4, Distinct DEF Send, history, Control, ControlTypes
    <2>2. link'[c] \in Off => link[c] \in Off
      BY <2>1, Distinct DEF Off
    <2> QED BY <2>1, <2>2, Distinct, MoveCounts
  <1>5. CASE Receive(d) /\ link[d] = "reply"
    <2>1. UNCHANGED <<peer, backlog, link, job, ran, cut>> /\ Go(d, "done")
      BY <1>5 DEF Receive, history
    <2> QED BY <2>1, Distinct, MoveCounts
  <1> QED BY <1>1, <1>2, <1>3, <1>4, <1>5, LocalCounts
         DEF ClientStep, StartCommand, Receive

LEMMA ServerCounts ==
    ASSUME Control, NEW c \in Command, Placed(c), Counted(c), NEW s \in Server,
           StartStop(s) \/ StartServe(s) \/ ServeStep(s) \/ Interrupt(s) \/ Kill(s)
    PROVE  Placed(c)' /\ Counted(c)'
  <1>1. s \in Peer /\ s # c
    BY Distinct
  <1>2. CASE StartStop(s) \/ StartServe(s)
    <2>1. CASE Connects /\ Connect(s) /\ \E a : Go(s, a)
      BY <1>1, <1>2, <2>1, OtherConnects DEF StartStop, StartServe
    <2>2. CASE UNCHANGED <<backlog, link>> /\ \E a \in {"over", "forget", "bind", "clear"} : Go(s, a)
      <3>1. peer[s] # c /\ UNCHANGED <<peer, job, ran, cut>>
        BY <1>2, Distinct DEF StartStop, StartServe, Control, Owners, Attends
      <3> QED BY <1>1, <2>2, <3>1, MoveCounts
    <2> QED BY <1>2, <2>1, <2>2 DEF StartStop, StartServe
  <1>3. CASE \/ ClearStale(s) \/ Send(s) \/ Stopped(s) \/ EndProbe(s) \/ Clear(s)
             \/ Bind(s) \/ Listen(s) \/ Unlink(s)
    <2>1. /\ UNCHANGED <<peer, backlog, job, ran, cut>> /\ link'[c] = link[c]
          /\ pc[s] \in {"forget", "send", "wait", "probe", "clear", "bind", "listen", "unlink"}
      BY <1>1, <1>3, Distinct DEF ClearStale, Send, Stopped, EndProbe, Clear, Bind, Listen,
         Unlink, history, Control, ControlTypes
    <2>2. PICK a \in ServerAt \ {"new"} : Go(s, a)
      BY <1>3 DEF ClearStale, Send, Stopped, EndProbe, Clear, Bind, Listen, Unlink, ServerAt
    <2>3. peer[s] # c
      BY <2>1, Distinct DEF Control, Owners, Attends
    <2> QED BY <1>1, <2>1, <2>2, <2>3, MoveCounts
  <1> QED BY <1>2, <1>3, AcceptCounts, RequestCounts, AnswerCounts, InterruptCounts,
             HangupCounts DEF ServeStep

LEMMA CountHolds == Spec => []CountInv
  <1>1. Init => CountInv
    <2> SUFFICES ASSUME Init, NEW c \in Command PROVE Placed(c) /\ Counted(c)
      BY DEF CountInv
    <2>1. Nowhere(c) /\ Unseen(c) /\ pc[c] = "new"
      BY Distinct DEF Init, Nowhere, Waits, Unseen
    <2> QED BY <2>1 DEF Init, Placed, Counted, Nowhere, Waits, Unseen
  <1>2. Control /\ CountInv /\ [Next]_vars => CountInv'
    <2> SUFFICES ASSUME Control, [Next]_vars, NEW c \in Command, Placed(c), Counted(c)
                 PROVE  Placed(c)' /\ Counted(c)'
      BY DEF CountInv
    <2>1. CASE UNCHANGED vars
      <3>1. Waits(c)' => Waits(c)
        BY <2>1 DEF vars, Waits
      <3> QED BY <2>1, <3>1, PlacedStays, CountedStays DEF vars
    <2> QED BY <2>1, CommandCounts, QuitCounts, ServerCounts DEF Next
  <1> QED BY <1>1, <1>2, ControlHolds, PTL DEF Spec

(* daemon.py:134: falling back to its own process, a command runs twice    *)
(* only if a signal took the daemon that had it.                           *)
THEOREM NeverTwice == Spec => []RunsOnce
  <1>1. Control /\ CountInv => RunsOnce
    <2> SUFFICES ASSUME Control, NEW c \in Command, Counted(c),
                        ran[c] + (IF c \in Running THEN 1 ELSE 0) > 1
                 PROVE  c \in cut
      BY DEF CountInv, RunsOnce
    <2>1. ran[c] \in Nat /\ (c \in Running => job[c] # Idle)
      BY DEF Control, DataTypes, Running
    <2> QED BY <2>1 DEF Counted
  <1> QED BY <1>1, ControlHolds, CountHolds, PTL

(* Every variable keeps its type, no command runs a third time, and a run  *)
(* belongs to the process that is busy with it.                            *)
THEOREM DaemonTypes == Spec => []DaemonTypeOK
  <1>1. Control /\ CountInv => DaemonTypeOK
    <2> SUFFICES ASSUME Control, CountInv PROVE DaemonTypeOK
      OBVIOUS
    <2>1. ran \in [Command -> 0 .. 2]
      BY DEF Control, DataTypes, CountInv, Counted
    <2>2. \A c \in Running :
             IF job[c].by = c THEN pc[c] = "local"
             ELSE pc[job[c].by] = "run" /\ peer[job[c].by] = c
      BY DEF Control, Owners, Belongs, Running
    <2> QED BY <2>1, <2>2 DEF DaemonTypeOK, Control, ControlTypes, DataTypes
  <1> QED BY <1>1, ControlHolds, CountHolds, PTL
=============================================================================
