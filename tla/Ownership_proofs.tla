--------------------------- MODULE Ownership_proofs ---------------------------
(***************************************************************************)
(* Theorems about Ownership, for any number of processes and sessions.     *)
(***************************************************************************)
EXTENDS Ownership, TLAPS

\* The types of the processes.  Only a Kill has a step, and a crash leaves it.
ProcType ==
    /\ phase \in [Procs -> Phases]
    /\ job \in [Procs -> Jobs \cup {None}]
    /\ step \in [Procs -> Steps \cup {None}]
    /\ target \in [Procs -> Sessions \cup {None}]
    /\ todo \in [Procs -> SUBSET Sessions]
    /\ signalled \subseteq Procs
    /\ \A p \in Procs :
          /\ phase[p] = "kill" => step[p] # None /\ job[p] # None /\ target[p] # None
          /\ phase[p] \in {"launch", "launched"} => target[p] # None
          /\ phase[p] \notin {"kill", "crashed"} => step[p] = None

SessionType ==
    /\ owner \in [Sessions -> Procs \cup {None}]
    /\ tmux \subseteq Sessions /\ marker \subseteq Sessions /\ old \subseteq Sessions
    /\ fifo \subseteq Sessions /\ active \subseteq Sessions /\ held \subseteq Sessions
    /\ connected \subseteq Sessions
    /\ tried \in [Sessions -> Disconnects \cup {None}]

TypeInv == ProcType /\ SessionType

\* The invariants as the processes rely on them.  A session is settled when its
\* Connect is over: only such a session is ever cleaned up, by whichever process.
Settled(s) == owner[s] # None /\ ~Connecting(s)

ConnectInv ==
    /\ \A p \in Procs : phase[p] \in {"launch", "launched"} =>
          /\ owner[target[p]] = p
          /\ target[p] \notin connected
          /\ target[p] \in marker \cap fifo
          /\ phase[p] = "launch" => target[p] \notin tmux
    /\ \A s \in old \cup connected : Settled(s)
    /\ held \cup active \subseteq connected
    /\ \A s \in tmux \cup marker : owner[s] # None

KillKnows(p) ==
    /\ \A s \in todo[p] : Settled(s)
    /\ phase[p] = "kill" =>
          /\ Settled(target[p])
          /\ job[p] \in Disconnects => owner[target[p]] = p /\ tried[target[p]] = job[p]
          /\ ~ProbesFail /\ step[p] = "dead" => target[p] \notin tmux

KillInv == \A p \in Procs : KillKnows(p)

AccountInv ==
    \A s \in connected : phase[owner[s]] # "crashed" =>
        \/ s \in active
        \/ s \notin marker \cup fifo /\ (s \notin tmux \/ CloseCutShort(s))

-----------------------------------------------------------------------------
\* The two parts give the type invariant of the runs.
LEMMA TypeParts == TypeInv => TypeOK
  BY DEF TypeInv, ProcType, SessionType, TypeOK

\* The program is in a state of the right types at first.
LEMMA InitType == Init => TypeInv
  BY OwnershipAssumption DEF Init, TypeInv, ProcType, SessionType, Phases, Jobs, Steps,
                             Disconnects

\* A Kill that is over returns to the cleanup or the request it was for.
LEMMA ResumesWhere ==
    ASSUME TypeInv, NEW p \in Procs, Killed(p)
    PROVE  Resumes(job[p]) \in {"serving", "stale", "sweep"}
  BY DEF Killed, Resumes, TypeInv, ProcType, Jobs

\* The beginning of a Kill, a step and the end of it keep the types.
LEMMA KillTypes ==
    ASSUME TypeInv, NEW p \in Procs, signalled' = signalled, todo' \in [Procs -> SUBSET Sessions],
           \/ \E s \in Sessions, j \in Jobs : Kill(p, s, j)
           \/ \E from, to \in Steps : KillStep(p, from, to)
           \/ Killed(p)
    PROVE  ProcType'
<1>1. None \notin Sessions /\ None \notin Steps /\ None \notin Jobs
  BY OwnershipAssumption
<1>2. ASSUME NEW s \in Sessions, NEW j \in Jobs, Kill(p, s, j) PROVE ProcType'
  BY <1>1, <1>2 DEF Kill, Goto, TypeInv, ProcType, Phases, Steps
<1>3. ASSUME NEW from \in Steps, NEW to \in Steps, KillStep(p, from, to) PROVE ProcType'
  BY <1>1, <1>3 DEF KillStep, TypeInv, ProcType
<1>4. CASE Killed(p)
  BY <1>4, ResumesWhere DEF Killed, Goto, TypeInv, ProcType, Phases
<1> QED BY <1>2, <1>3, <1>4

\* Every step keeps the types.
LEMMA TypeStep == TypeInv /\ [Next]_vars => TypeInv'
<1> SUFFICES ASSUME TypeInv, [Next]_vars PROVE TypeInv'
  OBVIOUS
<1>1. CASE Outside
  <2>1. ASSUME NEW s \in Sessions, Age(s) \/ Dies(s) PROVE TypeInv'
    BY <2>1 DEF Age, Dies, procVars, files, TypeInv, ProcType, SessionType
  <2>2. ASSUME NEW p \in Procs, Signal(p) PROVE TypeInv'
    BY <2>2 DEF Signal, files, TypeInv, ProcType, SessionType
  <2>3. ASSUME NEW p \in Procs, Crash(p) PROVE TypeInv'
    BY <2>3 DEF Crash, Goto, files, TypeInv, ProcType, SessionType, Phases
  <2> QED BY <1>1, <2>1, <2>2, <2>3 DEF Outside
<1>2. ASSUME NEW p \in Procs, KillProgress(p) PROVE TypeInv'
  <2>1. CASE Command(p) \/ CommandFails(p) \/ PollDead(p) \/ PollEnds(p) \/ KillSession(p)
             \/ KillSessionFails(p)
    <3>1. \E from, to \in Steps : KillStep(p, from, to)
      BY <2>1 DEF Command, CommandFails, PollDead, PollEnds, KillSession, KillSessionFails, Steps
    <3>2. ProcType'
      <4>1. signalled' = signalled /\ todo' \in [Procs -> SUBSET Sessions]
        BY <3>1 DEF KillStep, TypeInv, ProcType
      <4> QED BY <3>1, <4>1, KillTypes
    <3>3. tmux' \subseteq Sessions
      BY <2>1 DEF Command, CommandFails, PollDead, PollEnds, KillSession, KillSessionFails,
                  TypeInv, SessionType
    <3> QED BY <3>1, <3>2, <3>3 DEF KillStep, files, TypeInv, SessionType
  <2>2. CASE Keep(p) \/ CleanUp(p)
    <3>1. Killed(p)
      BY <2>2 DEF Keep, CleanUp
    <3>2. ProcType'
      BY <3>1, KillTypes DEF Killed, TypeInv, ProcType
    <3> QED BY <2>2, <3>1, <3>2 DEF Keep, CleanUp, Killed, TypeInv, SessionType
  <2> QED BY <1>2, <2>1, <2>2 DEF KillProgress
<1>3. ASSUME NEW p \in Procs, Startup(p) PROVE TypeInv'
  <2>1. CASE FindStale(p)
    BY <2>1 DEF FindStale, Goto, files, TypeInv, ProcType, SessionType, Phases
  <2>2. ASSUME NEW s \in Sessions, KillStale(p, s) PROVE TypeInv'
    BY <2>2, KillTypes DEF KillStale, Kill, files, Jobs, TypeInv, ProcType, SessionType
  <2>3. ASSUME NEW s \in Sessions, SkipStale(p, s) PROVE TypeInv'
    BY <2>3 DEF SkipStale, files, TypeInv, ProcType, SessionType
  <2>4. CASE Serve(p)
    BY <2>4 DEF Serve, Goto, files, TypeInv, ProcType, SessionType, Phases
  <2> QED BY <1>3, <2>1, <2>2, <2>3, <2>4 DEF Startup
<1>4. ASSUME NEW p \in Procs, NEW s \in Sessions, NEW j \in Disconnects, Disconnect(p, s, j)
      PROVE  TypeInv'
  BY <1>4, KillTypes DEF Disconnect, Kill, files, Jobs, TypeInv, ProcType, SessionType
<1>5. ASSUME NEW p \in Procs, Shutdown(p) PROVE TypeInv'
  <2>1. CASE Exit(p)
    BY <2>1 DEF Exit, Goto, files, TypeInv, ProcType, SessionType, Phases
  <2>2. ASSUME NEW s \in Sessions, Sweep(p, s) PROVE TypeInv'
    BY <2>2, KillTypes DEF Sweep, Kill, files, Jobs, TypeInv, ProcType, SessionType
  <2>3. CASE End(p)
    BY <2>3 DEF End, Goto, files, TypeInv, ProcType, SessionType, Phases
  <2> QED BY <1>4, <1>5, <2>1, <2>2, <2>3 DEF Shutdown, Disconnects
<1>6. ASSUME NEW p \in Procs, Clients(p) PROVE TypeInv'
  <2>1. ASSUME NEW s \in Sessions, Connect(p, s) PROVE TypeInv'
    BY <2>1, OwnershipAssumption
       DEF Connect, Goto, TypeInv, ProcType, SessionType, Phases
  <2>2. CASE Launch(p)
    BY <2>2 DEF Launch, Goto, files, TypeInv, ProcType, SessionType, Phases
  <2>3. CASE Launched(p)
    BY <2>3 DEF Launched, Goto, files, TypeInv, ProcType, SessionType, Phases
  <2>4. CASE LaunchFails(p)
    BY <2>4 DEF LaunchFails, Goto, files, TypeInv, ProcType, SessionType, Phases
  <2> QED BY <1>4, <1>6, <2>1, <2>2, <2>3, <2>4 DEF Clients, Disconnects
<1>7. CASE UNCHANGED vars
  BY <1>7 DEF vars, procVars, files, TypeInv, ProcType, SessionType
<1> QED BY <1>1, <1>2, <1>3, <1>5, <1>6, <1>7 DEF Next

\* Every variable keeps its type; a Kill has a step and a session while it runs
\* and no step once it is over.
THEOREM TypeCorrect == Spec => []TypeOK
  BY InitType, TypeStep, TypeParts, PTL DEF Spec

-----------------------------------------------------------------------------
\* What no step takes from a session whose Connect is over: it stays settled and
\* its process's, tmux does not get it back, and one Disconnect is all it gets.
Stable ==
    \A s \in Sessions : Settled(s) =>
        /\ Settled(s)' /\ owner'[s] = owner[s]
        /\ s \in tmux' => s \in tmux
        /\ tried[s] # None => tried'[s] = tried[s]

\* A step with which no process begins a Connect and tmux makes no session.
LEMMA CalmStable ==
    ASSUME \A q \in Procs : phase'[q] \in {"launch", "launched"} =>
               phase[q] \in {"launch", "launched"} /\ target'[q] = target[q],
           owner' = owner, tmux' \subseteq tmux,
           \A s \in Sessions : tried[s] # None => tried'[s] = tried[s]
    PROVE  Stable
  BY DEF Stable, Settled, Connecting

\* So does every other step.
LEMMA StableStep == ASSUME TypeInv, ConnectInv, Next PROVE Stable
<1> USE DEF TypeInv, ProcType, SessionType
<1>1. CASE Outside
  <2>1. ASSUME NEW s \in Sessions, Age(s) \/ Dies(s) PROVE Stable
    BY <2>1, CalmStable DEF Age, Dies, procVars
  <2>2. ASSUME NEW p \in Procs, Signal(p) \/ Crash(p) PROVE Stable
    BY <2>2, CalmStable DEF Signal, Crash, Goto
  <2> QED BY <1>1, <2>1, <2>2 DEF Outside
<1>2. ASSUME NEW p \in Procs, KillProgress(p) PROVE Stable
  <2>1. CASE Command(p) \/ CommandFails(p) \/ PollDead(p) \/ PollEnds(p) \/ KillSession(p)
             \/ KillSessionFails(p)
    BY <2>1, CalmStable DEF Command, CommandFails, PollDead, PollEnds, KillSession,
                            KillSessionFails, KillStep
  <2>2. CASE Keep(p) \/ CleanUp(p)
    <3>1. Killed(p)
      BY <2>2 DEF Keep, CleanUp
    <3> QED BY <3>1, ResumesWhere, CalmStable DEF Killed, Goto
  <2> QED BY <1>2, <2>1, <2>2 DEF KillProgress
<1>3. ASSUME NEW p \in Procs, Startup(p) PROVE Stable
  BY <1>3, CalmStable DEF Startup, FindStale, Serve, KillStale, SkipStale, Kill, Goto
<1>4. ASSUME NEW p \in Procs, NEW s \in Sessions, NEW j \in Disconnects, Disconnect(p, s, j)
      PROVE  Stable
  BY <1>4, CalmStable DEF Disconnect, Kill, Goto
<1>5. ASSUME NEW p \in Procs, Shutdown(p) PROVE Stable
  BY <1>4, <1>5, CalmStable DEF Shutdown, Exit, Sweep, End, Kill, Goto, Disconnects
<1>6. ASSUME NEW p \in Procs, Clients(p) PROVE Stable
  <2>1. ASSUME NEW s \in Sessions, Connect(p, s) PROVE Stable
    <3>1. \A x \in Sessions : Settled(x) => x # s /\ owner'[x] = owner[x]
      BY <2>1 DEF Connect, Settled
    <3>2. \A x \in Sessions : x # s /\ Connecting(x)' => Connecting(x)
      BY <2>1 DEF Connect, Goto, Connecting
    <3> QED BY <2>1, <3>1, <3>2 DEF Connect, Stable, Settled
  <2>2. CASE Launch(p)
    <3>1. ~Settled(target[p])
      BY <2>2 DEF Launch, Settled, Connecting
    <3>2. \A x \in Sessions : Connecting(x)' => Connecting(x)
      BY <2>2 DEF Launch, Goto, Connecting
    <3> QED BY <2>2, <3>1, <3>2 DEF Launch, Stable, Settled
  <2>3. CASE Launched(p) \/ LaunchFails(p)
    BY <2>3, CalmStable DEF Launched, LaunchFails, Goto
  <2> QED BY <1>4, <1>6, <2>1, <2>2, <2>3 DEF Clients, Disconnects
<1> QED BY <1>1, <1>2, <1>3, <1>5, <1>6 DEF Next

-----------------------------------------------------------------------------
\* A step with which no process begins or goes on with a Connect, and that
\* removes no evidence but that of settled sessions.
LEMMA ConnectFrame ==
    ASSUME TypeInv, TypeInv', ConnectInv, Stable,
           \A q \in Procs : phase'[q] \in {"launch", "launched"} =>
               phase[q] = phase'[q] /\ target'[q] = target[q],
           owner' = owner, connected' = connected, tmux' \subseteq tmux, marker' \subseteq marker,
           held' \subseteq held, active' \subseteq active,
           \A s \in old' \ old : Settled(s),
           \A s \in (marker \ marker') \cup (fifo \ fifo') : Settled(s)
    PROVE  ConnectInv'
<1>1. ASSUME NEW p \in Procs, phase'[p] \in {"launch", "launched"}
      PROVE  /\ owner'[target'[p]] = p
             /\ target'[p] \notin connected'
             /\ target'[p] \in marker' \cap fifo'
             /\ phase'[p] = "launch" => target'[p] \notin tmux'
  <2>1. phase[p] = phase'[p] /\ target'[p] = target[p] /\ ~Settled(target[p])
    BY <1>1 DEF Settled, Connecting
  <2> QED BY <1>1, <2>1 DEF ConnectInv
<1>2. \A s \in Sessions : Settled(s) => Settled(s)'
  BY DEF Stable
<1>3. \A s \in old' \cup connected' : s \in Sessions /\ Settled(s)
  BY DEF ConnectInv, TypeInv, SessionType
<1> QED BY <1>1, <1>2, <1>3 DEF ConnectInv

\* Every step keeps ConnectInv.
LEMMA ConnectStep == ASSUME TypeInv, TypeInv', ConnectInv, KillInv, Stable, Next PROVE ConnectInv'
<1>1. CASE Outside
  <2>1. ASSUME NEW s \in Sessions, Dies(s) PROVE ConnectInv'
    BY <2>1, ConnectFrame DEF Dies, procVars, files
  <2>2. ASSUME NEW s \in Sessions, Age(s) PROVE ConnectInv'
    <3>1. Settled(s)
      BY <2>2 DEF Age, Settled, ConnectInv
    <3> QED BY <2>2, <3>1, ConnectFrame DEF Age, procVars
  <2>3. ASSUME NEW p \in Procs, Signal(p) \/ Crash(p) PROVE ConnectInv'
    BY <2>3, ConnectFrame DEF Signal, Crash, Goto, files, TypeInv, ProcType
  <2> QED BY <1>1, <2>1, <2>2, <2>3 DEF Outside
<1>2. ASSUME NEW p \in Procs, KillProgress(p) PROVE ConnectInv'
  <2>1. CASE Command(p) \/ CommandFails(p) \/ PollDead(p) \/ PollEnds(p) \/ KillSession(p)
             \/ KillSessionFails(p)
    BY <2>1, ConnectFrame DEF Command, CommandFails, PollDead, PollEnds, KillSession,
                              KillSessionFails, KillStep, files
  <2>2. CASE Keep(p) \/ CleanUp(p)
    <3>1. Killed(p) /\ Settled(target[p])
      BY <2>2 DEF Keep, CleanUp, Killed, KillInv, KillKnows
    <3>2. \A s \in (marker \ marker') \cup (fifo \ fifo') : Settled(s)
      BY <2>2, <3>1 DEF Keep, CleanUp
    <3>3. held' \subseteq held /\ active' \subseteq active /\ marker' \subseteq marker
      BY <2>2 DEF Keep, CleanUp
    <3>4. \A q \in Procs : phase'[q] \in {"launch", "launched"} =>
              phase[q] = phase'[q] /\ target'[q] = target[q]
      BY <3>1, ResumesWhere DEF Killed, Goto, TypeInv, ProcType
    <3> QED BY <3>1, <3>2, <3>3, <3>4, ConnectFrame DEF Killed
  <2> QED BY <1>2, <2>1, <2>2 DEF KillProgress
<1>3. ASSUME NEW p \in Procs, Startup(p) PROVE ConnectInv'
  BY <1>3, ConnectFrame DEF Startup, FindStale, Serve, KillStale, SkipStale, Kill, Goto, files,
                            TypeInv, ProcType
<1>4. ASSUME NEW p \in Procs, NEW s \in Sessions, NEW j \in Disconnects, Disconnect(p, s, j)
      PROVE  ConnectInv'
  BY <1>4, ConnectFrame DEF Disconnect, Kill, Goto, files, TypeInv, ProcType
<1>5. ASSUME NEW p \in Procs, Shutdown(p) PROVE ConnectInv'
  BY <1>4, <1>5, ConnectFrame DEF Shutdown, Exit, Sweep, End, Kill, Goto, files, Disconnects,
                                  TypeInv, ProcType
<1>6. ASSUME NEW p \in Procs, NEW s \in Sessions, Connect(p, s) PROVE ConnectInv'
  <2>1. s \notin connected \cup old \cup held \cup active \cup tmux
    BY <1>6 DEF Connect, ConnectInv, Settled
  <2>2. ASSUME NEW q \in Procs, phase'[q] \in {"launch", "launched"}
        PROVE  /\ owner'[target'[q]] = q
               /\ target'[q] \notin connected'
               /\ target'[q] \in marker' \cap fifo'
               /\ phase'[q] = "launch" => target'[q] \notin tmux'
    <3>1. CASE q = p
      BY <1>6, <2>1, <3>1 DEF Connect, Goto, TypeInv, ProcType, SessionType
    <3>2. CASE q # p
      <4>1. phase'[q] = phase[q] /\ target'[q] = target[q] /\ target[q] # s
        BY <1>6, <2>2, <3>2, OwnershipAssumption
           DEF Connect, Goto, TypeInv, ProcType, ConnectInv
      <4> QED BY <1>6, <2>2, <4>1 DEF Connect, TypeInv, ProcType, SessionType, ConnectInv
    <3> QED BY <3>1, <3>2
  <2>3. \A x \in old' \cup connected' : Settled(x)'
    BY <1>6 DEF Connect, ConnectInv, Stable, TypeInv, SessionType
  <2>4. \A x \in tmux' \cup marker' : owner'[x] # None
    BY <1>6, OwnershipAssumption DEF Connect, ConnectInv, TypeInv, SessionType
  <2> QED BY <1>6, <2>2, <2>3, <2>4 DEF Connect, ConnectInv
<1>7. ASSUME NEW p \in Procs, Launch(p) \/ Launched(p) \/ LaunchFails(p) PROVE ConnectInv'
  <2>1. /\ phase[p] \in {"launch", "launched"} /\ target[p] \in Sessions
        /\ owner[target[p]] = p /\ target[p] \notin connected /\ ~Settled(target[p])
    BY <1>7 DEF Launch, Launched, LaunchFails, TypeInv, ProcType, ConnectInv, Settled, Connecting
  <2>2. UNCHANGED <<target, owner, old>>
    BY <1>7 DEF Launch, Launched, LaunchFails, files
  <2>3. ASSUME NEW q \in Procs, phase'[q] \in {"launch", "launched"}, q # p
        PROVE  /\ owner'[target'[q]] = q
               /\ target'[q] \notin connected'
               /\ target'[q] \in marker' \cap fifo'
               /\ phase'[q] = "launch" => target'[q] \notin tmux'
    <3>1. phase'[q] = phase[q] /\ owner[target[q]] = q /\ target[q] # target[p]
      BY <1>7, <2>1, <2>3 DEF Launch, Launched, LaunchFails, Goto, TypeInv, ProcType, ConnectInv
    <3> QED BY <1>7, <2>2, <2>3, <3>1 DEF Launch, Launched, LaunchFails, files, ConnectInv
  <2>4. CASE Launch(p)
    <3>1. phase'[p] = "launched"
      BY <2>4 DEF Launch, Goto, TypeInv, ProcType
    <3>2. \A x \in old' \cup connected' : Settled(x)'
      BY <2>4 DEF Launch, files, ConnectInv, Stable, TypeInv, SessionType
    <3>3. \A x \in tmux' \cup marker' : owner'[x] # None
      BY <2>1, <2>2, <2>4, OwnershipAssumption DEF Launch, files, ConnectInv
    <3>4. /\ target'[p] \notin connected' /\ target'[p] \in marker' \cap fifo'
          /\ held' \cup active' \subseteq connected'
      BY <2>1, <2>4 DEF Launch, files, ConnectInv
    <3> QED BY <2>1, <2>2, <2>3, <3>1, <3>2, <3>3, <3>4 DEF ConnectInv
  <2>5. CASE Launched(p) \/ LaunchFails(p)
    <3>1. phase'[p] = "serving"
      BY <2>5 DEF Launched, LaunchFails, Goto, TypeInv, ProcType
    <3>2. ~Connecting(target[p])'
      <4>1. \A q \in Procs : phase'[q] \in {"launch", "launched"} => q # p /\ owner[target[q]] = q
        BY <2>2, <2>3, <3>1
      <4> QED BY <2>1, <2>2, <4>1 DEF Connecting
    <3>3. Settled(target[p])'
      BY <2>1, <2>2, <3>2, OwnershipAssumption DEF Settled
    <3>4. \A x \in old' \cup connected' : Settled(x)'
      BY <2>5, <3>3 DEF Launched, LaunchFails, files, ConnectInv, Stable, TypeInv, SessionType
    <3>5. held' \cup active' \subseteq connected' /\ tmux' = tmux /\ marker' \subseteq marker
      BY <2>5 DEF Launched, LaunchFails, files, ConnectInv
    <3> QED BY <2>2, <2>3, <3>1, <3>4, <3>5 DEF ConnectInv
  <2> QED BY <1>7, <2>4, <2>5
<1> QED
  BY <1>1, <1>2, <1>3, <1>4, <1>5, <1>6, <1>7 DEF Next, Clients, Disconnects

-----------------------------------------------------------------------------
\* A process that begins no Kill and makes no step of one, and looks for no more
\* sessions, knows what it knew.
LEMMA KillFrame ==
    ASSUME TypeInv, Stable, NEW q \in Procs, KillKnows(q), todo'[q] \subseteq todo[q],
           phase'[q] = "kill" => phase[q] = "kill" /\ UNCHANGED <<job[q], step[q], target[q]>>
    PROVE  KillKnows(q)'
<1>1. \A s \in todo[q] : s \in Sessions
  BY DEF TypeInv, ProcType
<1>2. phase[q] = "kill" => target[q] \in Sessions /\ job[q] \in Jobs
  BY DEF TypeInv, ProcType
<1>3. None \notin Disconnects
  BY OwnershipAssumption DEF Jobs
<1> QED BY <1>1, <1>2, <1>3 DEF KillKnows, Stable

\* A Kill begins for a settled session.
LEMMA KillBegins ==
    ASSUME TypeInv, Stable, KillInv, NEW p \in Procs, NEW s \in Sessions, NEW j \in Jobs,
           Kill(p, s, j), Settled(s), j \in Disconnects => owner[s] = p /\ tried'[s] = j,
           \A q \in Procs : todo'[q] \subseteq todo[q]
    PROVE  KillInv'
<1>1. ASSUME NEW q \in Procs, q # p PROVE KillKnows(q)'
  BY <1>1, KillFrame DEF Kill, Goto, KillInv, TypeInv, ProcType
<1>2. phase'[p] = "kill" /\ target'[p] = s /\ job'[p] = j /\ step'[p] = "interrupt"
  BY DEF Kill, Goto, TypeInv, ProcType
<1>3. \A x \in todo'[p] : Settled(x)'
  BY DEF KillInv, KillKnows, Stable, TypeInv, ProcType
<1>4. KillKnows(p)'
  BY <1>2, <1>3 DEF KillKnows, Stable
<1> QED BY <1>1, <1>4 DEF KillInv

\* Every step keeps KillInv.  A session is found dead only when it is.
LEMMA KillInvStep == ASSUME TypeInv, TypeInv', ConnectInv, KillInv, Stable, Next PROVE KillInv'
<1>1. CASE Outside
  <2>1. ASSUME NEW q \in Procs PROVE KillKnows(q)'
    BY <1>1, KillFrame DEF Outside, Age, Dies, Signal, Crash, Goto, procVars, KillInv, TypeInv,
                           ProcType
  <2> QED BY <2>1 DEF KillInv
<1>2. ASSUME NEW p \in Procs, KillProgress(p) PROVE KillInv'
  <2>1. CASE Command(p) \/ CommandFails(p) \/ PollDead(p) \/ PollEnds(p) \/ KillSession(p)
             \/ KillSessionFails(p)
    <3>1. PICK from \in Steps, to \in Steps : KillStep(p, from, to)
      BY <2>1 DEF Command, CommandFails, PollDead, PollEnds, KillSession, KillSessionFails, Steps
    <3>2. ASSUME NEW q \in Procs, q # p PROVE KillKnows(q)'
      BY <3>1, <3>2, KillFrame DEF KillStep, KillInv, TypeInv, ProcType
    <3>3. ~ProbesFail /\ step'[p] = "dead" => target[p] \notin tmux'
      BY <2>1 DEF Command, CommandFails, PollDead, PollEnds, KillSession, KillSessionFails,
                  KillStep, Alive, Unanswered, TypeInv, ProcType
    <3>4. phase'[p] = "kill" /\ phase[p] = "kill" /\ UNCHANGED <<job, target, todo, owner, tried>>
      BY <3>1 DEF KillStep
    <3>5. target[p] \in Sessions /\ \A s \in todo[p] : s \in Sessions
      BY <3>4 DEF TypeInv, ProcType
    <3>6. KillKnows(p)'
      BY <3>3, <3>4, <3>5 DEF KillInv, KillKnows, Stable
    <3> QED BY <3>2, <3>6 DEF KillInv
  <2>2. CASE Keep(p) \/ CleanUp(p)
    <3>1. Killed(p)
      BY <2>2 DEF Keep, CleanUp
    <3>2. ASSUME NEW q \in Procs PROVE KillKnows(q)'
      BY <3>1, KillFrame, ResumesWhere DEF Killed, Goto, KillInv, TypeInv, ProcType
    <3> QED BY <3>2 DEF KillInv
  <2> QED BY <1>2, <2>1, <2>2 DEF KillProgress
<1>3. ASSUME NEW p \in Procs, NEW s \in Sessions, KillStale(p, s) \/ Sweep(p, s) PROVE KillInv'
  <2>1. Settled(s) /\ \A q \in Procs : todo'[q] \subseteq todo[q]
    BY <1>3 DEF KillStale, Sweep, KillInv, KillKnows, TypeInv, ProcType
  <2> QED BY <1>3, <2>1, KillBegins DEF KillStale, Sweep, Jobs, Disconnects
<1>4. ASSUME NEW p \in Procs, NEW s \in Sessions, NEW j \in Disconnects, Disconnect(p, s, j)
      PROVE  KillInv'
  <2>1. Settled(s) /\ owner[s] = p /\ tried'[s] = j
    BY <1>4 DEF Disconnect, Mine, ConnectInv, TypeInv, SessionType
  <2> QED BY <1>4, <2>1, KillBegins DEF Disconnect, Jobs
<1>5. ASSUME NEW p \in Procs, FindStale(p) \/ Exit(p) PROVE KillInv'
  <2>1. \A s \in todo'[p] : s \in Sessions /\ Settled(s)
    BY <1>5 DEF FindStale, Exit, ConnectInv, TypeInv, ProcType, SessionType
  <2>2. phase'[p] # "kill"
    BY <1>5 DEF FindStale, Exit, Goto, TypeInv, ProcType
  <2>3. ASSUME NEW q \in Procs, q # p PROVE KillKnows(q)'
    BY <1>5, <2>3, KillFrame DEF FindStale, Exit, Goto, KillInv, TypeInv, ProcType
  <2> QED BY <2>1, <2>2, <2>3 DEF KillInv, KillKnows, Stable
<1>6. ASSUME NEW p \in Procs, NEW s \in Sessions,
             SkipStale(p, s) \/ Connect(p, s)
      PROVE  KillInv'
  <2>1. ASSUME NEW q \in Procs PROVE KillKnows(q)'
    BY <1>6, KillFrame DEF SkipStale, Connect, Goto, KillInv, TypeInv, ProcType
  <2> QED BY <2>1 DEF KillInv
<1>7. ASSUME NEW p \in Procs, Serve(p) \/ End(p) \/ Launch(p) \/ Launched(p) \/ LaunchFails(p)
      PROVE  KillInv'
  <2>1. ASSUME NEW q \in Procs PROVE KillKnows(q)'
    BY <1>7, KillFrame DEF Serve, End, Launch, Launched, LaunchFails, Goto, KillInv, TypeInv,
                           ProcType
  <2> QED BY <2>1 DEF KillInv
<1> QED
  BY <1>1, <1>2, <1>3, <1>4, <1>5, <1>6, <1>7 DEF Next, Startup, Shutdown, Clients, Disconnects

-----------------------------------------------------------------------------
\* The evidence and the account of it.
EvidenceInv == EvidenceKept /\ AccountInv

\* A step that connects no session and takes no evidence from a connected one.
LEMMA EvidenceFrame ==
    ASSUME TypeInv, ConnectInv, Stable, EvidenceInv, connected' = connected,
           signalled \subseteq signalled',
           \A s \in connected :
               /\ phase'[owner[s]] # "crashed" =>
                      phase[owner[s]] # "crashed" /\ (s \in active => s \in active')
               /\ s \in marker <=> s \in marker'
               /\ s \in fifo <=> s \in fifo'
    PROVE  EvidenceInv'
<1>1. ASSUME NEW s \in connected
      PROVE  /\ s \in tmux' => s \in tmux
             /\ owner'[s] = owner[s]
             /\ CloseCutShort(s) => CloseCutShort(s)'
  <2>1. s \in Sessions /\ Settled(s)
    BY DEF ConnectInv, TypeInv, SessionType
  <2>2. "close" # None
    BY OwnershipAssumption DEF Jobs, Disconnects
  <2> QED BY <2>1, <2>2 DEF Stable, CloseCutShort
<1>2. EvidenceKept'
  BY <1>1 DEF EvidenceInv, EvidenceKept
<1>3. AccountInv'
  BY <1>1 DEF EvidenceInv, AccountInv
<1> QED BY <1>2, <1>3 DEF EvidenceInv

\* The end of a Kill takes the evidence of a session that is dead, or that it
\* was told to close when the signal came.
LEMMA CleanUpEvidence ==
    ASSUME TypeInv, ConnectInv, KillInv, Stable, EvidenceInv, ~ProbesFail,
           NEW p \in Procs, CleanUp(p)
    PROVE  EvidenceInv'
<1> DEFINE gone == target[p]
<1>1. Killed(p) /\ phase[p] = "kill"
  BY DEF CleanUp, Killed
<1>2. UNCHANGED <<owner, tmux, connected, signalled, tried>>
  BY <1>1 DEF Killed
<1>3. /\ marker' = marker \ {gone} /\ fifo' = fifo \ {gone}
      /\ job[p] = "stale" => active' = active
      /\ active \ {gone} \subseteq active'
      /\ job[p] # "stale" => active' = active \ {gone}
  BY DEF CleanUp
<1>4. \A s : CloseCutShort(s)' <=> CloseCutShort(s)
  BY <1>2 DEF CloseCutShort
<1>5. gone \notin tmux \/ CloseCutShort(gone)
  <2>1. CASE step[p] = "dead"
    BY <1>1, <2>1 DEF KillInv, KillKnows
  <2>2. CASE step[p] = "error"
    <3>1. gone \notin tmux \/ (job[p] = "close" /\ p \in signalled)
      BY <2>2 DEF CleanUp, Doubted, Unanswered
    <3> QED BY <1>1, <3>1 DEF KillInv, KillKnows, Disconnects, CloseCutShort
  <2> QED BY <1>1, <2>1, <2>2 DEF Killed
<1>6. EvidenceKept'
  BY <1>2, <1>3, <1>4, <1>5 DEF EvidenceInv, EvidenceKept
<1>7. \A q \in Procs : phase'[q] # "crashed" => phase[q] # "crashed"
  BY <1>1 DEF Killed, Goto, TypeInv, ProcType
<1>8. ASSUME NEW s \in connected, phase'[owner[s]] # "crashed"
      PROVE  \/ s \in active'
             \/ s \notin marker' \cup fifo' /\ (s \notin tmux \/ CloseCutShort(s))
  <2>1. phase[owner[s]] # "crashed"
    BY <1>7, <1>8 DEF ConnectInv, Settled, TypeInv, SessionType
  <2>2. CASE s = gone /\ s \notin active'
    BY <1>3, <1>5, <2>2
  <2>3. CASE s # gone
    BY <1>3, <1>8, <2>1, <2>3 DEF EvidenceInv, AccountInv
  <2> QED BY <2>2, <2>3
<1>9. AccountInv'
  BY <1>2, <1>4, <1>8 DEF AccountInv
<1> QED BY <1>6, <1>9 DEF EvidenceInv

\* Connect succeeds with its evidence in place.
LEMMA LaunchedEvidence ==
    ASSUME TypeInv, ConnectInv, EvidenceInv, NEW p \in Procs, Launched(p)
    PROVE  EvidenceInv'
<1>1. /\ connected' = connected \cup {target[p]} /\ active' = active \cup {target[p]}
      /\ UNCHANGED <<owner, tmux, marker, fifo, signalled, tried>>
  BY DEF Launched, files
<1>2. target[p] \in marker \cap fifo
  BY DEF Launched, ConnectInv
<1>3. \A q \in Procs : phase'[q] # "crashed" => phase[q] # "crashed"
  BY DEF Launched, Goto, TypeInv, ProcType
<1>4. \A s \in connected : owner[s] \in Procs
  BY DEF ConnectInv, Settled, TypeInv, SessionType
<1> QED
  BY <1>1, <1>2, <1>3, <1>4 DEF EvidenceInv, EvidenceKept, AccountInv, CloseCutShort

\* Every step keeps the evidence, when every probe of a live session answers.
LEMMA EvidenceStep ==
    ASSUME TypeInv, ConnectInv, KillInv, Stable, EvidenceInv, ~ProbesFail, Next
    PROVE  EvidenceInv'
<1>1. \A s \in connected : owner[s] \in Procs
  BY DEF ConnectInv, Settled, TypeInv, SessionType
<1>2. CASE Outside
  <2>1. ASSUME NEW s \in Sessions, Age(s) \/ Dies(s) PROVE EvidenceInv'
    BY <2>1, EvidenceFrame DEF Age, Dies, procVars, files
  <2>2. ASSUME NEW p \in Procs, Signal(p) PROVE EvidenceInv'
    BY <2>2, EvidenceFrame DEF Signal, files
  <2>3. ASSUME NEW p \in Procs, Crash(p) PROVE EvidenceInv'
    BY <1>1, <2>3, EvidenceFrame DEF Crash, Goto, Mine, files, TypeInv, ProcType
  <2> QED BY <1>2, <2>1, <2>2, <2>3 DEF Outside
<1>3. ASSUME NEW p \in Procs, KillProgress(p) PROVE EvidenceInv'
  <2>1. CASE Command(p) \/ CommandFails(p) \/ PollDead(p) \/ PollEnds(p) \/ KillSession(p)
             \/ KillSessionFails(p)
    BY <2>1, EvidenceFrame DEF Command, CommandFails, PollDead, PollEnds, KillSession,
                               KillSessionFails, KillStep, files
  <2>2. CASE Keep(p)
    BY <1>1, <2>2, EvidenceFrame DEF Keep, Killed, Goto, TypeInv, ProcType
  <2> QED BY <1>3, <2>1, <2>2, CleanUpEvidence DEF KillProgress
<1>4. ASSUME NEW p \in Procs, Startup(p) PROVE EvidenceInv'
  BY <1>1, <1>4, EvidenceFrame DEF Startup, FindStale, Serve, KillStale, SkipStale, Kill, Goto,
                                   files, TypeInv, ProcType
<1>5. ASSUME NEW p \in Procs, NEW s \in Sessions, NEW j \in Disconnects, Disconnect(p, s, j)
      PROVE  EvidenceInv'
  BY <1>1, <1>5, EvidenceFrame DEF Disconnect, Kill, Goto, files, TypeInv, ProcType
<1>6. ASSUME NEW p \in Procs, Shutdown(p) PROVE EvidenceInv'
  BY <1>1, <1>5, <1>6, EvidenceFrame DEF Shutdown, Exit, Sweep, End, Kill, Goto, files,
                                         Disconnects, TypeInv, ProcType
<1>7. ASSUME NEW p \in Procs, NEW s \in Sessions, Connect(p, s) PROVE EvidenceInv'
  <2>1. s \notin connected
    BY <1>7 DEF Connect, ConnectInv, Settled
  <2> QED BY <1>1, <1>7, <2>1, EvidenceFrame DEF Connect, Goto, TypeInv, ProcType
<1>8. ASSUME NEW p \in Procs, Launch(p) \/ LaunchFails(p) PROVE EvidenceInv'
  <2>1. target[p] \notin connected
    BY <1>8 DEF Launch, LaunchFails, ConnectInv
  <2> QED BY <1>1, <1>8, <2>1, EvidenceFrame DEF Launch, LaunchFails, Goto, files, TypeInv, ProcType
<1> QED
  BY <1>2, <1>3, <1>4, <1>5, <1>6, <1>7, <1>8, LaunchedEvidence
     DEF Next, Clients, Disconnects

-----------------------------------------------------------------------------
\* The invariant of the processes and the files, without the evidence.
BaseInv == TypeInv /\ ConnectInv /\ KillInv

\* At first nothing is connected or killed.
LEMMA InitBase == Init => BaseInv /\ EvidenceInv
<1> SUFFICES ASSUME Init PROVE BaseInv /\ EvidenceInv
  OBVIOUS
<1>1. ConnectInv
  BY DEF Init, ConnectInv
<1>2. KillInv
  BY DEF Init, KillInv, KillKnows
<1>3. EvidenceInv
  BY DEF Init, EvidenceInv, EvidenceKept, AccountInv
<1> QED BY <1>1, <1>2, <1>3, InitType DEF BaseInv

\* Every step keeps it.
LEMMA BaseStep == BaseInv /\ [Next]_vars => BaseInv'
<1>1. BaseInv /\ Next => BaseInv'
  BY TypeStep, StableStep, ConnectStep, KillInvStep DEF BaseInv
<1>2. BaseInv /\ UNCHANGED vars => BaseInv'
  <2> SUFFICES ASSUME BaseInv, UNCHANGED vars PROVE BaseInv'
    OBVIOUS
  <2> USE DEF vars, procVars, files
  <2>1. ConnectInv'
    BY DEF BaseInv, ConnectInv, Settled, Connecting
  <2>2. KillInv'
    BY DEF BaseInv, KillInv, KillKnows, Settled, Connecting
  <2> QED BY <2>1, <2>2, TypeStep DEF BaseInv
<1> QED BY <1>1, <1>2

\* All of it holds of every behaviour in which each probe of a live session is
\* answered.
LEMMA EvidenceAlways == ASSUME ~ProbesFail PROVE Spec => [](BaseInv /\ EvidenceInv)
<1>1. BaseInv /\ EvidenceInv /\ [Next]_vars => (BaseInv /\ EvidenceInv)'
  <2>1. BaseInv /\ EvidenceInv /\ Next => EvidenceInv'
    BY StableStep, EvidenceStep DEF BaseInv
  <2>2. EvidenceInv /\ UNCHANGED vars => EvidenceInv'
    BY DEF vars, procVars, files, EvidenceInv, EvidenceKept, AccountInv, CloseCutShort
  <2> QED BY <2>1, <2>2, BaseStep
<1> QED BY <1>1, InitBase, PTL DEF Spec

\* Whichever process cleans up, crashes or is told to stop, and when: a session
\* that was connected and lives keeps the marker and the FIFO by which the next
\* process finds it, unless a signal cut its session/close short.
THEOREM EvidenceNeverLost == ASSUME ~ProbesFail PROVE Spec => []EvidenceKept
<1>1. BaseInv /\ EvidenceInv => EvidenceKept
  BY DEF EvidenceInv
<1> QED BY <1>1, EvidenceAlways, PTL

\* A process that exits in order has accounted for each session it connected.
THEOREM ExitLeavesAccount == ASSUME ~ProbesFail PROVE Spec => []ExitAccounts
<1>1. BaseInv /\ EvidenceInv => ExitAccounts
  BY DEF EvidenceInv, AccountInv, ExitAccounts, Mine
<1> QED BY <1>1, EvidenceAlways, PTL
=============================================================================
