------------------------------ MODULE Ownership ------------------------------
(***************************************************************************)
(* The tmux sessions of the adapter processes and the evidence that they   *)
(* are owned: the marker file and the FIFO made by Client.Connect, and the *)
(* registry of active sessions in memory.  (The .turn file is no evidence: *)
(* no marker names it.)                                                    *)
(*                                                                         *)
(* A process cleans up stale sessions when it starts, connects and         *)
(* disconnects clients on its Serve goroutine, one call at a time, and     *)
(* cleans up what is left when it exits; a crash leaves everything.        *)
(* tmux and the Claude inside a session are outside: a session may die by  *)
(* itself and need not die when it is asked to.                            *)
(***************************************************************************)
EXTENDS Naturals, FiniteSets

CONSTANTS
    Procs,        \* adapter processes, each started once
    Sessions,     \* tmux sessions, one for each client connected
    ProbesFail,   \* a tmux command may fail, or outlive its context, on a live session
    None          \* no process, session, job or step

VARIABLES
    phase,      \* where the process's one working goroutine is
    job,        \* what Kill is called for
    step,       \* where Kill is, or what it returned
    target,     \* the session Connect or Kill works on
    todo,       \* the sessions a cleanup loop has still to visit
    signalled,  \* processes whose signal context is done
    owner,      \* the process that made each session
    tmux,       \* live tmux sessions, with the marker's ids in their environment
    marker,     \* sessions with a marker file
    old,        \* markers older than OlderThan
    fifo,       \* sessions with a stop FIFO
    active,     \* activeSessions of the processes
    held,       \* sessions whose Client.tmux is set
    connected,  \* sessions whose Connect succeeded
    tried       \* what Disconnect was called for, if it was

procVars == <<phase, job, step, target, todo, signalled>>
files    == <<marker, old, fifo>>
vars == <<procVars, owner, tmux, files, active, held, connected, tried>>

\* A Disconnect for session/close has the context of the request, one for a
\* replaced model or the shutdown has a context that does not end.
Disconnects == {"close", "drop"}
Jobs == {"stale", "sweep"} \cup Disconnects
Phases == {"off", "stale", "serving", "launch", "launched", "kill", "sweep",
           "ended", "crashed"}
Steps == {"interrupt", "exit", "poll", "last", "dead", "error"}

ASSUME OwnershipAssumption ==
    /\ ProbesFail \in BOOLEAN
    /\ None \notin Procs \cup Sessions \cup Jobs \cup Steps

TypeOK ==
    /\ phase \in [Procs -> Phases]
    /\ job \in [Procs -> Jobs \cup {None}]
    /\ step \in [Procs -> Steps \cup {None}]
    /\ \A p \in Procs : phase[p] = "kill" => step[p] # None /\ target[p] # None
    /\ \A p \in Procs : phase[p] \in {"serving", "sweep", "ended"} => step[p] = None
    /\ target \in [Procs -> Sessions \cup {None}]
    /\ todo \in [Procs -> SUBSET Sessions]
    /\ signalled \subseteq Procs
    /\ owner \in [Sessions -> Procs \cup {None}]
    /\ \A S \in {tmux, marker, old, fifo, active, held, connected} : S \subseteq Sessions
    /\ tried \in [Sessions -> Disconnects \cup {None}]

Init ==
    /\ phase = [p \in Procs |-> "off"]
    /\ job = [p \in Procs |-> None] /\ step = [p \in Procs |-> None]
    /\ target = [p \in Procs |-> None]
    /\ todo = [p \in Procs |-> {}]
    /\ signalled = {}
    /\ owner = [s \in Sessions |-> None]
    /\ tmux = {} /\ marker = {} /\ old = {} /\ fifo = {}
    /\ active = {} /\ held = {} /\ connected = {}
    /\ tried = [s \in Sessions |-> None]

Mine(p) == {s \in Sessions : owner[s] = p}
Runs(p) == phase[p] \notin {"off", "ended", "crashed"}
Goto(p, ph) == phase' = [phase EXCEPT ![p] = ph]

-----------------------------------------------------------------------------
\* Outside: time passes, sessions die, processes get a signal or crash.
\* A Connect takes far less than OlderThan (30 minutes).
Connecting(s) == \E p \in Procs : phase[p] \in {"launch", "launched"} /\ target[p] = s

Age(s) ==
    /\ s \in marker \ old
    /\ ~Connecting(s)
    /\ old' = old \cup {s}
    /\ UNCHANGED <<procVars, owner, tmux, marker, fifo, active, held,
                   connected, tried>>

Dies(s) ==
    /\ s \in tmux
    /\ tmux' = tmux \ {s}
    /\ UNCHANGED <<procVars, owner, files, active, held, connected, tried>>

Signal(p) ==
    /\ Runs(p) /\ p \notin signalled
    /\ signalled' = signalled \cup {p}
    /\ UNCHANGED <<phase, job, step, target, todo, owner, tmux, files, active,
                   held, connected, tried>>

\* Only the memory of the process is lost: the registry, the clients.
Crash(p) ==
    /\ Runs(p)
    /\ Goto(p, "crashed")
    /\ active' = active \ Mine(p)
    /\ held' = held \ Mine(p)
    /\ UNCHANGED <<job, step, target, todo, signalled, owner, tmux, files,
                   connected, tried>>

-----------------------------------------------------------------------------
\* TmuxSession.IsAlive and the ownership query: no answer counts as dead.
Alive(s) == s \in tmux
Unanswered(s) == s \notin tmux \/ ProbesFail

\* Kill begins for a session, on behalf of a job.
Kill(p, s, j) ==
    /\ Goto(p, "kill")
    /\ job' = [job EXCEPT ![p] = j]
    /\ step' = [step EXCEPT ![p] = "interrupt"]
    /\ target' = [target EXCEPT ![p] = s]

KillStep(p, from, to) ==
    /\ phase[p] = "kill" /\ step[p] = from
    /\ step' = [step EXCEPT ![p] = to]
    /\ UNCHANGED <<phase, job, target, todo, signalled, owner, files, active,
                   held, connected, tried>>

\* C-c, then /exit.
Command(p) ==
    /\ Alive(target[p])
    /\ KillStep(p, "interrupt", "exit") \/ KillStep(p, "exit", "poll")
    /\ UNCHANGED tmux

\* One of them failed: dead if IsAlive says so.
CommandFails(p) ==
    /\ Unanswered(target[p])
    /\ \E from \in {"interrupt", "exit"} :
          \/ KillStep(p, from, "dead")
          \/ Alive(target[p]) /\ KillStep(p, from, "error")
    /\ UNCHANGED tmux

\* The five seconds in which Claude may exit end with one more look; or the
\* context of the cleanup ends first.
PollDead(p) ==
    /\ Unanswered(target[p])
    /\ KillStep(p, "poll", "dead") \/ KillStep(p, "last", "dead")
    /\ UNCHANGED tmux

\* Mutant: the session is asked for as long as it lives.
PollsOn(p) == FALSE

PollEnds(p) ==
    /\ KillStep(p, "poll", "last") \/ KillStep(p, "poll", "error")
    /\ UNCHANGED tmux

KillSession(p) ==
    /\ Alive(target[p])
    /\ KillStep(p, "last", "dead")
    /\ tmux' = tmux \ {target[p]}

KillSessionFails(p) ==
    /\ Alive(target[p]) /\ ProbesFail
    /\ KillStep(p, "last", "error")
    /\ UNCHANGED tmux

\* What follows Kill.  The evidence stays if Kill failed and the session is
\* alive, otherwise it goes.
Resumes(j) == IF j \in Disconnects THEN "serving" ELSE j

\* The question whether the session is alive after all: the context of a close
\* ends with the signal, and then the answer is no.
Doubted(p) == Unanswered(target[p]) \/ (job[p] = "close" /\ p \in signalled)

\* Mutant: the step of the Kill that is over stays behind.
KilledStays(p) ==
    /\ phase[p] = "kill" /\ step[p] \in {"dead", "error"}
    /\ Goto(p, Resumes(job[p]))
    /\ UNCHANGED <<job, step, target, todo, signalled, owner, tmux, old, connected,
                   tried>>

Killed(p) ==
    /\ phase[p] = "kill" /\ step[p] \in {"dead", "error"}
    /\ Goto(p, Resumes(job[p]))
    /\ step' = [step EXCEPT ![p] = None]
    /\ UNCHANGED <<job, target, todo, signalled, owner, tmux, old, connected, tried>>

\* Mutant: a session that could not be killed is unregistered all the same.
KeepUnregistered(p) ==
    /\ Killed(p)
    /\ step[p] = "error" /\ Alive(target[p])
    /\ active' = active \ {target[p]}
    /\ UNCHANGED <<marker, fifo, held>>

Keep(p) ==
    /\ Killed(p)
    /\ step[p] = "error" /\ Alive(target[p])
    /\ ~(job[p] = "close" /\ p \in signalled)
    /\ UNCHANGED <<marker, fifo, active, held>>

\* Mutant: the evidence goes whatever became of the session.
CleanUpAnyway(p) ==
    LET gone == {target[p]}
    IN  /\ Killed(p)
        /\ fifo' = fifo \ gone
        /\ marker' = marker \ gone
        /\ active' = IF job[p] = "stale" THEN active ELSE active \ gone
        /\ held' = IF job[p] \in Disconnects THEN held \ gone ELSE held

\* Stale cleanup knows only the files named in the marker; cleanupActiveSession
\* also unregisters; Disconnect also forgets the session.
CleanUp(p) ==
    LET gone == {target[p]}
    IN  /\ Killed(p)
        /\ step[p] = "error" => Doubted(p)
        /\ fifo' = fifo \ gone
        /\ marker' = marker \ gone
        /\ active' = IF job[p] = "stale" THEN active ELSE active \ gone
        /\ held' = IF job[p] \in Disconnects THEN held \ gone ELSE held

-----------------------------------------------------------------------------
\* CleanupStaleOwnedSessions, the first thing a process does.
FindStale(p) ==
    /\ phase[p] = "off"
    /\ Goto(p, "stale")
    /\ todo' = [todo EXCEPT ![p] = marker \cap old]
    /\ UNCHANGED <<job, step, target, signalled, owner, tmux, files, active, held,
                   connected, tried>>

KillStale(p, s) ==
    /\ phase[p] = "stale" /\ s \in todo[p]
    /\ Alive(s)
    /\ todo' = [todo EXCEPT ![p] = @ \ {s}]
    /\ Kill(p, s, "stale")
    /\ UNCHANGED <<signalled, owner, tmux, files, active, held, connected, tried>>

\* No live session answers with the marker's ids: the marker is passed over.
SkipStale(p, s) ==
    /\ phase[p] = "stale" /\ s \in todo[p]
    /\ Unanswered(s)
    /\ todo' = [todo EXCEPT ![p] = @ \ {s}]
    /\ UNCHANGED <<phase, job, step, target, signalled, owner, tmux, files,
                   active, held, connected, tried>>

Serve(p) ==
    /\ phase[p] = "stale" /\ todo[p] = {}
    /\ Goto(p, "serving")
    /\ UNCHANGED <<job, step, target, todo, signalled, owner, tmux, files, active,
                   held, connected, tried>>

-----------------------------------------------------------------------------
\* Client.Connect: FIFO and marker, then tmux new-session, which is not run
\* once the context is done and which the end of the context kills.
Connect(p, s) ==
    /\ phase[p] = "serving"
    /\ owner[s] = None
    /\ owner' = [owner EXCEPT ![s] = p]
    /\ fifo' = fifo \cup {s}
    /\ marker' = marker \cup {s}
    /\ target' = [target EXCEPT ![p] = s]
    /\ Goto(p, "launch")
    /\ UNCHANGED <<job, step, todo, signalled, tmux, old, active, held,
                   connected, tried>>

Launch(p) ==
    /\ phase[p] = "launch" /\ p \notin signalled
    /\ tmux' = tmux \cup {target[p]}
    /\ Goto(p, "launched")
    /\ UNCHANGED <<job, step, target, todo, signalled, owner, files, active, held,
                   connected, tried>>

Launched(p) ==
    /\ phase[p] = "launched"
    /\ Goto(p, "serving")
    /\ held' = held \cup {target[p]}
    /\ active' = active \cup {target[p]}
    /\ connected' = connected \cup {target[p]}
    /\ UNCHANGED <<job, step, target, todo, signalled, owner, tmux, files, tried>>

LaunchFails(p) ==
    /\ phase[p] = "launch" \/ (phase[p] = "launched" /\ p \in signalled)
    /\ Goto(p, "serving")
    /\ fifo' = fifo \ {target[p]}
    /\ marker' = marker \ {target[p]}
    /\ UNCHANGED <<job, step, target, todo, signalled, owner, tmux, old,
                   active, held, connected, tried>>

Disconnect(p, s, j) ==
    /\ phase[p] = "serving"
    /\ s \in held \cap Mine(p) /\ tried[s] = None
    /\ tried' = [tried EXCEPT ![s] = j]
    /\ Kill(p, s, j)
    /\ UNCHANGED <<todo, signalled, owner, tmux, files, active, held, connected>>

\* Serve returned, after a Shutdown that disconnected every client; the
\* deferred CleanupActiveSessions takes a snapshot of what is registered.
Exit(p) ==
    /\ phase[p] = "serving"
    /\ \A s \in held \cap Mine(p) : tried[s] # None
    /\ Goto(p, "sweep")
    /\ todo' = [todo EXCEPT ![p] = active \cap Mine(p)]
    /\ UNCHANGED <<job, step, target, signalled, owner, tmux, files, active, held,
                   connected, tried>>

Sweep(p, s) ==
    /\ phase[p] = "sweep" /\ s \in todo[p]
    /\ todo' = [todo EXCEPT ![p] = @ \ {s}]
    /\ Kill(p, s, "sweep")
    /\ UNCHANGED <<signalled, owner, tmux, files, active, held, connected, tried>>

End(p) ==
    /\ phase[p] = "sweep" /\ todo[p] = {}
    /\ Goto(p, "ended")
    /\ UNCHANGED <<job, step, target, todo, signalled, owner, tmux, files, active,
                   held, connected, tried>>

-----------------------------------------------------------------------------
Outside ==
    \/ \E s \in Sessions : Age(s) \/ Dies(s)
    \/ \E p \in Procs : Signal(p) \/ Crash(p)

KillProgress(p) ==
    \/ Command(p) \/ CommandFails(p) \/ PollDead(p) \/ PollEnds(p)
    \/ KillSession(p) \/ KillSessionFails(p)
    \/ Keep(p) \/ CleanUp(p)

\* What the process does once it is started and, when asked to stop, by itself.
Startup(p) == FindStale(p) \/ Serve(p) \/ \E s \in Sessions : KillStale(p, s) \/ SkipStale(p, s)
Shutdown(p) == Exit(p) \/ End(p) \/ \E s \in Sessions : Disconnect(p, s, "drop") \/ Sweep(p, s)
Clients(p) ==
    \/ \E s \in Sessions : Connect(p, s) \/ Disconnect(p, s, "close")
    \/ Launch(p) \/ Launched(p) \/ LaunchFails(p)

Next ==
    \/ Outside
    \/ \E p \in Procs : KillProgress(p) \/ Startup(p) \/ Shutdown(p) \/ Clients(p)

Spec == Init /\ [][Next]_vars

\* A Kill goes on by itself; no probe has to fail for it.
Progress(p) ==
    \/ Command(p) \/ PollEnds(p) \/ KillSession(p) \/ Keep(p) \/ CleanUp(p)
    \/ ~Alive(target[p]) /\ (CommandFails(p) \/ PollDead(p))

\* A process that was told to stop goes on to its end unless it crashes.
Fairness ==
    \A p \in Procs :
        /\ WF_vars(Progress(p))
        /\ WF_vars(phase[p] # "off" /\ Startup(p))
        /\ WF_vars(Launched(p) \/ LaunchFails(p))
        /\ WF_vars(p \in signalled /\ Shutdown(p))

FairSpec == Spec /\ Fairness

-----------------------------------------------------------------------------
\* The one way to lose a live session when every probe answers: a signal ends
\* the context of its session/close (FailedKillKeepsEvidence below).
CloseCutShort(s) == tried[s] = "close" /\ owner[s] \in signalled

\* A session that was connected and still lives can be found: its marker and
\* its FIFO are there, whichever process tried to clean it up, however the
\* cleanups of the processes overlap, and whoever crashed.
EvidenceKept ==
    \A s \in tmux \cap connected : s \in marker \cap fifo \/ CloseCutShort(s)

\* When a process has exited in order, each of its sessions is gone with its
\* marker and FIFO, or is still registered, its failed cleanup reported.
ExitAccounts ==
    \A p \in Procs : phase[p] = "ended" =>
        \A s \in Mine(p) \cap connected :
            s \in active \/ s \notin tmux \cup marker \cup fifo \/ CloseCutShort(s)

\* A process that got a signal ends: no cleanup waits forever for a Claude
\* that does not exit.
SignalEnds == \A p \in Procs : (p \in signalled) ~> (phase[p] \in {"ended", "crashed"})

\* What cleanupActiveSession is for: when Kill failed and the session lives, the
\* cleanup takes away neither its marker nor its FIFO nor its registry entry.
FailedKillKeepsEvidence ==
    [][\A p \in Procs : LET s == target[p] IN
          phase[p] = "kill" /\ step[p] = "error" /\ s \in tmux /\ phase'[p] = Resumes(job[p]) =>
             \A kept \in {<<marker, marker'>>, <<fifo, fifo'>>, <<active, active'>>} :
                s \in kept[1] => s \in kept[2]]_vars
=============================================================================
