------------------------- MODULE NarratorLifecycle -------------------------
(***************************************************************************)
(* How a narrator process comes and goes: the start and stop scripts, the  *)
(* start lock, the pid file and the socket file (narrator_service.py main, *)
(* run; unix_ipc_server.py; narrator_service_start.sh, _stop.sh).  Every   *)
(* process here may be one of several at once, and what they share is      *)
(* files: a check and the write it allows are two steps.                   *)
(*                                                                         *)
(* A file is named by the process that wrote it: the pid file and the      *)
(* socket file by a narrator, the scripts' lock directory by a start.      *)
(***************************************************************************)
EXTENDS Naturals, FiniteSets

CONSTANTS Narrators, Starts, Stops, Restarts,
          FaultKinds,  \* "kill", "unlocked", "expiry", "orphan": those considered
          MaxFaults,
          None

ASSUME LifecycleAssumption ==
    /\ MaxFaults \in Nat /\ FaultKinds \subseteq {"kill", "unlocked", "expiry", "orphan"}
    /\ None \notin Narrators \cup Starts

VARIABLES pc,         \* where each narrator is
          flocked,    \* the narrator that holds the start lock
          pidFile,    \* who the pid file names
          socketFile, \* who bound the socket file
          bound,      \* the file each narrator may remove (_socket_bound_file)
          term,       \* narrators that were asked to stop
          script,     \* where each start and stop script is
          lockDir,    \* who made the scripts' lock directory
          stamped,    \* its pid is in there
          saw,        \* the pid each stop script has read
          faults,
          \* history
          asked,      \* narrators that were told the socket is free
          unlocked    \* narrators that started without the lock

narrators == <<pc, flocked, pidFile, socketFile, bound, term, asked, unlocked>>
scripts == <<script, lockDir, stamped, saw>>
vars == <<narrators, scripts, faults>>

\* Between them, a narrator's process is there.  "closed" no longer answers,
\* "draining" lets the line in flight end, "leaving" has let go of everything.
Ahead == {"born", "checking", "starting", "running", "asked", "unlinked", "again", "cleared", "bound"}
Living == Ahead \cup {"serving", "closing", "closed", "draining", "released", "leaving"}

Scripts == Starts \cup Stops \cup Restarts

ScriptPlaces == {"idle", "trying", "reclaim", "stamp", "check", "wait", "release", "over",
                 "told", "sweep", "drained"}

TypeOK ==
    /\ pc \in [Narrators -> Living \cup {"none", "gone"}]
    /\ flocked \in Narrators \cup {None} /\ pidFile \in Narrators \cup {None}
    /\ socketFile \in Narrators \cup {None} /\ bound \in [Narrators -> Narrators \cup {None}]
    /\ term \subseteq Narrators /\ asked \subseteq Narrators /\ unlocked \subseteq Narrators
    /\ script \in [Scripts -> ScriptPlaces]
    /\ lockDir \in Starts \cup {None} /\ stamped \in BOOLEAN
    /\ saw \in [Scripts -> Narrators \cup {None}]
    /\ faults \in 0..MaxFaults

\* No narrator yet, or one that serves.
Init ==
    /\ \E first \in Narrators \cup {None} :
         /\ pc = [n \in Narrators |-> IF n = first THEN "serving" ELSE "none"]
         /\ flocked = first /\ pidFile = first /\ socketFile = first
         /\ bound = [n \in Narrators |-> IF n = first THEN n ELSE None]
         /\ asked = {}
    /\ term = {} /\ unlocked = {}
    /\ script = [s \in Scripts |-> "idle"]
    /\ lockDir = None /\ stamped = FALSE /\ saw = [s \in Scripts |-> None]
    /\ faults = 0

Moves(n, from, to) == pc[n] = from /\ pc' = [pc EXCEPT ![n] = to]

Fault(kind) == kind \in FaultKinds /\ faults < MaxFaults /\ faults' = faults + 1

Alive(n) == n # None /\ pc[n] \in Living

\* socket_answers: the file is there and its narrator listens.
Answers(f) == f # None /\ pc[f] = "serving"

\* A process that ends lets go of its flock, and of nothing else.
Unlock(n) == flocked' = IF flocked = n THEN None ELSE flocked

----------------------------------------------------------------------------
\* main: the lock, then the pid file.

\* (Mistake to rule out: the lock is not asked for.)
Ignored(n) == TRUE

LockFree(n) == flocked = None

TakeStartLock(n) ==
    /\ \/ LockFree(n) /\ Moves(n, "born", "checking") /\ flocked' = n
       \/ ~LockFree(n) /\ Moves(n, "born", "gone") /\ UNCHANGED flocked
    /\ UNCHANGED <<pidFile, socketFile, bound, term, asked, unlocked, scripts, faults>>

\* The lock file cannot be opened or locked: it starts without it.
StartWithoutLock(n) ==
    /\ Fault("unlocked")
    /\ Moves(n, "born", "checking")
    /\ unlocked' = unlocked \cup {n}
    /\ UNCHANGED <<flocked, pidFile, socketFile, bound, term, asked, scripts>>

\* _existing_pid: a pid file that names a live narrator.
CheckPid(n) ==
    /\ IF Alive(pidFile) THEN Moves(n, "checking", "gone") /\ Unlock(n)
                         ELSE Moves(n, "checking", "starting") /\ UNCHANGED flocked
    /\ UNCHANGED <<pidFile, socketFile, bound, term, asked, unlocked, scripts, faults>>

WritePid(n) ==
    /\ Moves(n, "starting", "running")
    /\ pidFile' = n
    /\ UNCHANGED <<flocked, socketFile, bound, term, asked, unlocked, scripts, faults>>

----------------------------------------------------------------------------
\* The socket: asked, removed and bound, twice over.

\* _start_socket_server asks, then server_bind does.
AskSocket(n) ==
    /\ \E p \in {<<"running", "asked">>, <<"unlinked", "again">>} :
         Moves(n, p[1], IF Answers(socketFile) THEN "closing" ELSE p[2])
    /\ asked' = IF Answers(socketFile) THEN asked ELSE asked \cup {n}
    /\ UNCHANGED <<flocked, pidFile, socketFile, bound, term, unlocked, scripts, faults>>

\* What did not answer is removed.
UnlinkStale(n) ==
    /\ Moves(n, "asked", "unlinked") \/ Moves(n, "again", "cleared")
    /\ socketFile' = None
    /\ UNCHANGED <<flocked, pidFile, bound, term, asked, unlocked, scripts, faults>>

\* bind refuses a path that is there.
Bind(n) ==
    /\ IF socketFile = None
       THEN Moves(n, "cleared", "bound") /\ socketFile' = n
       ELSE Moves(n, "cleared", "closing") /\ UNCHANGED socketFile
    /\ UNCHANGED <<flocked, pidFile, bound, term, asked, unlocked, scripts, faults>>

\* The file it bound is noted, and it listens.
Listen(n) ==
    /\ IF socketFile # None
       THEN Moves(n, "bound", "serving") /\ bound' = [bound EXCEPT ![n] = socketFile]
       ELSE Moves(n, "bound", "closing") /\ UNCHANGED bound
    /\ asked' = asked \ {n}
    /\ UNCHANGED <<flocked, pidFile, socketFile, term, unlocked, scripts, faults>>

----------------------------------------------------------------------------
\* The end of run, whatever brought it there.

\* A signal ends _tail_events.
Stopping(n) ==
    /\ n \in term
    /\ Moves(n, "serving", "closing")
    /\ UNCHANGED <<flocked, pidFile, socketFile, bound, term, asked, unlocked, scripts, faults>>

CloseSocket(n) ==
    /\ Moves(n, "closing", "closed")
    /\ asked' = asked \ {n}
    /\ UNCHANGED <<flocked, pidFile, socketFile, bound, term, unlocked, scripts, faults>>

\* (Mistake to rule out: whatever file is at the path.)
AnyFile(n) == TRUE

\* unlink_if_bound
MayRemove(n) == bound[n] # None /\ socketFile = bound[n]

CleanupSocketFile(n) ==
    /\ Moves(n, "closed", "draining")
    /\ socketFile' = IF MayRemove(n) THEN None ELSE socketFile
    /\ bound' = [bound EXCEPT ![n] = None]
    /\ UNCHANGED <<flocked, pidFile, term, asked, unlocked, scripts, faults>>

\* (Mistake to rule out: whoever it names.)
NamesAnyone(n) == TRUE

NamesMe(n) == pidFile = n

\* The line in flight has ended, or is cut: _release_pid_file.
ReleasePidFile(n) ==
    /\ Moves(n, "draining", "released")
    /\ pidFile' = IF NamesMe(n) THEN None ELSE pidFile
    /\ UNCHANGED <<flocked, socketFile, bound, term, asked, unlocked, scripts, faults>>

\* The next start is let in before the threads that are stuck are waited for.
CloseLock(n) ==
    /\ Moves(n, "released", "leaving")
    /\ Unlock(n)
    /\ UNCHANGED <<pidFile, socketFile, bound, term, asked, unlocked, scripts, faults>>

Leave(n) ==
    /\ Moves(n, "leaving", "gone")
    /\ UNCHANGED <<flocked, pidFile, socketFile, bound, term, asked, unlocked, scripts, faults>>

\* Its process ends where it is; its files stay.
Killed(n) == pc' = [pc EXCEPT ![n] = "gone"] /\ asked' = asked \ {n} /\ Unlock(n)

Kill(n) ==
    /\ Fault("kill") /\ pc[n] \in Living
    /\ Killed(n)
    /\ UNCHANGED <<pidFile, socketFile, bound, term, unlocked, scripts>>

----------------------------------------------------------------------------
\* narrator_service_start.sh.

Goes(s, from, to) == script[s] = from /\ script' = [script EXCEPT ![s] = to]

RunStart(s) ==
    /\ Goes(s, "idle", "trying")
    /\ UNCHANGED <<narrators, lockDir, stamped, saw, faults>>

MakeLock(s) ==
    /\ lockDir = None
    /\ Goes(s, "trying", "stamp")
    /\ lockDir' = s /\ stamped' = FALSE
    /\ UNCHANGED <<narrators, saw, faults>>

StampLock(s) ==
    /\ Goes(s, "stamp", "check")
    /\ stamped' = (stamped \/ lockDir = s)
    /\ UNCHANGED <<narrators, lockDir, saw, faults>>

OwnerGone == stamped /\ lockDir # None /\ script[lockDir] = "over"

\* The owner read from a lock that is there is dead.
SeesDeadOwner(s) ==
    /\ OwnerGone
    /\ Goes(s, "trying", "reclaim")
    /\ UNCHANGED <<narrators, lockDir, stamped, saw, faults>>

\* mv: whatever lock is there by now.
ReclaimLock(s) ==
    /\ Goes(s, "reclaim", "trying")
    /\ lockDir' = None /\ stamped' = FALSE
    /\ UNCHANGED <<narrators, saw, faults>>

\* Fifty tries: it goes on without the lock.
GiveUpLock(s) ==
    /\ Fault("expiry") /\ lockDir # None
    /\ Goes(s, "trying", "check")
    /\ UNCHANGED <<narrators, lockDir, stamped, saw>>

\* The exit trap: the lock that is there, if this start has made one.
ReleaseLock(s) ==
    /\ Goes(s, "release", "over")
    /\ \/ lockDir' = None /\ stamped' = FALSE
       \/ lockDir # s /\ UNCHANGED <<lockDir, stamped>>  \* it went on without
    /\ UNCHANGED <<narrators, saw, faults>>

\* A pid file that names a live narrator ends it; else a narrator is spawned.
CheckAndSpawn(s) ==
    /\ IF Alive(pidFile)
       THEN Goes(s, "check", "release") /\ UNCHANGED pc
       ELSE \E n \in Narrators : Moves(n, "none", "born") /\ Goes(s, "check", "wait")
    /\ UNCHANGED <<flocked, pidFile, socketFile, bound, term, asked, unlocked, lockDir, stamped, saw, faults>>

\* It waits for a pid file, whoever that names, two seconds at most.
SeesPidFile(s) ==
    /\ pidFile # None
    /\ Goes(s, "wait", "release")
    /\ UNCHANGED <<narrators, lockDir, stamped, saw, faults>>

WaitExpires(s) ==
    /\ Fault("expiry") /\ pidFile = None
    /\ Goes(s, "wait", "release")
    /\ UNCHANGED <<narrators, lockDir, stamped, saw>>

\* It is killed where it is, and its lock stays.
OrphanLock(s) ==
    /\ Fault("orphan") /\ script[s] \in {"stamp", "check", "wait", "release"}
    /\ script' = [script EXCEPT ![s] = "over"]
    /\ UNCHANGED <<narrators, lockDir, stamped, saw>>

----------------------------------------------------------------------------
\* narrator_service_stop.sh.

\* No narrator, or none that lives: the pid file is removed.
\* Else it is asked to stop.  A narrator that has not yet its handlers dies.
StopSignals(t) ==
    /\ saw' = [saw EXCEPT ![t] = pidFile]
    /\ Goes(t, "idle", IF pidFile = None THEN "over" ELSE IF Alive(pidFile) THEN "told" ELSE "sweep")
    /\ IF Alive(pidFile)
       THEN IF pc[pidFile] \in {"checking", "starting"}
            THEN Killed(pidFile) /\ UNCHANGED term
            ELSE term' = term \cup {pidFile} /\ UNCHANGED <<pc, asked, flocked>>
       ELSE UNCHANGED <<pc, asked, flocked, term>>
    /\ UNCHANGED <<pidFile, socketFile, bound, unlocked, lockDir, stamped, faults>>

\* It is gone, or, after three seconds, it is killed.
StopWaits(t) ==
    /\ Goes(t, "told", "sweep")
    /\ IF Alive(saw[t]) THEN Killed(saw[t]) ELSE UNCHANGED <<pc, asked, flocked>>
    /\ UNCHANGED <<pidFile, socketFile, bound, term, unlocked, lockDir, stamped, saw, faults>>

\* rm -f: whatever the pid file names by now.
StopSweeps(t) ==
    /\ Goes(t, "sweep", "over")
    /\ pidFile' = None
    /\ UNCHANGED <<pc, flocked, socketFile, bound, term, asked, unlocked, lockDir, stamped, saw, faults>>

----------------------------------------------------------------------------
\* narrator_restart.py: launchd starts it, by neither script.

\* busy_reasons: the status reply says it is drained, or nobody replies.
\* While it is busy the restart waits, and refuses in the end.
RestartPolls(r) ==
    /\ Goes(r, "idle", "drained") \/ ((\E n \in Narrators : pc[n] = "serving") /\ Goes(r, "idle", "over"))
    /\ UNCHANGED <<narrators, lockDir, stamped, saw, faults>>

\* kickstart -k: the job's process is killed, whatever it does by now, and
\* another is started.
Kickstart(r) ==
    /\ Goes(r, "drained", "over")
    /\ \E n \in Narrators : pc[n] = "none" /\
         IF \E m \in Narrators : pc[m] \in Living
         THEN \E m \in Narrators :
                /\ pc[m] \in Living
                /\ pc' = [pc EXCEPT ![m] = "gone", ![n] = "born"]
                /\ asked' = asked \ {m} /\ Unlock(m)
         ELSE pc' = [pc EXCEPT ![n] = "born"] /\ UNCHANGED <<asked, flocked>>
    /\ UNCHANGED <<pidFile, socketFile, bound, term, unlocked, lockDir, stamped, saw, faults>>

----------------------------------------------------------------------------
NarratorStep(n) ==
    \/ TakeStartLock(n) \/ StartWithoutLock(n) \/ CheckPid(n) \/ WritePid(n)
    \/ AskSocket(n) \/ UnlinkStale(n) \/ Bind(n) \/ Listen(n)
    \/ Stopping(n) \/ CloseSocket(n) \/ CleanupSocketFile(n) \/ ReleasePidFile(n) \/ CloseLock(n)
    \/ Leave(n) \/ Kill(n)

StartStep(s) ==
    \/ RunStart(s) \/ MakeLock(s) \/ StampLock(s) \/ SeesDeadOwner(s) \/ ReclaimLock(s) \/ GiveUpLock(s)
    \/ CheckAndSpawn(s) \/ SeesPidFile(s) \/ WaitExpires(s) \/ ReleaseLock(s) \/ OrphanLock(s)

RestartStep(r) == RestartPolls(r) \/ Kickstart(r)

StopStep(t) == StopSignals(t) \/ StopWaits(t) \/ StopSweeps(t)

Next ==
    \/ \E n \in Narrators : NarratorStep(n)
    \/ \E s \in Starts : StartStep(s)
    \/ \E t \in Stops : StopStep(t)
    \/ \E r \in Restarts : RestartStep(r)

Spec == Init /\ [][Next]_vars

----------------------------------------------------------------------------
\* However the scripts' lock is broken, and however often a start is killed or
\* gives up waiting, of the narrators that took the start lock one at a time
\* writes its pid, binds the socket and serves.
OneNarrator ==
    Cardinality({n \in Narrators \ unlocked : pc[n] \in Living \ {"born", "leaving"}}) <= 1

\* "A narrator that never bound, or whose path another server has taken since,
\* leaves the file alone": the socket file of a narrator that serves goes only
\* when that narrator ends, or one that was told the path was free before it
\* listened takes it.  (Two that bind at once, one of them without the lock,
\* may note each other's file as their own.)
SocketSurvives ==
    [][\A n \in Narrators :
        (socketFile = n /\ pc[n] = "serving" /\ socketFile' # n) =>
            \E m \in Narrators \ {n} : m \in asked \/ bound[m] = n]_vars

\* "A second daemon that stops must not take the live one's pid file with it":
\* no narrator's step removes the pid file while it names another that lives.
PidFileSurvives ==
    [][\A n \in Narrators :
        (pidFile = n /\ pc[n] \in Living /\ pidFile' = None) =>
            \/ pc[n] = "draining"
            \/ \E t \in Stops : script[t] = "sweep"]_vars
=============================================================================
