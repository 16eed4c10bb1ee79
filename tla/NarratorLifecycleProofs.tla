----------------------- MODULE NarratorLifecycleProofs -----------------------
(***************************************************************************)
(* Theorems about NarratorLifecycle, for any number of narrators, start,   *)
(* stop and restart scripts and faults of every kind: one narrator at a    *)
(* time holds the place, the socket file of the one that serves goes only  *)
(* with those who may take it, and no narrator removes another's pid file. *)
(*                                                                         *)
(* The argument is the start lock's: a narrator that is past the lock and  *)
(* before it closed it is the one the lock names (LockNamesIt).  For the   *)
(* socket file, a narrator between its question and its listening is one   *)
(* of those that were told the path is free (TheyWereTold).                *)
(***************************************************************************)
EXTENDS NarratorLifecycle, TLAPS, FiniteSetTheorems

\* main past the lock and before the lock is closed.
PastTheLock == Living \ {"born", "leaving"}

\* Between the question and the listening.
Binding == {"asked", "unlinked", "again", "cleared", "bound"}

LockNamesIt == \A n \in Narrators \ unlocked : pc[n] \in PastTheLock => flocked = n

TheyWereTold == \A n \in Narrators : pc[n] \in Binding => n \in asked

\* The inductive invariant.
IInv == TypeOK /\ LockNamesIt /\ TheyWereTold

----------------------------------------------------------------------------
\* What every script step that touches no narrator keeps.
LEMMA ScriptsAlone == IInv /\ UNCHANGED narrators => LockNamesIt' /\ TheyWereTold'
BY DEF IInv, LockNamesIt, TheyWereTold, narrators

\* A process that ends breaks neither part: its own lock alone is freed.
LEMMA EndKeeps ==
    ASSUME IInv, NEW n \in Narrators, Killed(n), UNCHANGED unlocked
    PROVE  LockNamesIt' /\ TheyWereTold'
BY DEF IInv, LockNamesIt, TheyWereTold, TypeOK, Killed, Unlock, PastTheLock, Binding, Living, Ahead

\* Its end is well typed, too.
LEMMA EndTyped ==
    ASSUME TypeOK, NEW n \in Narrators, Killed(n)
    PROVE  /\ pc' \in [Narrators -> Living \cup {"none", "gone"}]
           /\ flocked' \in Narrators \cup {None}
           /\ asked' \subseteq Narrators
BY DEF TypeOK, Killed, Unlock

\* A fault counts, up to the bound.
LEMMA FaultTyped ==
    ASSUME TypeOK, NEW kind, Fault(kind)
    PROVE  faults' \in 0..MaxFaults
BY LifecycleAssumption DEF TypeOK, Fault

\* The states TLC starts from satisfy the invariant.
LEMMA InitInv == Init => IInv
<1> SUFFICES ASSUME Init PROVE IInv
  OBVIOUS
<1> PICK first \in Narrators \cup {None} :
       /\ pc = [n \in Narrators |-> IF n = first THEN "serving" ELSE "none"]
       /\ flocked = first /\ pidFile = first /\ socketFile = first
       /\ bound = [n \in Narrators |-> IF n = first THEN n ELSE None]
       /\ asked = {}
  BY DEF Init
<1>1. TypeOK
  <2>1. /\ pc \in [Narrators -> Living \cup {"none", "gone"}]
        /\ bound \in [Narrators -> Narrators \cup {None}]
    BY DEF Living, Ahead
  <2>2. script \in [Scripts -> ScriptPlaces] /\ saw \in [Scripts -> Narrators \cup {None}]
    BY DEF Init, ScriptPlaces
  <2>3. faults \in 0..MaxFaults
    BY LifecycleAssumption DEF Init
  <2> QED BY <2>1, <2>2, <2>3 DEF Init, TypeOK
<1>2. LockNamesIt /\ TheyWereTold
  BY DEF LockNamesIt, TheyWereTold, PastTheLock, Binding, Living, Ahead
<1> QED BY <1>1, <1>2 DEF IInv

----------------------------------------------------------------------------
\* A narrator's own steps.
LEMMA NarratorTyped ==
    ASSUME TypeOK, NEW n \in Narrators, NarratorStep(n)
    PROVE  TypeOK'
<1> USE DEF TypeOK, Moves, Unlock, scripts, Living, Ahead
<1>1. CASE TakeStartLock(n)
  BY <1>1 DEF TakeStartLock
<1>2. CASE StartWithoutLock(n)
  BY <1>2, FaultTyped DEF StartWithoutLock
<1>3. CASE CheckPid(n)
  BY <1>3 DEF CheckPid
<1>4. CASE WritePid(n)
  BY <1>4 DEF WritePid
<1>5. CASE AskSocket(n)
  BY <1>5 DEF AskSocket
<1>6. CASE UnlinkStale(n)
  BY <1>6 DEF UnlinkStale
<1>7. CASE Bind(n)
  BY <1>7 DEF Bind
<1>8. CASE Listen(n)
  BY <1>8 DEF Listen
<1>9. CASE Stopping(n)
  BY <1>9 DEF Stopping
<1>10. CASE CloseSocket(n)
  BY <1>10 DEF CloseSocket
<1>11. CASE CleanupSocketFile(n)
  BY <1>11 DEF CleanupSocketFile
<1>12. CASE ReleasePidFile(n)
  BY <1>12 DEF ReleasePidFile
<1>13. CASE CloseLock(n)
  BY <1>13 DEF CloseLock
<1>14. CASE Leave(n)
  BY <1>14 DEF Leave
<1>15. CASE Kill(n)
  BY <1>15, FaultTyped, EndTyped DEF Kill
<1> QED BY <1>1, <1>2, <1>3, <1>4, <1>5, <1>6, <1>7, <1>8, <1>9, <1>10,
           <1>11, <1>12, <1>13, <1>14, <1>15 DEF NarratorStep

\* The lock names whoever is past it, whichever step a narrator takes.
LEMMA NarratorKeepsLock ==
    ASSUME IInv, NEW n \in Narrators, NarratorStep(n)
    PROVE  LockNamesIt'
<1> USE DEF IInv, TypeOK, LockNamesIt, PastTheLock, Moves, Unlock, Living, Ahead
<1>1. CASE TakeStartLock(n)
  BY <1>1, LifecycleAssumption DEF TakeStartLock, LockFree
<1>2. CASE StartWithoutLock(n)
  BY <1>2 DEF StartWithoutLock
<1>3. CASE CheckPid(n)
  BY <1>3 DEF CheckPid
<1>4. CASE WritePid(n)
  BY <1>4 DEF WritePid
<1>5. CASE AskSocket(n)
  BY <1>5 DEF AskSocket
<1>6. CASE UnlinkStale(n)
  BY <1>6 DEF UnlinkStale
<1>7. CASE Bind(n)
  BY <1>7 DEF Bind
<1>8. CASE Listen(n)
  BY <1>8 DEF Listen
<1>9. CASE Stopping(n)
  BY <1>9 DEF Stopping
<1>10. CASE CloseSocket(n)
  BY <1>10 DEF CloseSocket
<1>11. CASE CleanupSocketFile(n)
  BY <1>11 DEF CleanupSocketFile
<1>12. CASE ReleasePidFile(n)
  BY <1>12 DEF ReleasePidFile
<1>13. CASE CloseLock(n)
  BY <1>13 DEF CloseLock
<1>14. CASE Leave(n)
  BY <1>14 DEF Leave
<1>15. CASE Kill(n)
  BY <1>15, EndKeeps DEF Kill
<1> QED BY <1>1, <1>2, <1>3, <1>4, <1>5, <1>6, <1>7, <1>8, <1>9, <1>10,
           <1>11, <1>12, <1>13, <1>14, <1>15 DEF NarratorStep

\* Whoever binds was told the path is free, whichever step a narrator takes.
LEMMA NarratorKeepsTold ==
    ASSUME IInv, NEW n \in Narrators, NarratorStep(n)
    PROVE  TheyWereTold'
<1> USE DEF IInv, TypeOK, TheyWereTold, Binding, Moves
<1>1. CASE TakeStartLock(n) \/ StartWithoutLock(n) \/ CheckPid(n) \/ WritePid(n)
  BY <1>1 DEF TakeStartLock, StartWithoutLock, CheckPid, WritePid
<1>2. CASE AskSocket(n)
  BY <1>2 DEF AskSocket
<1>3. CASE UnlinkStale(n) \/ Bind(n)
  BY <1>3 DEF UnlinkStale, Bind
<1>4. CASE Listen(n)
  BY <1>4 DEF Listen
<1>5. CASE Stopping(n) \/ CloseSocket(n) \/ CleanupSocketFile(n)
  BY <1>5 DEF Stopping, CloseSocket, CleanupSocketFile
<1>6. CASE ReleasePidFile(n) \/ CloseLock(n) \/ Leave(n)
  BY <1>6 DEF ReleasePidFile, CloseLock, Leave
<1>7. CASE Kill(n)
  BY <1>7, EndKeeps DEF Kill
<1> QED BY <1>1, <1>2, <1>3, <1>4, <1>5, <1>6, <1>7 DEF NarratorStep

----------------------------------------------------------------------------
\* A start script's steps: at most a narrator is born.
LEMMA StartKeeps ==
    ASSUME IInv, NEW s \in Starts, StartStep(s)
    PROVE  IInv'
<1> USE DEF Goes, ScriptPlaces, Scripts
<1>1. CASE CheckAndSpawn(s)
  <2>1. TypeOK'
    BY <1>1 DEF IInv, TypeOK, CheckAndSpawn, Moves, Living, Ahead
  <2>2. LockNamesIt' /\ TheyWereTold'
    BY <1>1 DEF IInv, TypeOK, LockNamesIt, TheyWereTold, PastTheLock, Binding, CheckAndSpawn, Moves
  <2> QED BY <2>1, <2>2 DEF IInv
<1>2. ASSUME UNCHANGED narrators, TypeOK'
      PROVE  IInv'
  BY <1>2, ScriptsAlone DEF IInv
<1>3. CASE RunStart(s) \/ MakeLock(s) \/ StampLock(s) \/ SeesDeadOwner(s) \/ ReclaimLock(s)
  BY <1>2, <1>3 DEF IInv, TypeOK, narrators, RunStart, MakeLock, StampLock, SeesDeadOwner, ReclaimLock
<1>4. CASE GiveUpLock(s) \/ SeesPidFile(s) \/ WaitExpires(s) \/ ReleaseLock(s) \/ OrphanLock(s)
  <2>1. faults' \in 0..MaxFaults
    BY <1>4, FaultTyped DEF IInv, TypeOK, GiveUpLock, SeesPidFile, WaitExpires, ReleaseLock, OrphanLock
  <2> QED BY <1>2, <1>4, <2>1
          DEF IInv, TypeOK, narrators, GiveUpLock, SeesPidFile, WaitExpires, ReleaseLock, OrphanLock
<1> QED BY <1>1, <1>3, <1>4 DEF StartStep

\* A stop script's steps: at most a narrator ends.
LEMMA StopKeeps ==
    ASSUME IInv, NEW t \in Stops, StopStep(t)
    PROVE  IInv'
<1> USE DEF Goes, ScriptPlaces, Scripts
<1>1. CASE StopSignals(t)
  <2>1. CASE Killed(pidFile) /\ Alive(pidFile) /\ UNCHANGED term
    <3>1. pidFile \in Narrators /\ UNCHANGED unlocked
      BY <1>1, <2>1 DEF IInv, TypeOK, Alive, StopSignals
    <3> QED BY <1>1, <2>1, <3>1, EndKeeps, EndTyped DEF IInv, TypeOK, StopSignals
  <2>2. CASE UNCHANGED <<pc, asked, flocked>>
    <3>1. TypeOK'
      BY <1>1, <2>2 DEF IInv, TypeOK, StopSignals, Alive
    <3> QED BY <1>1, <2>2, <3>1 DEF IInv, LockNamesIt, TheyWereTold, StopSignals
  <2> QED BY <1>1, <2>1, <2>2 DEF StopSignals
<1>2. CASE StopWaits(t)
  <2>1. CASE Killed(saw[t]) /\ saw[t] \in Narrators
    BY <1>2, <2>1, EndKeeps, EndTyped DEF IInv, TypeOK, StopWaits
  <2>2. CASE UNCHANGED <<pc, asked, flocked>>
    BY <1>2, <2>2 DEF IInv, TypeOK, LockNamesIt, TheyWereTold, StopWaits
  <2> QED BY <1>2, <2>1, <2>2 DEF StopWaits, Alive, IInv, TypeOK
<1>3. CASE StopSweeps(t)
  BY <1>3 DEF IInv, TypeOK, LockNamesIt, TheyWereTold, StopSweeps
<1> QED BY <1>1, <1>2, <1>3 DEF StopStep

\* A restart's steps: the job's process ends, another is born.
LEMMA RestartKeeps ==
    ASSUME IInv, NEW r \in Restarts, RestartStep(r)
    PROVE  IInv'
<1> USE DEF Goes, ScriptPlaces, Scripts
<1>1. CASE RestartPolls(r)
  BY <1>1, ScriptsAlone DEF IInv, TypeOK, narrators, RestartPolls
<1>2. CASE Kickstart(r)
  <2>1. TypeOK'
    BY <1>2 DEF IInv, TypeOK, Kickstart, Unlock, Living, Ahead
  <2>2. LockNamesIt'
    BY <1>2 DEF IInv, TypeOK, LockNamesIt, Kickstart, Unlock, PastTheLock, Living, Ahead
  <2>3. TheyWereTold'
    BY <1>2 DEF IInv, TypeOK, TheyWereTold, Kickstart, Binding
  <2> QED BY <2>1, <2>2, <2>3 DEF IInv
<1> QED BY <1>1, <1>2 DEF RestartStep

\* Every step keeps the invariant.
LEMMA NextInv == IInv /\ [Next]_vars => IInv'
<1> SUFFICES ASSUME IInv, [Next]_vars PROVE IInv'
  OBVIOUS
<1>1. CASE \E n \in Narrators : NarratorStep(n)
  BY <1>1, NarratorTyped, NarratorKeepsLock, NarratorKeepsTold DEF IInv
<1>2. CASE \E s \in Starts : StartStep(s)
  BY <1>2, StartKeeps
<1>3. CASE \E t \in Stops : StopStep(t)
  BY <1>3, StopKeeps
<1>4. CASE \E r \in Restarts : RestartStep(r)
  BY <1>4, RestartKeeps
<1>5. CASE UNCHANGED vars
  BY <1>5 DEF vars, narrators, scripts, IInv, TypeOK, LockNamesIt, TheyWereTold
<1> QED BY <1>1, <1>2, <1>3, <1>4, <1>5 DEF Next

\* The invariant holds of every behaviour.
THEOREM Invariant == Spec => []IInv
<1>1. Init => IInv
  BY InitInv
<1>2. IInv /\ [Next]_vars => IInv'
  BY NextInv
<1> QED BY <1>1, <1>2, PTL DEF Spec

----------------------------------------------------------------------------
\* The variables keep their types (main, run and the scripts' files).
THEOREM TypeCorrect == Spec => []TypeOK
<1>1. IInv => TypeOK
  BY DEF IInv
<1> QED BY <1>1, Invariant, PTL

\* Two that are past the lock are one, for the lock names both.
LEMMA AtMostOne == IInv => OneNarrator
<1> SUFFICES ASSUME IInv PROVE OneNarrator
  OBVIOUS
<1> DEFINE S == {n \in Narrators \ unlocked : pc[n] \in Living \ {"born", "leaving"}}
<1>1. S \subseteq {flocked}
  BY DEF IInv, LockNamesIt, PastTheLock
<1>2. IsFiniteSet({flocked}) /\ Cardinality({flocked}) = 1
  BY FS_Singleton
<1>3. Cardinality(S) <= Cardinality({flocked})
  BY <1>1, <1>2, FS_Subset
<1> QED BY <1>2, <1>3 DEF OneNarrator

\* Of the narrators that took the start lock, however many are started, killed
\* and restarted at once, one at a time is past it (main's lock, run's files).
THEOREM OneNarratorHolds == Spec => []OneNarrator
BY Invariant, AtMostOne, PTL

----------------------------------------------------------------------------
\* The socket file of a narrator that serves goes by one that was told the
\* path is free, or by one that noted it as its own.
LEMMA SocketStep ==
    ASSUME IInv, [Next]_vars, NEW n \in Narrators,
           socketFile = n, pc[n] = "serving", socketFile' # n
    PROVE  \E m \in Narrators \ {n} : m \in asked \/ bound[m] = n
<1>1. n # None
  BY LifecycleAssumption
<1>2. ASSUME NEW m \in Narrators, NarratorStep(m)
      PROVE  \E k \in Narrators \ {n} : k \in asked \/ bound[k] = n
  <2>1. CASE UnlinkStale(m)
    BY <2>1 DEF UnlinkStale, Moves, IInv, TheyWereTold, Binding
  <2>2. CASE Bind(m)
    BY <1>1, <2>2 DEF Bind
  <2>3. CASE CleanupSocketFile(m)
    BY <2>3 DEF CleanupSocketFile, MayRemove, Moves
  <2>4. CASE UNCHANGED socketFile
    BY <2>4
  <2> QED BY <1>2, <2>1, <2>2, <2>3, <2>4
          DEF NarratorStep, TakeStartLock, StartWithoutLock, CheckPid, WritePid, AskSocket, Listen,
              Stopping, CloseSocket, ReleasePidFile, CloseLock, Leave, Kill
<1>3. ASSUME NEW s \in Starts, StartStep(s) PROVE UNCHANGED socketFile
  BY <1>3 DEF StartStep, narrators, RunStart, MakeLock, StampLock, SeesDeadOwner, ReclaimLock,
              GiveUpLock, CheckAndSpawn, SeesPidFile, WaitExpires, ReleaseLock, OrphanLock
<1>4. ASSUME NEW t \in Stops, StopStep(t) PROVE UNCHANGED socketFile
  BY <1>4 DEF StopStep, StopSignals, StopWaits, StopSweeps
<1>5. ASSUME NEW r \in Restarts, RestartStep(r) PROVE UNCHANGED socketFile
  BY <1>5 DEF RestartStep, RestartPolls, Kickstart, narrators
<1> QED BY <1>2, <1>3, <1>4, <1>5 DEF Next, vars, narrators

\* What unlink_if_bound's comment promises, and where the promise ends.
THEOREM SocketSurvivesHolds == Spec => SocketSurvives
<1>1. IInv /\ [Next]_vars =>
        [\A n \in Narrators :
            (socketFile = n /\ pc[n] = "serving" /\ socketFile' # n) =>
                \E m \in Narrators \ {n} : m \in asked \/ bound[m] = n]_vars
  BY SocketStep
<1> QED BY <1>1, Invariant, PTL DEF Spec, SocketSurvives

----------------------------------------------------------------------------
\* The pid file of a narrator that lives is removed by itself, or by a stop
\* script that sweeps.
LEMMA PidStep ==
    ASSUME [Next]_vars, NEW n \in Narrators,
           pidFile = n, pc[n] \in Living, pidFile' = None
    PROVE  pc[n] = "draining" \/ \E t \in Stops : script[t] = "sweep"
<1>1. n # None
  BY LifecycleAssumption
<1>2. ASSUME NEW m \in Narrators, NarratorStep(m) PROVE pc[n] = "draining"
  <2>1. CASE ReleasePidFile(m)
    BY <1>1, <2>1 DEF ReleasePidFile, NamesMe, Moves
  <2>2. CASE WritePid(m)
    BY <2>2, LifecycleAssumption DEF WritePid
  <2>3. CASE UNCHANGED pidFile
    BY <1>1, <2>3
  <2> QED BY <1>2, <2>1, <2>2, <2>3
          DEF NarratorStep, TakeStartLock, StartWithoutLock, CheckPid, AskSocket, UnlinkStale, Bind, Listen,
              Stopping, CloseSocket, CleanupSocketFile, CloseLock, Leave, Kill
<1>3. ASSUME NEW s \in Starts, StartStep(s) PROVE UNCHANGED pidFile
  BY <1>3 DEF StartStep, narrators, RunStart, MakeLock, StampLock, SeesDeadOwner, ReclaimLock,
              GiveUpLock, CheckAndSpawn, SeesPidFile, WaitExpires, ReleaseLock, OrphanLock
<1>4. ASSUME NEW t \in Stops, StopStep(t) PROVE UNCHANGED pidFile \/ script[t] = "sweep"
  BY <1>4 DEF StopStep, StopSignals, StopWaits, StopSweeps, Goes
<1>5. ASSUME NEW r \in Restarts, RestartStep(r) PROVE UNCHANGED pidFile
  BY <1>5 DEF RestartStep, RestartPolls, Kickstart, narrators
<1> QED BY <1>1, <1>2, <1>3, <1>4, <1>5 DEF Next, vars, narrators

\* "A second daemon that stops must not take the live one's pid file with it"
\* (_release_pid_file): no narrator's step removes another's.
THEOREM PidFileSurvivesHolds == Spec => PidFileSurvives
<1>1. [Next]_vars =>
        [\A n \in Narrators :
            (pidFile = n /\ pc[n] \in Living /\ pidFile' = None) =>
                \/ pc[n] = "draining"
                \/ \E t \in Stops : script[t] = "sweep"]_vars
  BY PidStep
<1> QED BY <1>1, PTL DEF Spec, PidFileSurvives
=============================================================================
