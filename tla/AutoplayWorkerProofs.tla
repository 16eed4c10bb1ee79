------------------------- MODULE AutoplayWorkerProofs -------------------------
(***************************************************************************)
(* Theorems about AutoplayWorker, for any number of workers, sessions,     *)
(* answers, retries and faults: one claim per burst, no line queued twice  *)
(* by the client's retries, and no worker bails out as a duplicate of what *)
(* nobody took on.                                                         *)
(*                                                                         *)
(* The last is the guard's: what it holds against a worker was written by  *)
(* one that went on to speak (GuardTold), and a worker that has claimed    *)
(* stays one that speaks, has reached the narrator, or failed by all       *)
(* routes.                                                                 *)
(***************************************************************************)
EXTENDS AutoplayWorker, TLAPS

\* It took the words on, whatever became of them.
Took(v) == reached[v] \/ pc[v] \in Speaking \cup {"ended", "silent"}

\* The guard's claims are those of workers that took the words on.
GuardTold == \A h \in Answers : age[h] # "old" => \E v \in Callers : Message[v] = h /\ Took(v)

\* A worker that has not claimed has asked nothing; one that is done has
\* reached the narrator; a reply says as much.
Asked ==
    \A w \in Callers :
        /\ pc[w] \in {"idle", "spawned", "ready", "awaiting", "bailed", "duplicate"} => ~reached[w]
        /\ call[w].result # "none" => pc[w] \in {"speaking", "scripted"}
        /\ pc[w] = "done" \/ call[w].result = "ok" => reached[w]

\* The ledger knows each line that waits or was heard.
Known ==
    \A i \in Ids :
        /\ copies[i] + heard[i] <= 1
        /\ copies[i] > 0 => ledger[i] = "queued"
        /\ heard[i] > 0 => ledger[i] = "done"

\* A claim is only made when there is none that is fresh.
Counted == \A h \in Hashes : claims[h] <= 1

IInv == TypeOK /\ Counted /\ Known /\ Asked /\ GuardTold /\ DuplicateWasTaken

----------------------------------------------------------------------------
LEMMA WorkersStart == Init => IInv
<1> SUFFICES ASSUME Init PROVE IInv
  OBVIOUS
<1> USE DEF Init
<1>1. GateTypeOK
  <2>1. switches \in 0..MaxSwitches
    BY GateAssumption DEF GateInit
  <2> QED BY <2>1 DEF GateInit, GateTypeOK
<1>2. GuardTypeOK /\ Counted
  BY DEF GuardInit, GuardTypeOK, Counted
<1>3. ClientTypeOK
  <2>1. Idle \in Calls
    BY ClientAssumption DEF Idle, Calls, Routes
  <2>2. faults \in 0..MaxFaults
    BY ClientAssumption DEF ClientInit
  <2> QED BY <2>1, <2>2 DEF ClientInit, ClientTypeOK, States
<1>4. pc \in [Callers -> {"idle", "spawned", "ready", "awaiting"} \cup Speaking \cup Over]
  OBVIOUS
<1>5. tries \in [Callers -> 0..RawAttempts]
  BY WorkerAssumption
<1>6. TypeOK
  BY <1>1, <1>2, <1>3, <1>4, <1>5 DEF TypeOK
<1>7. Known
  BY DEF ClientInit, Known
<1>8. Asked
  BY DEF ClientInit, Asked, Idle
<1>9. GuardTold
  BY WorkerAssumption DEF GuardInit, GuardTold, Answers
<1>10. DuplicateWasTaken
  BY DEF DuplicateWasTaken
<1> QED BY <1>2, <1>6, <1>7, <1>8, <1>9, <1>10 DEF IInv

----------------------------------------------------------------------------
\* The guard.
LEMMA ClaimKeepsGuard ==
    ASSUME GuardTypeOK, Counted, NEW h \in Hashes, NEW alive, Claimed(h, alive)
    PROVE  GuardTypeOK' /\ Counted'
BY DEF GuardTypeOK, Counted, Claimed, FreshSameHash, WriteNowPlaying

LEMMA UnlockedKeepsGuard ==
    ASSUME GuardTypeOK, Counted, NEW h \in Hashes, ClaimedUnlocked(h)
    PROVE  GuardTypeOK' /\ Counted'
BY DEF GuardTypeOK, Counted, ClaimedUnlocked, WriteNowPlaying

\* Time only ends claims.
LEMMA TickKeepsGuard ==
    ASSUME GuardTypeOK, Counted, TickBurst \/ TickCap
    PROVE  GuardTypeOK' /\ Counted' /\ \A h \in Hashes : age'[h] # "old" => age[h] # "old"
BY DEF GuardTypeOK, Counted, TickBurst, TickCap, Passes

----------------------------------------------------------------------------
\* The client's steps.
LEMMA ClientTyped ==
    ASSUME ClientTypeOK, NEW w \in Callers, NEW cached_, ClientStep(w, cached_)
    PROVE  ClientTypeOK'
<1> USE DEF ClientTypeOK
<1>1. Fault => faults' \in 0..MaxFaults
  BY ClientAssumption DEF Fault
<1>2. ASSUME NEW ensured \in BOOLEAN, TriesAgain(w, ensured)
      PROVE  call' \in [Callers -> Calls]
  <2>1. CASE call[w].attempt < MaxRetries
    <3>1. call[w].attempt + 1 \in 0..MaxRetries
      BY <2>1, ClientAssumption DEF Calls
    <3> QED BY <1>2, <2>1, <3>1 DEF TriesAgain, Calls
  <2>2. CASE ~(call[w].attempt < MaxRetries)
    BY <1>2, <2>2 DEF TriesAgain, Ends, Calls
  <2> QED BY <2>1, <2>2
<1>3. \A result \in {"ok", "error", "failed"} : Ends(w, result) => call' \in [Callers -> Calls]
  BY DEF Ends, Calls
<1>4. call[w].ensured \in BOOLEAN /\ <<w, call[w].route>> \in Ids
  BY DEF Calls, Ids
<1>5. IsHandled(w) => copies' \in [Ids -> Nat] /\ ledger' \in [Ids -> States]
  BY <1>4 DEF IsHandled, Queued, States
<1>6. CASE Ensures(w)
  BY <1>6 DEF Ensures, Started, Calls
<1>7. CASE IsRefused(w)
  BY <1>2, <1>4, <1>7 DEF IsRefused, Started
<1>8. CASE IsAnswered(w, cached_)
  BY <1>3, <1>5, <1>8 DEF IsAnswered
<1>9. CASE LosesReply(w)
  BY <1>1, <1>2, <1>4, <1>5, <1>9 DEF LosesReply
<1>10. CASE FailsUnhandled(w)
  BY <1>1, <1>2, <1>3, <1>4, <1>10 DEF FailsUnhandled
<1> QED BY <1>6, <1>7, <1>8, <1>9, <1>10 DEF ClientStep

LEMMA ClientKnown ==
    ASSUME ClientTypeOK, Known, NEW w \in Callers, NEW cached_, ClientStep(w, cached_)
    PROVE  Known'
<1> USE DEF ClientTypeOK, Known
<1>1. CASE UNCHANGED <<ledger, copies, heard>>
  BY <1>1
<1>2. CASE IsHandled(w) /\ UNCHANGED heard
  <2>1. <<w, call[w].route>> \in Ids
    BY DEF Calls, Ids
  <2> QED BY <1>1, <1>2, <2>1 DEF IsHandled, Queued, Blocks, States
<1> QED BY <1>1, <1>2 DEF ClientStep, Ensures, IsRefused, IsAnswered, LosesReply, FailsUnhandled

\* What a step of its request makes of a caller's result, and of the others'.
LEMMA ClientResult ==
    ASSUME ClientTypeOK, NEW w \in Callers, NEW cached_, ClientStep(w, cached_)
    PROVE  /\ call[w].result = "pending"
           /\ \A v \in Callers \ {w} : call'[v] = call[v]
BY DEF ClientTypeOK, Calls, ClientStep, Ensures, IsRefused, IsAnswered, LosesReply, FailsUnhandled,
       Pending, TriesAgain, Ends

\* The narrator's steps.
LEMMA NarratorKeeps ==
    ASSUME ClientTypeOK, Known, NarratorStep
    PROVE  ClientTypeOK' /\ Known' /\ UNCHANGED call
<1> USE DEF ClientTypeOK, Known, States
<1>1. ASSUME NEW i \in Ids, Plays(i)
      PROVE  ClientTypeOK' /\ Known' /\ UNCHANGED call
  BY <1>1 DEF Plays, Done
<1>2. ASSUME NEW i \in Ids, Drops(i)
      PROVE  ClientTypeOK' /\ Known' /\ UNCHANGED call
  BY <1>2 DEF Drops, Dropped
<1>3. CASE Dies
  <2>1. faults' \in 0..MaxFaults
    BY <1>3, ClientAssumption DEF Dies, Fault
  <2> QED BY <1>3, <2>1 DEF Dies, Reloaded
<1>4. CASE Starts
  BY <1>4 DEF Starts
<1> QED BY <1>1, <1>2, <1>3, <1>4 DEF NarratorStep

----------------------------------------------------------------------------
\* The guard keeps to its workers when no claim is made and nobody that took
\* the words on lets go of them.
LEMMA TookStands ==
    ASSUME TypeOK, GuardTold, \A h \in Hashes : age'[h] # "old" => age[h] # "old",
           \A v \in Callers : Took(v) => Took(v)'
    PROVE  GuardTold'
BY WorkerAssumption DEF GuardTold, Answers

\* And so do those that bailed out as duplicates.
LEMMA DuplicatesStand ==
    ASSUME TypeOK, Asked, DuplicateWasTaken,
           \A v \in Callers : Took(v) => Took(v)',
           \A v \in Callers : pc'[v] = "duplicate" => pc[v] = "duplicate"
    PROVE  DuplicateWasTaken'
BY DEF DuplicateWasTaken, Took

\* A worker moves on, and asks nothing, before its claim.
LEMMA EarlyKeeps ==
    ASSUME IInv, NEW w \in Callers,
           Stop(w) \/ GatedOff(w) \/ Bail(w) \/ Resolve(w) \/ CheckPlaying(w)
    PROVE  IInv'
<1> USE DEF IInv
<1>1. PICK to \in {"spawned", "bailed", "ready", "duplicate", "awaiting"} :
           /\ pc[w] \in {"idle", "spawned", "ready"} /\ pc' = [pc EXCEPT ![w] = to]
           /\ to = "duplicate" => age[Message[w]] # "old"
  BY DEF Stop, GatedOff, Bail, Resolve, CheckPlaying, AlreadyPlaying, Moves
<1>2. UNCHANGED <<gate, guard, client, tries, cached, reached>> /\ text' \in [Callers -> BOOLEAN]
  BY DEF Stop, GatedOff, Bail, Resolve, CheckPlaying, TypeOK
<1>3. TypeOK' /\ Counted' /\ Known'
  BY <1>1, <1>2 DEF TypeOK, gate, guard, client, GateTypeOK, GuardTypeOK, ClientTypeOK, Counted, Known, Over
<1>4. Asked'
  BY <1>1, <1>2 DEF TypeOK, Asked, client
<1>5. \A v \in Callers : Took(v) => v # w /\ Took(v)'
  BY <1>1, <1>2 DEF TypeOK, Asked, Took, Speaking
<1>6. GuardTold'
  BY <1>2, <1>5, TookStands DEF guard
<1>7. DuplicateWasTaken'
  <2>1. CASE to = "duplicate"
    <3>1. \E v \in Callers : Message[v] = Message[w] /\ Took(v)
      BY <1>1, <2>1 DEF GuardTold, Answers
    <3> QED BY <1>1, <1>5, <2>1, <3>1 DEF TypeOK, DuplicateWasTaken, Took
  <2>2. CASE to # "duplicate"
    BY <1>1, <1>5, <2>2, DuplicatesStand DEF TypeOK
  <2> QED BY <2>1, <2>2
<1> QED BY <1>3, <1>4, <1>6, <1>7

\* A worker's request ends where it began, in SPEAKING.
LEMMA BeginsTyped ==
    ASSUME ClientTypeOK, NEW w \in Callers, NEW route \in Routes, NEW op \in {"speak", "cache"},
           Begins(w, route, op)
    PROVE  call' \in [Callers -> Calls] /\ call'[w].result = "pending"
           /\ \A v \in Callers \ {w} : call'[v] = call[v]
<1>1. [route |-> route, op |-> op, attempt |-> 0, ensured |-> FALSE, result |-> "pending"] \in Calls
  BY ClientAssumption DEF Calls
<1> QED BY <1>1 DEF ClientTypeOK, Begins

\* A claim: its worker takes the words on; nobody else lets go of them.
LEMMA ClaimKeeps ==
    ASSUME IInv, NEW w \in Callers, Claim(w) \/ ClaimWithoutLock(w)
    PROVE  IInv'
<1> USE DEF IInv
<1>0. /\ pc[w] = "awaiting" /\ Message[w] \in Hashes
      /\ UNCHANGED <<gate, daemon, ledger, copies, heard, text, tries, cached, reached>>
      /\ faults' \in 0..MaxFaults
  <2>1. Fault => faults' \in 0..MaxFaults
    BY ClientAssumption DEF Fault, TypeOK, ClientTypeOK
  <2> QED BY <2>1, WorkerAssumption DEF Claim, ClaimWithoutLock, Moves, TypeOK, ClientTypeOK
<1>1. Known'
  BY <1>0 DEF Known
<1>2. CASE pc' = [pc EXCEPT ![w] = "duplicate"] /\ UNCHANGED <<call, guard>>
           /\ age[Message[w]] # "old"
  <2>1. TypeOK' /\ Counted'
    BY <1>0, <1>2 DEF TypeOK, gate, guard, GateTypeOK, GuardTypeOK, ClientTypeOK, Counted, Over
  <2>2. Asked'
    BY <1>0, <1>2 DEF TypeOK, Asked
  <2>3. \A v \in Callers : Took(v) => v # w /\ Took(v)'
    BY <1>0, <1>2 DEF TypeOK, Asked, Took, Speaking
  <2>4. GuardTold'
    BY <1>2, <2>3, TookStands DEF guard
  <2>5. \E v \in Callers : Message[v] = Message[w] /\ Took(v)
    BY <1>2 DEF GuardTold, Answers
  <2>6. DuplicateWasTaken'
    BY <1>2, <2>3, <2>5 DEF TypeOK, DuplicateWasTaken, Took
  <2> QED BY <1>1, <2>1, <2>2, <2>4, <2>6
<1>3. CASE /\ pc' = [pc EXCEPT ![w] = "speaking"]
           /\ Begins(w, "client", IF text[w] THEN "speak" ELSE "cache")
           /\ GuardTypeOK' /\ Counted' /\ WriteNowPlaying(Message[w])
  <2>1. /\ call' \in [Callers -> Calls] /\ call'[w].result = "pending"
        /\ \A v \in Callers \ {w} : call'[v] = call[v]
    BY <1>3, BeginsTyped DEF TypeOK, Routes
  <2>2. TypeOK'
    BY <1>0, <1>3, <2>1 DEF TypeOK, gate, GateTypeOK, ClientTypeOK, Speaking
  <2>3. Asked'
    BY <1>0, <1>3, <2>1 DEF TypeOK, Asked
  <2>4. \A v \in Callers : Took(v) => Took(v)'
    BY <1>0, <1>3 DEF TypeOK, Took, Speaking
  <2>5. Took(w)'
    BY <1>3 DEF TypeOK, Took, Speaking
  <2>6. \A h \in Hashes \ {Message[w]} : age'[h] = age[h]
    BY <1>3 DEF WriteNowPlaying, TypeOK, GuardTypeOK
  <2>7. GuardTold'
    BY <2>4, <2>5, <2>6, WorkerAssumption DEF GuardTold, Answers
  <2>8. DuplicateWasTaken'
    BY <1>3, <2>4, DuplicatesStand DEF TypeOK
  <2> QED BY <1>1, <1>3, <2>2, <2>3, <2>7, <2>8
<1>4. CASE Claim(w)
  <2>1. ASSUME NEW alive \in BOOLEAN, Claimed(Message[w], alive), Moves(w, "awaiting", "speaking"),
               Begins(w, "client", IF text[w] THEN "speak" ELSE "cache")
        PROVE  IInv'
    BY <1>0, <1>3, <2>1, ClaimKeepsGuard DEF Claimed, Moves, TypeOK
  <2>2. ASSUME NEW alive \in BOOLEAN, Refused(Message[w], alive), Moves(w, "awaiting", "duplicate"),
               UNCHANGED call
        PROVE  IInv'
    BY <1>2, <2>2 DEF Refused, FreshSameHash, Moves
  <2> QED BY <1>4, <2>1, <2>2 DEF Claim
<1>5. CASE ClaimWithoutLock(w)
  BY <1>0, <1>3, <1>5, UnlockedKeepsGuard DEF ClaimWithoutLock, ClaimedUnlocked, Moves, TypeOK
<1> QED BY <1>4, <1>5

\* The request goes on: whoever it reaches the narrator for, is reached.
LEMMA AsksKeeps ==
    ASSUME IInv, NEW w \in Callers, Asks(w)
    PROVE  IInv'
<1> USE DEF IInv
<1>1. ClientTypeOK' /\ Known'
  BY ClientTyped, ClientKnown DEF Asks, TypeOK
<1>2. call[w].result = "pending" /\ \A v \in Callers \ {w} : call'[v] = call[v]
  BY ClientResult DEF Asks, TypeOK
<1>3. /\ UNCHANGED <<gate, guard, pc, text, tries, cached>>
      /\ reached' = [reached EXCEPT ![w] = @ \/ copies' # copies \/ call'[w].result = "ok"]
  BY DEF Asks
<1>4. reached' \in [Callers -> BOOLEAN]
  BY <1>3 DEF TypeOK
<1>5. \A v \in Callers : reached[v] => reached'[v]
  BY <1>3 DEF TypeOK
<1>6. \A v \in Callers \ {w} : reached'[v] = reached[v]
  BY <1>3 DEF TypeOK
<1>7. call'[w].result = "ok" => reached'[w]
  BY <1>3 DEF TypeOK
<1>8. TypeOK' /\ Counted'
  BY <1>1, <1>3, <1>4 DEF TypeOK, gate, guard, GateTypeOK, GuardTypeOK, Counted
<1>9. pc[w] \in {"speaking", "scripted"}
  BY <1>2 DEF Asked
<1>10. Asked'
  BY <1>2, <1>3, <1>5, <1>6, <1>7, <1>9 DEF Asked
<1>11. \A v \in Callers : Took(v) => Took(v)'
  BY <1>3, <1>5 DEF Took
<1>12. GuardTold' /\ DuplicateWasTaken'
  BY <1>3, <1>11, TookStands, DuplicatesStand DEF guard
<1> QED BY <1>1, <1>8, <1>10, <1>12

\* The rest of a worker's steps, once it has claimed.
LEMMA LateKeeps ==
    ASSUME IInv, NEW w \in Callers,
           \/ ClientReturns(w) \/ ScriptSpeaks(w) \/ ScriptPlaysCache(w) \/ ScriptHasNothing(w)
           \/ ScriptReturns(w) \/ SendRaw(w) \/ RawRefused(w)
    PROVE  IInv'
<1> USE DEF IInv
<1>1. /\ UNCHANGED <<gate, guard, ledger, copies, heard, text, cached>>
      /\ daemon' \in {"up", "stale", "gone"}
  BY DEF ClientReturns, ScriptSpeaks, ScriptPlaysCache, ScriptHasNothing, ScriptReturns, SendRaw, RawRefused,
         client, Started, TypeOK, ClientTypeOK
<1>2. faults' \in 0..MaxFaults
  <2>1. Fault => faults' \in 0..MaxFaults
    BY ClientAssumption DEF Fault, TypeOK, ClientTypeOK
  <2> QED BY <2>1 DEF ClientReturns, ScriptSpeaks, ScriptPlaysCache, ScriptHasNothing, ScriptReturns,
             SendRaw, RawRefused, client, TypeOK, ClientTypeOK
<1>3. tries' \in [Callers -> 0..RawAttempts]
  <2>1. CASE RawRefused(w)
    <3>1. CASE tries[w] + 1 < RawAttempts /\ tries' = [tries EXCEPT ![w] = @ + 1]
      BY <3>1, WorkerAssumption DEF TypeOK
    <3> QED BY <2>1, <3>1 DEF RawRefused, TypeOK
  <2> QED BY <2>1 DEF ClientReturns, ScriptSpeaks, ScriptPlaysCache, ScriptHasNothing, ScriptReturns, SendRaw,
             TypeOK
<1>4. /\ call' \in [Callers -> Calls]
      /\ \A v \in Callers \ {w} : call'[v] = call[v]
      /\ call'[w].result \in {"none", "pending"}
      /\ call'[w].result # "none" => pc'[w] = "scripted"
  <2>1. CASE ClientReturns(w) \/ ScriptReturns(w)
    <3>1. Idle \in Calls /\ Idle.result = "none"
      BY ClientAssumption DEF Idle, Calls, Routes
    <3> QED BY <2>1, <3>1 DEF ClientReturns, ScriptReturns, TypeOK, ClientTypeOK
  <2>2. CASE ScriptSpeaks(w) \/ ScriptPlaysCache(w)
    BY <2>2, BeginsTyped DEF ScriptSpeaks, ScriptPlaysCache, Moves, TypeOK, Routes
  <2>3. CASE ScriptHasNothing(w) \/ SendRaw(w) \/ RawRefused(w)
    <3>1. UNCHANGED call /\ pc[w] \in {"script", "raw"}
      BY <2>3 DEF ScriptHasNothing, SendRaw, RawRefused, client, Moves
    <3> QED BY <3>1 DEF TypeOK, ClientTypeOK, Calls, Asked
  <2> QED BY <2>1, <2>2, <2>3
<1>5. PICK to \in Speaking \cup {"done", "silent", "ended"} :
           pc[w] \in Speaking /\ pc' = [pc EXCEPT ![w] = to]
  <2>1. CASE ClientReturns(w) \/ ScriptReturns(w)
    BY <2>1 DEF ClientReturns, ScriptReturns, Moves, Speaking
  <2>2. CASE ScriptSpeaks(w) \/ ScriptPlaysCache(w) \/ ScriptHasNothing(w) \/ SendRaw(w)
    BY <2>2 DEF ScriptSpeaks, ScriptPlaysCache, ScriptHasNothing, SendRaw, Moves, Speaking
  <2>3. CASE RawRefused(w)
    <3>1. CASE UNCHANGED pc
      <4>1. pc[w] = "raw" /\ pc' = [pc EXCEPT ![w] = "raw"]
        BY <2>3, <3>1 DEF RawRefused, TypeOK
      <4> QED BY <4>1 DEF Speaking
    <3>2. CASE Moves(w, "raw", "ended")
      BY <3>2 DEF Moves, Speaking
    <3> QED BY <2>3, <3>1, <3>2 DEF RawRefused
  <2> QED BY <2>1, <2>2, <2>3
<1>6. /\ reached' \in [Callers -> BOOLEAN]
      /\ \A v \in Callers : reached[v] => reached'[v]
      /\ \A v \in Callers \ {w} : reached'[v] = reached[v]
      /\ to = "done" => reached'[w]
  <2>1. CASE SendRaw(w)
    BY <1>5, <2>1 DEF SendRaw, Moves, TypeOK
  <2>2. CASE ClientReturns(w) \/ ScriptReturns(w)
    <3>1. UNCHANGED reached
      BY <2>2 DEF ClientReturns, ScriptReturns
    <3>2. to = "done" => Result(w) = "ok"
      BY <1>5, <2>2 DEF ClientReturns, ScriptReturns, Moves, TypeOK
    <3> QED BY <3>1, <3>2 DEF TypeOK, Asked, Result
  <2>3. CASE ScriptSpeaks(w) \/ ScriptPlaysCache(w) \/ ScriptHasNothing(w) \/ RawRefused(w)
    <3>1. UNCHANGED reached /\ to # "done"
      BY <1>5, <2>3 DEF ScriptSpeaks, ScriptPlaysCache, ScriptHasNothing, RawRefused, Moves, TypeOK
    <3> QED BY <3>1 DEF TypeOK
  <2> QED BY <2>1, <2>2, <2>3
<1>7. TypeOK' /\ Counted' /\ Known'
  <2>1. pc' \in [Callers -> {"idle", "spawned", "ready", "awaiting"} \cup Speaking \cup Over]
    BY <1>5 DEF TypeOK, Over
  <2> QED BY <1>1, <1>2, <1>3, <1>4, <1>6, <2>1
          DEF TypeOK, gate, guard, GateTypeOK, GuardTypeOK, ClientTypeOK, Counted, Known
<1>8. Asked'
  BY <1>4, <1>5, <1>6 DEF TypeOK, Asked, Speaking
<1>9. \A v \in Callers : Took(v) => Took(v)'
  BY <1>5, <1>6 DEF TypeOK, Took, Speaking
<1>10. GuardTold' /\ DuplicateWasTaken'
  BY <1>1, <1>5, <1>9, TookStands, DuplicatesStand DEF guard, TypeOK, Speaking
<1> QED BY <1>7, <1>8, <1>10

\* What the others do: switches, time, the narrator, the cache, another answer.
LEMMA EnvironmentKeeps ==
    ASSUME IInv, Environment
    PROVE  IInv'
<1> USE DEF IInv
<1>1. ASSUME UNCHANGED <<pc, reached, call>>, TypeOK', Counted', Known',
             \A h \in Answers : age'[h] # "old" => age[h] # "old"
      PROVE  IInv'
  BY <1>1 DEF Asked, GuardTold, DuplicateWasTaken, Took
<1>2. CASE OtherClaims
  <2>1. PICK h \in Hashes \ Answers, alive \in BOOLEAN : Claimed(h, alive)
    BY <1>2 DEF OtherClaims
  <2>2. GuardTypeOK' /\ Counted'
    BY <2>1, ClaimKeepsGuard DEF TypeOK
  <2>3. \A g \in Answers : age'[g] = age[g]
    BY <2>1, WorkerAssumption DEF Claimed, WriteNowPlaying, TypeOK, GuardTypeOK, Answers
  <2> QED BY <1>1, <1>2, <2>2, <2>3
          DEF OtherClaims, gate, client, worker, TypeOK, GateTypeOK, ClientTypeOK, Known
<1>3. CASE GateNext /\ UNCHANGED <<guard, client, worker>>
  <2>1. switches' \in 0..MaxSwitches
    BY <1>3, GateAssumption DEF GateNext, AutoplayOn, AutoplayOff, MuteAll, ScopeSolo, ScopeAll, SweepMarkers, Switch,
                               TypeOK, GateTypeOK
  <2>2. disabled' \in BOOLEAN /\ solo' \in Sessions \cup {None} /\ enrolled' \subseteq Sessions
    BY <1>3 DEF GateNext, AutoplayOn, AutoplayOff, MuteAll, ScopeSolo, ScopeAll, SweepMarkers, SetSolo, Enroll, Withdraw,
                TypeOK, GateTypeOK
  <2> QED BY <1>1, <1>3, <2>1, <2>2
          DEF guard, client, worker, TypeOK, GateTypeOK, GuardTypeOK, ClientTypeOK, Counted, Known
<1>4. CASE (TickBurst \/ TickCap) /\ UNCHANGED <<gate, client, worker>>
  BY <1>1, <1>4, TickKeepsGuard, WorkerAssumption
     DEF gate, client, worker, TypeOK, GateTypeOK, ClientTypeOK, Known, Answers
<1>5. CASE NarratorStep /\ UNCHANGED <<gate, guard, worker>>
  BY <1>1, <1>5, NarratorKeeps DEF gate, guard, worker, TypeOK, GateTypeOK, GuardTypeOK, Counted
<1>6. CASE /\ (CacheFills /\ UNCHANGED faults) \/ (CacheLoses /\ Fault /\ Bound)
           /\ UNCHANGED <<gate, guard, daemon, ledger, copies, heard, call, pc, text, tries, reached>>
  <2>1. faults' \in 0..MaxFaults
    BY <1>6, ClientAssumption DEF Fault, TypeOK, ClientTypeOK
  <2>2. cached' \subseteq Answers
    BY <1>6 DEF CacheFills, CacheLoses, TypeOK
  <2> QED BY <1>1, <1>6, <2>1, <2>2
          DEF gate, guard, TypeOK, GateTypeOK, GuardTypeOK, ClientTypeOK, Counted, Known
<1> QED BY <1>2, <1>3, <1>4, <1>5, <1>6 DEF Environment

\* Every step keeps the invariant.
LEMMA WorkersNext == IInv /\ [Next]_vars => IInv'
<1> SUFFICES ASSUME IInv, [Next]_vars PROVE IInv'
  OBVIOUS
<1>1. ASSUME NEW w \in Callers, Stop(w) \/ WorkerStep(w) PROVE IInv'
  BY <1>1, EarlyKeeps, ClaimKeeps, AsksKeeps, LateKeeps DEF WorkerStep
<1>2. CASE UNCHANGED vars
  BY <1>2 DEF vars, gate, guard, client, worker, IInv, TypeOK, GateTypeOK, GuardTypeOK, ClientTypeOK, Counted,
              Known, Asked, GuardTold, Took, DuplicateWasTaken
<1> QED BY <1>1, <1>2, EnvironmentKeeps DEF Next

\* The invariant holds of every behaviour.
THEOREM WorkersInvariant == Spec => []IInv
<1>1. Init => IInv
  BY WorkersStart
<1>2. IInv /\ [Next]_vars => IInv'
  BY WorkersNext
<1> QED BY <1>1, <1>2, PTL DEF Spec

\* The siblings of a burst have one claim between them (try_claim).
THEOREM OneClaimHolds == Spec => []OneClaimPerBurst
<1>1. IInv => OneClaimPerBurst
  BY DEF IInv, Counted, OneClaimPerBurst
<1> QED BY <1>1, WorkersInvariant, PTL

\* "The retries below never queue a line twice" (daemon_client.py), whatever
\* replies are lost and whenever the narrator dies.
THEOREM RetriesQueueOnceHolds == Spec => []RetriesQueueOnce
<1>1. IInv => RetriesQueueOnce
  BY DEF IInv, Known, RetriesQueueOnce
<1> QED BY <1>1, WorkersInvariant, PTL

\* Who bails out as a duplicate leaves the words to one that took them on
\* (already_playing, try_claim).
THEOREM DuplicateWasTakenHolds == Spec => []DuplicateWasTaken
<1>1. IInv => DuplicateWasTaken
  BY DEF IInv
<1> QED BY <1>1, WorkersInvariant, PTL
=============================================================================
