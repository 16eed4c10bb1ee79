-------------------------- MODULE AudioStoresProofs --------------------------
(***************************************************************************)
(* Theorems about AudioStores, for any number of requests, lines, settings,*)
(* faults and kills: a job that is active is on its way (JobsEnd), the WAV *)
(* a hit gave is there while it is used (HitIsPlayable), of the lines      *)
(* listed only the one under a prune's hands is without its audio          *)
(* (ListedHasAudio), and no prune takes the newest (NewestStays).          *)
(*                                                                         *)
(* The file lock is what the two promises of the history rest on: the      *)
(* narrator's export and a command's prune are never inside it together    *)
(* (OneInside), so that what one has decided to remove is not changed by   *)
(* the other.  JobsEnd rests on there being one job between the tracker,   *)
(* the queue and the job thread (OneJob).  HitIsPlayable rests on this:    *)
(* without a fault, a promotion fails only when the other one has entered  *)
(* the sidecar, and so the cleanup finds the entry complete (Calm).        *)
(***************************************************************************)
EXTENDS AudioStores, SequenceTheorems, WellFoundedInduction, TLAPS

(* The history's files. *)

\* The lock is one process's.
OneInside == ~(writer.at \in Writing \cup Pruning /\ pruner.at \in Pruning)

\* The sidecar follows the WAV.
WavFirst == writer.at \in {"noting", "naming"} => writer.line \in wavs

\* A line that is exported has its number.
Numbered == writer.at # "idle" => writer.line \in Line

\* What a prune has decided to remove: each line leaves one that is newer.
Decided(x) ==
    /\ x.at \notin {"prune", "half"} => x.doomed = {}
    /\ x.at = "half" => x.doomed # {}
    /\ \A l \in x.doomed : \E m \in sidecars \ x.doomed : m > l

HistoryInv ==
    HistoryTypeOK /\ OneInside /\ WavFirst /\ Numbered /\ Decided(writer) /\ Decided(pruner) /\ ListedHasAudio

----------------------------------------------------------------------------
\* A set of numbers has its least, and a bounded one its greatest.
LEMMA LeastExists ==
    ASSUME NEW S \in SUBSET Nat, S # {}
    PROVE  \E x \in S : \A y \in S : x <= y
<1>1. PICK x \in S : \A y \in S : ~(<<y, x>> \in OpToRel(<, Nat))
  BY NatLessThanWellFounded, WFMin
<1>2. \A y \in S : ~(y < x)
  BY <1>1 DEF OpToRel
<1> QED BY <1>2

LEMMA MinOf ==
    ASSUME NEW S \in SUBSET Nat, S # {}
    PROVE  Min(S) \in S
<1>1. \E x \in S : \A y \in S : x =< y
  BY LeastExists
<1> QED BY <1>1 DEF Min

LEMMA MaxOf ==
    ASSUME NEW n \in Nat, NEW S \in SUBSET (1..n), S # {}
    PROVE  Max(S) \in S /\ \A y \in S : y <= Max(S)
<1> DEFINE T == {n - x : x \in S}
<1>1. T \in SUBSET Nat /\ T # {}
  <2>1. \A x \in S : n - x \in Nat
    OBVIOUS
  <2> QED BY <2>1
<1>2. PICK t \in T : \A u \in T : t <= u
  BY <1>1, LeastExists
<1>3. PICK x \in S : t = n - x
  BY <1>2
<1>4. \A y \in S : x >= y
  <2> TAKE y \in S
  <2>1. n - x <= n - y
    BY <1>2, <1>3
  <2> QED BY <2>1
<1>5. \E z \in S : \A y \in S : z >= y
  BY <1>4
<1>6. Max(S) \in S /\ \A y \in S : Max(S) >= y
  BY <1>5 DEF Max
<1> QED BY <1>6

\* What a prune decides on leaves the newest.
LEMMA DoomedOld ==
    ASSUME HistoryTypeOK, NEW limit
    PROVE  /\ Doomed(limit) \subseteq sidecars
           /\ \A l \in Doomed(limit) : \E m \in sidecars \ Doomed(limit) : m > l
<1>1. CASE sidecars = {}
  BY <1>1 DEF Doomed, ButNewest
<1>2. CASE sidecars # {}
  <2>1. Max(sidecars) \in sidecars /\ \A y \in sidecars : y <= Max(sidecars)
    BY <1>2, HistoryAssumption, MaxOf DEF HistoryTypeOK, Line
  <2>2. Doomed(limit) \subseteq sidecars \ {Max(sidecars)}
    BY <1>2 DEF Doomed, ButNewest
  <2>3. sidecars \subseteq Nat
    BY HistoryAssumption DEF HistoryTypeOK, Line
  <2>4. ASSUME NEW l \in Doomed(limit)
        PROVE  Max(sidecars) > l
    <3>1. l \in sidecars /\ l # Max(sidecars)
      BY <2>2
    <3>2. l \in Nat /\ Max(sidecars) \in Nat /\ l <= Max(sidecars)
      BY <2>1, <2>3, <3>1
    <3> QED BY <3>1, <3>2
  <2> QED BY <2>1, <2>2, <2>4
<1> QED BY <1>1, <1>2

\* The next to go is one of them.
LEMMA NextDoomed ==
    ASSUME NEW D \in SUBSET Line, D # {}
    PROVE  Min(D) \in D
BY HistoryAssumption, MinOf DEF Line

----------------------------------------------------------------------------
LEMMA HistoryStarts == HistoryInit => HistoryInv
<1> SUFFICES ASSUME HistoryInit PROVE HistoryInv
  OBVIOUS
<1> PICK n \in 0..MaxBefore :
         /\ wavs = 1..n /\ sidecars = 1..n
         /\ allowed \in Limits
         /\ writer = [at |-> "idle", line |-> n, limit |-> allowed, doomed |-> {}]
  BY DEF HistoryInit
<1>1. n \in 0..MaxLine /\ 1..n \subseteq Line
  BY HistoryAssumption DEF Line
<1>2. HistoryTypeOK
  BY <1>1, HistoryAssumption DEF HistoryInit, HistoryTypeOK
<1> QED BY <1>2 DEF HistoryInit, HistoryInv, OneInside, WavFirst, Numbered, Decided, ListedHasAudio, Writing, Pruning

\* The narrator's export.
LEMMA ExportTyped ==
    ASSUME HistoryTypeOK, Numbered, Heard \/ LockExport \/ WriteTmp \/ CopyFails \/ PlaceFile
    PROVE  HistoryTypeOK' /\ Numbered'
<1> USE HistoryAssumption DEF HistoryTypeOK, Numbered, Writing, Pruning
<1>1. CASE Heard
  <2>1. writer.line + 1 \in 0..MaxLine /\ writer.line + 1 \in Line
    BY <1>1 DEF Heard, Line
  <2> QED BY <1>1, <2>1 DEF Heard
<1>2. CASE LockExport
  BY <1>2 DEF LockExport
<1>3. CASE WriteTmp
  BY <1>3 DEF WriteTmp, Writes, First, Second
<1>4. CASE CopyFails
  BY <1>4 DEF CopyFails, Writes
<1>5. CASE PlaceFile
  <2>1. writer.line \in Line /\ writer'.line = writer.line
    BY <1>5 DEF PlaceFile, Writes
  <2>2. writer' \in [at : {"idle", "heard"} \cup Writing \cup Pruning, line : 0..MaxLine,
                     limit : Limits, doomed : SUBSET Line]
    BY <1>5 DEF PlaceFile, Writes
  <2>3. wavs' \subseteq Line /\ sidecars' \subseteq Line /\ tmps' \subseteq Line \X {"wav", "json"}
    BY <1>5, <2>1 DEF PlaceFile, Place
  <2> QED BY <1>5, <2>1, <2>2, <2>3 DEF PlaceFile
<1> QED BY <1>1, <1>2, <1>3, <1>4, <1>5

LEMMA ExportKeeps ==
    ASSUME HistoryInv, Heard \/ LockExport \/ WriteTmp \/ CopyFails \/ PlaceFile
    PROVE  HistoryInv'
<1> USE DEF HistoryInv, HistoryTypeOK, Writing, Pruning, OneInside, WavFirst, Decided, ListedHasAudio
<1>0. HistoryTypeOK' /\ Numbered'
  BY ExportTyped
<1>1. CASE Heard
  BY <1>0, <1>1 DEF Heard
<1>2. CASE LockExport
  BY <1>0, <1>2 DEF LockExport, Locked
<1>3. CASE WriteTmp
  BY <1>0, <1>3 DEF WriteTmp, Writes
<1>4. CASE CopyFails
  BY <1>0, <1>4 DEF CopyFails, Writes
<1>5. CASE PlaceFile
  BY <1>0, <1>5 DEF PlaceFile, Place, Writes, First, Second
<1> QED BY <1>1, <1>2, <1>3, <1>4, <1>5

----------------------------------------------------------------------------
\* The two that prune.
\* What the two may write of where they are.
WriterStates == [at : {"idle", "heard"} \cup Writing \cup Pruning, line : 0..MaxLine,
                 limit : Limits, doomed : SUBSET Line]
PrunerStates == [at : {"idle", "waits"} \cup Pruning, limit : Limits, doomed : SUBSET Line]

LEMMA WriterMoves ==
    ASSUME HistoryTypeOK, NEW place \in {"idle", "heard"} \cup Writing \cup Pruning
    PROVE  /\ [writer EXCEPT !.at = place] \in WriterStates
           /\ \A lines \in SUBSET Line : [writer EXCEPT !.at = place, !.doomed = lines] \in WriterStates
BY DEF HistoryTypeOK, WriterStates

LEMMA PrunerMoves ==
    ASSUME HistoryTypeOK, NEW place \in {"idle", "waits"} \cup Pruning
    PROVE  /\ [pruner EXCEPT !.at = place] \in PrunerStates
           /\ \A lines \in SUBSET Line : [pruner EXCEPT !.at = place, !.doomed = lines] \in PrunerStates
BY DEF HistoryTypeOK, PrunerStates

LEMMA PruneTyped ==
    ASSUME HistoryTypeOK, PruneAfterExport \/ PruneAsCommanded
    PROVE  HistoryTypeOK'
<1> USE DEF HistoryTypeOK, WriterStates, PrunerStates
<1>1. \A limit : Doomed(limit) \in SUBSET Line
  BY DoomedOld
<1>2. CASE PruneAfterExport
  <2>1. CASE writer.at = "scan"
    <3>1. writer' = [writer EXCEPT !.at = "prune", !.doomed = Doomed(writer.limit)]
      BY <1>2, <2>1 DEF PruneAfterExport, Prune
    <3>2. Doomed(writer.limit) \in SUBSET Line /\ "prune" \in Pruning
      BY <1>1 DEF Pruning
    <3>3. writer' \in WriterStates
      BY <3>1, <3>2, WriterMoves
    <3> QED BY <1>2, <2>1, <3>3 DEF PruneAfterExport, Prune
  <2>2. CASE writer.at = "half"
    <3>1. writer' = [writer EXCEPT !.at = "prune", !.doomed = writer.doomed \ {Min(writer.doomed)}]
      BY <1>2, <2>2 DEF PruneAfterExport, Prune
    <3>2. writer.doomed \ {Min(writer.doomed)} \in SUBSET Line
      OBVIOUS
    <3> QED BY <1>2, <2>2, <3>1, <3>2, WriterMoves DEF PruneAfterExport, Prune, Pruning
  <2>3. CASE writer.at \in {"prune", "leftovers"}
    <3>1. \E place \in Pruning \cup {"idle"} : writer' = [writer EXCEPT !.at = place]
      BY <1>2, <2>3 DEF PruneAfterExport, Prune, Pruning
    <3> QED BY <1>2, <2>3, <3>1, WriterMoves DEF PruneAfterExport, Prune
  <2> QED BY <1>2, <2>1, <2>2, <2>3 DEF PruneAfterExport, Prune
<1>3. CASE PruneAsCommanded
  <2>1. CASE pruner.at = "scan"
    <3>1. pruner' = [pruner EXCEPT !.at = "prune", !.doomed = Doomed(pruner.limit)]
      BY <1>3, <2>1 DEF PruneAsCommanded, Prune
    <3>2. Doomed(pruner.limit) \in SUBSET Line /\ "prune" \in Pruning
      BY <1>1 DEF Pruning
    <3>3. pruner' \in PrunerStates
      BY <3>1, <3>2, PrunerMoves
    <3> QED BY <1>3, <2>1, <3>3 DEF PruneAsCommanded, Prune
  <2>2. CASE pruner.at = "half"
    <3>1. pruner' = [pruner EXCEPT !.at = "prune", !.doomed = pruner.doomed \ {Min(pruner.doomed)}]
      BY <1>3, <2>2 DEF PruneAsCommanded, Prune
    <3>2. pruner.doomed \ {Min(pruner.doomed)} \in SUBSET Line
      OBVIOUS
    <3> QED BY <1>3, <2>2, <3>1, <3>2, PrunerMoves DEF PruneAsCommanded, Prune, Pruning
  <2>3. CASE pruner.at \in {"prune", "leftovers"}
    <3>1. \E place \in Pruning \cup {"idle"} : pruner' = [pruner EXCEPT !.at = place]
      BY <1>3, <2>3 DEF PruneAsCommanded, Prune, Pruning
    <3> QED BY <1>3, <2>3, <3>1, PrunerMoves DEF PruneAsCommanded, Prune
  <2> QED BY <1>3, <2>1, <2>2, <2>3 DEF PruneAsCommanded, Prune
<1> QED BY <1>2, <1>3

\* A step of x's prune takes at most one line off the list, and not the newest.
LEMMA PruneSpares ==
    ASSUME HistoryTypeOK, NEW x, NEW y, x.doomed \in SUBSET Line, Decided(x), Prune(x, y),
           NEW l \in sidecars, l \notin sidecars'
    PROVE  \E m \in sidecars' : m > l
<1>1. x.at = "half" /\ l = Min(x.doomed) /\ sidecars' = sidecars \ {l}
  BY DEF Prune
<1>2. l \in x.doomed
  BY <1>1, NextDoomed DEF Decided
<1> QED BY <1>1, <1>2 DEF Decided

LEMMA PruneKeepsDecided ==
    ASSUME HistoryTypeOK, PruneAfterExport \/ PruneAsCommanded, OneInside,
           Decided(writer), Decided(pruner)
    PROVE  Decided(writer)' /\ Decided(pruner)'
<1> USE DEF HistoryTypeOK, Writing, Pruning
<1>1. CASE PruneAfterExport
  <2>1. pruner.doomed = {}
    BY <1>1 DEF PruneAfterExport, Prune, OneInside, Decided
  <2>2. Decided(pruner)'
    BY <1>1, <2>1 DEF PruneAfterExport, Decided, OneInside, Prune
  <2>3. CASE writer.at = "half"
    <3>1. Min(writer.doomed) \in writer.doomed
      BY <2>3, NextDoomed DEF Decided
    <3>2. /\ writer'.at = "prune" /\ writer'.doomed = writer.doomed \ {Min(writer.doomed)}
          /\ sidecars' = sidecars \ {Min(writer.doomed)}
      BY <1>1, <2>3 DEF PruneAfterExport, Prune
    <3> QED BY <2>2, <3>1, <3>2 DEF Decided
  <2>4. CASE writer.at # "half"
    <3>1. sidecars' = sidecars
      BY <1>1, <2>4 DEF PruneAfterExport, Prune
    <3>2. CASE writer.at = "scan"
      <4>1. writer'.at = "prune" /\ writer'.doomed = Doomed(writer.limit)
        BY <1>1, <3>2 DEF PruneAfterExport, Prune
      <4> QED BY <2>2, <3>1, <4>1, DoomedOld DEF Decided
    <3>3. CASE writer.at = "prune"
      <4>1. /\ writer'.doomed = writer.doomed
            /\ (writer.doomed # {} /\ writer'.at = "half") \/ (writer.doomed = {} /\ writer'.at = "leftovers")
        BY <1>1, <3>3 DEF PruneAfterExport, Prune
      <4> QED BY <2>2, <3>1, <4>1 DEF Decided
    <3>4. CASE writer.at = "leftovers"
      <4>1. writer'.at = "idle" /\ writer'.doomed = writer.doomed
        BY <1>1, <3>4 DEF PruneAfterExport, Prune
      <4> QED BY <2>2, <3>1, <3>4, <4>1 DEF Decided
    <3> QED BY <1>1, <2>4, <3>2, <3>3, <3>4 DEF PruneAfterExport, Prune
  <2> QED BY <2>3, <2>4
<1>2. CASE PruneAsCommanded
  <2>1. writer.doomed = {}
    BY <1>2 DEF PruneAsCommanded, Prune, OneInside, Decided
  <2>2. Decided(writer)'
    BY <1>2, <2>1 DEF PruneAsCommanded, Decided, OneInside, Prune
  <2>3. CASE pruner.at = "half"
    <3>1. Min(pruner.doomed) \in pruner.doomed
      BY <2>3, NextDoomed DEF Decided
    <3>2. /\ pruner'.at = "prune" /\ pruner'.doomed = pruner.doomed \ {Min(pruner.doomed)}
          /\ sidecars' = sidecars \ {Min(pruner.doomed)}
      BY <1>2, <2>3 DEF PruneAsCommanded, Prune
    <3> QED BY <2>2, <3>1, <3>2 DEF Decided
  <2>4. CASE pruner.at # "half"
    <3>1. sidecars' = sidecars
      BY <1>2, <2>4 DEF PruneAsCommanded, Prune
    <3>2. CASE pruner.at = "scan"
      <4>1. pruner'.at = "prune" /\ pruner'.doomed = Doomed(pruner.limit)
        BY <1>2, <3>2 DEF PruneAsCommanded, Prune
      <4> QED BY <2>2, <3>1, <4>1, DoomedOld DEF Decided
    <3>3. CASE pruner.at = "prune"
      <4>1. /\ pruner'.doomed = pruner.doomed
            /\ (pruner.doomed # {} /\ pruner'.at = "half") \/ (pruner.doomed = {} /\ pruner'.at = "leftovers")
        BY <1>2, <3>3 DEF PruneAsCommanded, Prune
      <4> QED BY <2>2, <3>1, <4>1 DEF Decided
    <3>4. CASE pruner.at = "leftovers"
      <4>1. pruner'.at = "idle" /\ pruner'.doomed = pruner.doomed
        BY <1>2, <3>4 DEF PruneAsCommanded, Prune
      <4> QED BY <2>2, <3>1, <3>4, <4>1 DEF Decided
    <3> QED BY <1>2, <2>4, <3>2, <3>3, <3>4 DEF PruneAsCommanded, Prune
  <2> QED BY <2>3, <2>4
<1> QED BY <1>1, <1>2

LEMMA PruneKeeps ==
    ASSUME HistoryInv, PruneAfterExport \/ PruneAsCommanded
    PROVE  HistoryInv'
<1> USE DEF HistoryInv
<1>1. HistoryTypeOK' /\ Decided(writer)' /\ Decided(pruner)'
  BY PruneTyped, PruneKeepsDecided
<1>2. CASE PruneAfterExport
  <2>1. OneInside' /\ WavFirst' /\ Numbered'
    BY <1>2 DEF HistoryTypeOK, PruneAfterExport, Prune, OneInside, WavFirst, Numbered, Writing, Pruning
  <2>2. ListedHasAudio'
    BY <1>2 DEF HistoryTypeOK, PruneAfterExport, Prune, ListedHasAudio, OneInside, Writing, Pruning
  <2> QED BY <1>1, <2>1, <2>2
<1>3. CASE PruneAsCommanded
  <2>1. OneInside' /\ WavFirst' /\ Numbered'
    BY <1>3 DEF HistoryTypeOK, PruneAsCommanded, Prune, OneInside, WavFirst, Numbered, Writing, Pruning
  <2>2. ListedHasAudio'
    BY <1>3 DEF HistoryTypeOK, PruneAsCommanded, Prune, ListedHasAudio, OneInside, Writing, Pruning
  <2> QED BY <1>1, <2>1, <2>2
<1> QED BY <1>2, <1>3

LEMMA SettingTyped ==
    ASSUME HistoryTypeOK, SetMaxGb
    PROVE  settings' \in 0..MaxSettings
<1>1. settings \in 0..MaxSettings /\ settings < MaxSettings /\ settings' = settings + 1 /\ MaxSettings \in Nat
  BY HistoryAssumption DEF HistoryTypeOK, SetMaxGb, Saves
<1> QED BY <1>1

\* The setting, the lock it waits for, a kill and the replays, which only read.
LEMMA OthersKeep ==
    ASSUME HistoryInv, SetMaxGb \/ LockPrune \/ HistoryCut \/ Pick \/ AskReplay \/ Replayed
    PROVE  HistoryInv'
<1> USE HistoryAssumption
        DEF HistoryInv, HistoryTypeOK, OneInside, WavFirst, Numbered, ListedHasAudio, Writing, Pruning
<1>1. CASE SetMaxGb
  <2> PICK n \in Limits : allowed' = n /\ pruner' = [pruner EXCEPT !.at = "waits", !.limit = n]
    BY <1>1 DEF SetMaxGb, Saves
  <2>1. pruner' \in PrunerStates /\ pruner'.at = "waits" /\ pruner'.doomed = pruner.doomed
    BY DEF PrunerStates
  <2>2. settings' \in 0..MaxSettings
    BY <1>1, SettingTyped
  <2>3. HistoryTypeOK'
    BY <1>1, <2>1, <2>2 DEF SetMaxGb, Saves, PrunerStates
  <2> QED BY <1>1, <2>1, <2>3 DEF SetMaxGb, Saves, Decided
<1>2. CASE LockPrune
  BY <1>2 DEF LockPrune, Locked, Decided
<1>3. CASE HistoryCut
  <2>1. writer.at = "half" => Min(writer.doomed) \in Line
    BY NextDoomed DEF Decided
  <2>2. writer' \in WriterStates /\ writer'.at = "idle" /\ writer'.doomed = {}
    BY <1>3, WriterMoves DEF HistoryCut
  <2>3. reader' \in [at : {"idle", "picked", "queued"}, line : 0..MaxLine] /\ cut' \subseteq Line
    BY <1>3, <2>1 DEF HistoryCut
  <2>4. HistoryTypeOK'
    BY <1>3, <2>2, <2>3 DEF HistoryCut, WriterStates
  <2> QED BY <1>3, <2>2, <2>4 DEF HistoryCut, Decided
<1>4. CASE Pick \/ AskReplay \/ Replayed
  BY <1>4 DEF Listed, Pick, AskReplay, Replayed, Line, Decided
<1> QED BY <1>1, <1>2, <1>3, <1>4

\* Each step of the store but the narrator's own writes and its kill.
LEMMA HistoryStepKeeps == HistoryInv /\ HistoryStep => HistoryInv'
BY ExportKeeps, PruneKeeps, OthersKeep DEF HistoryStep

\* Nothing of the store changes: nothing of it breaks.
LEMMA HistoryStands == HistoryInv /\ UNCHANGED history => HistoryInv'
BY DEF history, HistoryInv, HistoryTypeOK, OneInside, WavFirst, Numbered, Decided, ListedHasAudio

----------------------------------------------------------------------------
\* "The newest line always stays", step by step.
LEMMA NewestStep ==
    ASSUME HistoryInv,
           HistoryStep \/ Heard \/ WriteTmp \/ CopyFails \/ HistoryCut \/ UNCHANGED history,
           NEW l \in sidecars, l \notin sidecars'
    PROVE  \E m \in sidecars' : m > l
<1> USE DEF HistoryInv
<1>1. CASE PruneAfterExport
  BY <1>1, PruneSpares DEF PruneAfterExport, HistoryTypeOK
<1>2. CASE PruneAsCommanded
  BY <1>2, PruneSpares DEF PruneAsCommanded, HistoryTypeOK
<1>3. CASE PlaceFile
  BY <1>3 DEF PlaceFile, Place
<1>4. CASE UNCHANGED sidecars
  BY <1>4
<1> QED BY <1>1, <1>2, <1>3, <1>4
        DEF HistoryStep, Heard, WriteTmp, CopyFails, HistoryCut, LockExport, SetMaxGb, Saves, LockPrune, Pick,
            AskReplay, Replayed, history

----------------------------------------------------------------------------
(* The job, the entry, and all of them together. *)

\* The job thread has a job that has not been handed off.
Engaged == worker.at \in {"start", "rewrites", "submits", "waits", "crashed"}

\* Where the job is tells its phase.
PhaseOf == [start |-> "queued", rewrites |-> "rewriting", submits |-> "generating", waits |-> "generating"]

OneJob ==
    /\ \A r \in Requests : req[r] = "begun" =>
           job = [of |-> r, phase |-> "queued"] /\ jobQueue = <<>> /\ ~Engaged
    /\ jobQueue # <<>> =>
           /\ Len(jobQueue) = 1 /\ job = [of |-> jobQueue[1], phase |-> "queued"]
           /\ req[jobQueue[1]] = "over" /\ ~Engaged
    /\ Engaged =>
           /\ Active /\ worker.of = job.of /\ req[job.of] = "over"
           /\ worker.at # "crashed" => job.phase = PhaseOf[worker.at]
    /\ Active => \/ req[job.of] = "begun" \/ jobQueue # <<>> \/ Engaged
    /\ worker.at # "idle" => worker.of \in Requests
    /\ Active => job.of \in Requests
    /\ Active \/ job.phase = "failed" => job.of \notin handedOff
    /\ \A r \in handedOff : req[r] = "over"

\* Without a fault of the file system.
Calm == faults = 0 =>
    /\ wav # "torn" /\ (meta => wav = "whole")
    /\ \A p \in Promoters :
         /\ at[p] \notin {"copying", "half"}
         /\ at[p] \in {"entered", "moved", "noted"} => dir
         /\ at[p] \in {"moved", "noted"} => wav = "whole"
         /\ at[p] = "noted" => partial \/ meta
         /\ at[p] \in {"failed", "swept", "removed", "raised", "ready"} => meta

\* Who holds the entry's WAV has seen its sidecar.
HeldIsEntered == faults = 0 /\ (WebHolds \/ NarratorHolds) => meta

IInv == TypeOK /\ HistoryInv /\ OneJob /\ Calm /\ HeldIsEntered

----------------------------------------------------------------------------
LEMMA StoresStart == Init => IInv
<1> SUFFICES ASSUME Init PROVE IInv
  OBVIOUS
<1> USE DEF Init, CacheInit, WebInit
<1>1. HistoryInv
  BY HistoryStarts
<1>2. CacheTypeOK
  <2>1. faults \in 0..MaxFaults
    BY CacheAssumption
  <2>2. at \in [Promoters -> Steps]
    BY DEF Steps
  <2> QED BY <2>1, <2>2 DEF CacheTypeOK
<1>3. WebTypeOK
  BY DEF WebTypeOK, Phases, Callers
<1>4. TypeOK
  BY <1>1, <1>2, <1>3, StoresAssumption DEF TypeOK, HistoryInv
<1>5. OneJob
  BY DEF OneJob, Engaged, Active, ActivePhases
<1>6. Calm /\ HeldIsEntered
  BY DEF Calm, HeldIsEntered, WebHolds, NarratorHolds, Callers
<1> QED BY <1>1, <1>4, <1>5, <1>6 DEF IInv

----------------------------------------------------------------------------
\* The cache's steps.
CacheStep(p) == Lookup(p) \/ Render(p) \/ Promote(p) \/ Finished(p)

LEMMA CacheTyped ==
    ASSUME CacheTypeOK, NEW p \in Promoters, CacheStep(p)
    PROVE  CacheTypeOK'
<1> USE DEF CacheTypeOK, Goes, Steps
<1>1. Fails => faults' \in 0..MaxFaults
  BY CacheAssumption DEF Fails
<1>2. CASE Lookup(p) \/ Render(p) \/ Finished(p)
  BY <1>2 DEF Lookup, Render, Finished
<1>3. CASE Promote(p)
  BY <1>1, <1>3 DEF Promote, Enter, MoveWav, CopyWav, NoDirectory, NotePartial, RenameMeta,
                    SweepPartial, SeesHalf, RemoveWav, RaiseError
<1> QED BY <1>2, <1>3 DEF CacheStep

\* Without a fault, a promotion fails only for the other's sidecar.
LEMMA CacheCalm ==
    ASSUME CacheTypeOK, Calm, NEW p \in Promoters, CacheStep(p)
    PROVE  Calm' /\ (meta => meta') /\ (faults' = 0 => faults = 0)
<1> USE DEF CacheTypeOK, Calm, CacheStep, Goes
<1>1. CASE Lookup(p)
  BY <1>1 DEF Lookup, Hit
<1>2. CASE Render(p) \/ Finished(p)
  BY <1>2 DEF Render, Finished
<1>3. CASE Enter(p) \/ MoveWav(p) \/ NoDirectory(p)
  BY <1>3 DEF Enter, MoveWav, NoDirectory
<1>4. CASE CopyWav(p) \/ NotePartial(p)
  BY <1>4, CacheAssumption DEF CopyWav, NotePartial, Fails
<1>5. CASE RenameMeta(p)
  BY <1>5 DEF RenameMeta
<1>6. CASE SweepPartial(p) \/ SeesHalf(p) \/ RemoveWav(p)
  BY <1>6 DEF SweepPartial, SeesHalf, HalfEntry, RemoveWav
<1>7. CASE RaiseError(p)
  BY <1>7 DEF RaiseError
<1> QED BY <1>1, <1>2, <1>3, <1>4, <1>5, <1>6, <1>7 DEF Promote

----------------------------------------------------------------------------
\* The web server's steps.

LEMMA WebTyped ==
    ASSUME WebTypeOK, OneJob, WebStep
    PROVE  WebTypeOK'
<1> USE DEF WebTypeOK, Reaches
<1>1. ASSUME NEW r \in Requests,
             SpeakHits(r) \/ SpeakRefused(r) \/ RequestReplay(r) \/ BeginJob(r) \/ Sounded(r)
      PROVE  WebTypeOK'
  BY <1>1 DEF SpeakHits, SpeakRefused, RequestReplay, BeginJob, Sounded, Phases
<1>2. ASSUME NEW r \in Requests, SubmitJob(r) PROVE WebTypeOK'
  <2>1. jobQueue' \in Seq(Requests)
    BY <1>2, AppendProperties DEF SubmitJob
  <2> QED BY <1>2, <2>1 DEF SubmitJob
<1>3. ASSUME NEW r \in Requests, AskSynthesis(r) PROVE WebTypeOK'
  <2>1. lane' \in Seq(Callers)
    BY <1>3, AppendProperties DEF AskSynthesis, Callers
  <2> QED BY <1>3, <2>1 DEF AskSynthesis
<1>4. ASSUME NEW r \in Requests, GetSynthesis(r) PROVE WebTypeOK'
  BY <1>4 DEF GetSynthesis, Gets
<1>5. CASE JobStep
  <2> USE DEF WorkerAt, WorkerEnds, Advance, Fail, Phases
  <2>1. CASE TakeJob
    <3>1. Head(jobQueue) \in Requests /\ Tail(jobQueue) \in Seq(Requests)
      BY <2>1, HeadTailProperties DEF TakeJob
    <3> QED BY <2>1, <3>1 DEF TakeJob
  <2>2. CASE StartJob \/ Rewritten
    BY <2>2 DEF StartJob, Rewritten
  <2>3. CASE SubmitSynthesis
    <3>1. lane' \in Seq(Callers)
      BY <2>3, AppendProperties DEF SubmitSynthesis, Callers
    <3> QED BY <2>3, <3>1 DEF SubmitSynthesis
  <2>4. CASE JobSynthesized
    <3>1. worker.of \in Requests
      BY <2>4 DEF JobSynthesized, OneJob
    <3> QED BY <2>4, <3>1 DEF JobSynthesized, SynthesisFailed, Gets
  <2>5. CASE JobDispatched \/ JobCrashed
    BY <2>5 DEF JobDispatched, JobCrashed
  <2> QED BY <1>5, <2>1, <2>2, <2>3, <2>4, <2>5 DEF JobStep
<1>6. CASE LaneWorks
  BY <1>6 DEF LaneWorks, web
<1>7. CASE LaneAnswers
  <2>1. lane' \in Seq(Callers)
    BY <1>7, HeadTailProperties DEF LaneAnswers
  <2> QED BY <1>7, <2>1 DEF LaneAnswers
<1> QED BY <1>1, <1>2, <1>3, <1>4, <1>5, <1>6, <1>7 DEF WebStep

\* One job, whichever step a request takes.
LEMMA RequestKeepsJob ==
    ASSUME WebTypeOK, OneJob, NEW r \in Requests,
           \/ SpeakHits(r) \/ SpeakRefused(r) \/ RequestReplay(r) \/ BeginJob(r) \/ SubmitJob(r)
           \/ AskSynthesis(r) \/ GetSynthesis(r) \/ Sounded(r)
    PROVE  OneJob'
<1> USE DEF WebTypeOK, OneJob, Engaged, Active, Reaches
<1>1. CASE \/ SpeakHits(r) \/ SpeakRefused(r) \/ RequestReplay(r)
           \/ AskSynthesis(r) \/ GetSynthesis(r) \/ Sounded(r)
  <2>1. UNCHANGED <<job, jobQueue, worker, handedOff>>
    BY <1>1 DEF SpeakHits, SpeakRefused, RequestReplay, AskSynthesis, GetSynthesis, Sounded
  <2>2. PICK to \in {"waits", "reads", "plays", "over"} :
           req[r] \notin {"begun", "over"} /\ req' = [req EXCEPT ![r] = to]
    BY <1>1 DEF SpeakHits, SpeakRefused, RequestReplay, AskSynthesis, GetSynthesis, Sounded
  <2> QED BY <2>1, <2>2
<1>2. CASE BeginJob(r)
  <2>1. /\ job' = [of |-> r, phase |-> "queued"] /\ req' = [req EXCEPT ![r] = "begun"] /\ req[r] = "new"
        /\ ~Active /\ UNCHANGED <<jobQueue, worker, handedOff>>
    BY <1>2 DEF BeginJob
  <2> QED BY <2>1 DEF ActivePhases
<1>3. CASE SubmitJob(r)
  <2>1. /\ req' = [req EXCEPT ![r] = "over"] /\ req[r] = "begun"
        /\ jobQueue' = Append(<<>>, r) /\ UNCHANGED <<job, worker, handedOff>>
    BY <1>3 DEF SubmitJob
  <2>2. jobQueue' # <<>> /\ Len(jobQueue') = 1 /\ jobQueue'[1] = r
    BY <2>1
  <2>3. job = [of |-> r, phase |-> "queued"] /\ ~Engaged
    BY <2>1
  <2>4. \A q \in Requests : req'[q] # "begun"
    <3> TAKE q \in Requests
    <3>1. req[q] = "begun" => q = r
      BY <2>3
    <3> QED BY <2>1, <3>1
  <2>5. req'[r] = "over" /\ (\A q \in handedOff : req'[q] = "over")
    BY <2>1
  <2> QED BY <2>1, <2>2, <2>3, <2>4, <2>5 DEF ActivePhases
<1> QED BY <1>1, <1>2, <1>3

\* One job, whichever step the job thread takes.
LEMMA WorkerKeepsJob ==
    ASSUME WebTypeOK, OneJob, JobStep
    PROVE  OneJob'
<1> USE DEF WebTypeOK, OneJob, Engaged, Active, PhaseOf, LegalNext, WorkerAt, WorkerEnds, Advance, Fail,
            ActivePhases
<1>1. CASE TakeJob
  <2>1. Head(jobQueue) = jobQueue[1] /\ Tail(jobQueue) = <<>>
    BY <1>1 DEF TakeJob
  <2> QED BY <1>1, <2>1 DEF TakeJob
<1>2. CASE StartJob
  BY <1>2 DEF StartJob
<1>3. CASE Rewritten
  BY <1>3 DEF Rewritten
<1>4. CASE SubmitSynthesis
  BY <1>4 DEF SubmitSynthesis
<1>5. CASE JobSynthesized
  BY <1>5 DEF JobSynthesized, SynthesisFailed
<1>6. CASE JobDispatched \/ JobCrashed
  BY <1>6 DEF JobDispatched, JobCrashed
<1> QED BY <1>1, <1>2, <1>3, <1>4, <1>5, <1>6 DEF JobStep

LEMMA JobStands == OneJob /\ UNCHANGED <<req, job, jobQueue, worker, handedOff>> => OneJob'
BY DEF OneJob, Engaged, Active

\* Who comes to hold the WAV has seen the sidecar.
LEMMA WebKeepsHeld ==
    ASSUME WebTypeOK, CacheTypeOK, Calm, HeldIsEntered, WebStep, UNCHANGED pass, meta => meta',
           faults' = 0 => faults = 0
    PROVE  HeldIsEntered'
<1> SUFFICES ASSUME faults' = 0, ~meta'
             PROVE  ~WebHolds' /\ ~NarratorHolds'
  BY DEF HeldIsEntered
<1>0. faults = 0 /\ ~meta /\ ~WebHolds /\ ~NarratorHolds /\ ~NarratorHolds'
  BY DEF HeldIsEntered, NarratorHolds
<1> USE DEF WebTypeOK, WebHolds, Reaches
<1>1. ASSUME NEW r \in Requests,
             \/ SpeakHits(r) \/ SpeakRefused(r) \/ RequestReplay(r) \/ BeginJob(r) \/ SubmitJob(r)
             \/ AskSynthesis(r) \/ GetSynthesis(r) \/ Sounded(r)
      PROVE  ~WebHolds'
  BY <1>0, <1>1 DEF SpeakHits, SpeakRefused, RequestReplay, BeginJob, SubmitJob, AskSynthesis, GetSynthesis,
                    Sounded, Hit, Gets, Callers
<1>2. CASE JobStep
  BY <1>0, <1>2 DEF JobStep, TakeJob, StartJob, Rewritten, SubmitSynthesis, JobSynthesized, JobDispatched,
                    JobCrashed, WorkerAt, WorkerEnds, Advance, Gets, Callers
<1>3. CASE LaneWorks
  BY <1>0, <1>3 DEF LaneWorks, web
<1>4. CASE LaneAnswers
  <2>1. at[Web] # "ready"
    BY <1>0, StoresAssumption DEF Calm
  <2>2. Head(lane) \in Callers
    BY <1>4, HeadTailProperties DEF LaneAnswers
  <2> QED BY <1>0, <1>4, <2>1, <2>2 DEF LaneAnswers
<1> QED BY <1>0, <1>1, <1>2, <1>3, <1>4 DEF WebStep

----------------------------------------------------------------------------
\* The cache and the web server, each beside what it leaves alone.
LEMMA CacheStands ==
    UNCHANGED cache =>
        (CacheTypeOK => CacheTypeOK') /\ (Calm => Calm') /\ (meta => meta') /\ (faults' = 0 => faults = 0)
BY DEF cache, CacheTypeOK, Calm

LEMMA WebStands == WebTypeOK /\ UNCHANGED web => WebTypeOK' /\ (WebHolds <=> WebHolds')
BY DEF web, WebTypeOK, WebHolds

\* A step of the web server.
LEMMA WebKeeps ==
    ASSUME IInv, WebWorks
    PROVE  IInv'
<1> USE DEF IInv, TypeOK
<1>1. CacheTypeOK' /\ Calm' /\ (meta => meta') /\ (faults' = 0 => faults = 0)
  <2>1. ASSUME NEW p \in Promoters, CacheStep(p)
        PROVE  CacheTypeOK' /\ Calm' /\ (meta => meta') /\ (faults' = 0 => faults = 0)
    BY <2>1, CacheTyped, CacheCalm
  <2>2. UNCHANGED cache \/ CacheStep(Web)
    BY DEF WebWorks, WebStep, SpeakHits, SpeakRefused, RequestReplay, BeginJob, SubmitJob, AskSynthesis,
           GetSynthesis, Sounded, JobStep, TakeJob, StartJob, Rewritten, SubmitSynthesis, JobSynthesized,
           JobDispatched, JobCrashed, LaneWorks, LaneAnswers, CacheStep
  <2> QED BY <2>1, <2>2, CacheStands, StoresAssumption
<1>2. WebTypeOK'
  BY WebTyped DEF WebWorks
<1>3. OneJob'
  <2>1. CASE LaneWorks \/ LaneAnswers
    BY <2>1, JobStands DEF LaneWorks, LaneAnswers, web
  <2> QED BY <2>1, RequestKeepsJob, WorkerKeepsJob DEF WebWorks, WebStep
<1>4. HeldIsEntered'
  BY <1>1, WebKeepsHeld DEF WebWorks
<1>5. HistoryInv'
  BY HistoryStands DEF WebWorks
<1> QED BY <1>1, <1>2, <1>3, <1>4, <1>5 DEF WebWorks, HistoryInv

\* A step of the narrator's in the cache: a lookup, a promotion, its end.
LEMMA NarratorInCache ==
    ASSUME IInv, CacheStep(Narrator), UNCHANGED web, HistoryInv',
           pass' \in {"idle", "looks", "cached", "own", "export cached", "export own"},
           taken' \in 0..MaxLines, kills' \in 0..MaxKills,
           NarratorHolds' => NarratorHolds
    PROVE  IInv'
<1> USE DEF IInv, TypeOK
<1>1. CacheTypeOK' /\ Calm' /\ (meta => meta') /\ (faults' = 0 => faults = 0)
  BY CacheTyped, CacheCalm, StoresAssumption
<1>2. WebTypeOK' /\ (WebHolds <=> WebHolds')
  BY WebStands
<1>3. OneJob'
  BY JobStands DEF web
<1>4. HeldIsEntered'
  BY <1>1, <1>2 DEF HeldIsEntered
<1> QED BY <1>1, <1>2, <1>3, <1>4 DEF HistoryInv

\* A step of the narrator's, or of a command, outside the cache.
LEMMA OutsideCache ==
    ASSUME IInv, UNCHANGED <<cache, web>>, HistoryInv',
           pass' \in {"idle", "looks", "cached", "own", "export cached", "export own"},
           taken' \in 0..MaxLines, kills' \in 0..MaxKills,
           NarratorHolds' => NarratorHolds \/ (faults = 0 => meta)
    PROVE  IInv'
<1> USE DEF IInv, TypeOK
<1>1. CacheTypeOK' /\ Calm' /\ UNCHANGED <<meta, faults>>
  BY CacheStands DEF cache
<1>2. WebTypeOK' /\ (WebHolds <=> WebHolds')
  BY WebStands
<1>3. OneJob'
  BY JobStands DEF web
<1>4. HeldIsEntered'
  BY <1>1, <1>2 DEF HeldIsEntered
<1> QED BY <1>1, <1>2, <1>3, <1>4 DEF HistoryInv

\* Every step keeps the invariant.
LEMMA StoresNext == IInv /\ [Next]_vars => IInv'
<1> SUFFICES ASSUME IInv, [Next]_vars PROVE IInv'
  OBVIOUS
<1>0. pass \in {"idle", "looks", "cached", "own", "export cached", "export own"}
      /\ taken \in 0..MaxLines /\ kills \in 0..MaxKills
  BY DEF IInv, TypeOK
<1>1. CASE TakeLine
  <2>1. taken' \in 0..MaxLines
    BY <1>0, <1>1, StoresAssumption DEF TakeLine
  <2> QED BY <1>0, <1>1, <2>1, OutsideCache, HistoryStands DEF TakeLine, NarratorHolds, IInv
<1>2. CASE NarratorWorks
  BY <1>0, <1>2, NarratorInCache, HistoryStands DEF NarratorWorks, NarratorHolds, CacheStep, IInv
<1>3. CASE PlayEntry
  <2>1. faults = 0 => meta
    BY <1>3, StoresAssumption DEF PlayEntry, IInv, Calm
  <2> QED BY <1>0, <1>3, <2>1, OutsideCache, HistoryStands DEF PlayEntry, IInv
<1>4. CASE FallBack
  <2>1. CASE UNCHANGED cache /\ pass' = "own"
    BY <1>0, <1>4, <2>1, OutsideCache, HistoryStands DEF FallBack, NarratorHolds, IInv
  <2>2. CASE Finished(Narrator) /\ pass' = "idle"
    BY <1>0, <1>4, <2>2, NarratorInCache, HistoryStands DEF FallBack, NarratorHolds, CacheStep, IInv
  <2> QED BY <1>4, <2>1, <2>2 DEF FallBack
<1>5. CASE LineHeard
  BY <1>0, <1>5, OutsideCache, ExportKeeps DEF LineHeard, NarratorHolds, IInv
<1>6. CASE PassEnds
  BY <1>0, <1>6, NarratorInCache, HistoryStands DEF PassEnds, NarratorHolds, CacheStep, IInv
<1>7. CASE StoreStep
  BY <1>0, <1>7, OutsideCache, HistoryStepKeeps DEF StoreStep, NarratorHolds, IInv
<1>8. CASE ExportWrites \/ ExportFails
  BY <1>0, <1>8, OutsideCache, ExportKeeps DEF ExportWrites, ExportFails, NarratorHolds, IInv
<1>9. CASE KillNarrator
  <2>1. kills' \in 0..MaxKills
    <3>1. kills < MaxKills /\ kills' = kills + 1
      BY <1>9 DEF KillNarrator
    <3>2. MaxKills \in Nat /\ kills \in 0..MaxKills
      BY <1>0, StoresAssumption
    <3> QED BY <3>1, <3>2
  <2> QED BY <1>0, <1>9, <2>1, NarratorInCache, OthersKeep DEF KillNarrator, NarratorHolds, CacheStep, IInv
<1>10. CASE WebWorks
  BY <1>10, WebKeeps
<1>11. CASE UNCHANGED vars
  BY <1>0, <1>11, OutsideCache, HistoryStands DEF vars, NarratorHolds, IInv
<1> QED BY <1>1, <1>2, <1>3, <1>4, <1>5, <1>6, <1>7, <1>8, <1>9, <1>10, <1>11 DEF Next

\* The invariant holds of every behaviour.
THEOREM StoresInvariant == Spec => []IInv
<1>1. Init => IInv
  BY StoresStart
<1>2. IInv /\ [Next]_vars => IInv'
  BY StoresNext
<1> QED BY <1>1, <1>2, PTL DEF Spec

\* Every variable keeps its type.
THEOREM StoresTyped == Spec => []TypeOK
<1>1. IInv => TypeOK
  BY DEF IInv
<1> QED BY <1>1, StoresInvariant, PTL

\* A job that is active, for which the others are refused with 409, is on its
\* way; one that was handed off is never said to have failed (job_tracker.py,
\* http_routing.py).
THEOREM JobsEndHolds == Spec => []JobsEnd
<1>1. IInv => JobsEnd
  <2> SUFFICES ASSUME IInv PROVE JobsEnd
    OBVIOUS
  <2>1. jobQueue # <<>> => Contains(jobQueue, job.of)
    BY DEF IInv, OneJob, Contains
  <2> QED BY <2>1 DEF IInv, OneJob, Engaged, JobsEnd
<1> QED BY <1>1, StoresInvariant, PTL

LEMMA FaultsCount == CacheTypeOK => faults \in Nat
BY CacheAssumption DEF CacheTypeOK

\* The WAV a lookup or a promotion gave is there while it is read or played,
\* whoever promotes over it, is killed or fails (cache_store.py).
THEOREM HitIsPlayableHolds == Spec => []HitIsPlayable
<1>1. IInv => HitIsPlayable
  <2> SUFFICES ASSUME IInv PROVE HitIsPlayable
    OBVIOUS
  <2>1. faults \in Nat
    BY FaultsCount DEF IInv, TypeOK
  <2>2. faults = 0 /\ (WebHolds \/ NarratorHolds) => wav = "whole"
    BY DEF IInv, Calm, HeldIsEntered
  <2> QED BY <2>1, <2>2 DEF HitIsPlayable
<1> QED BY <1>1, StoresInvariant, PTL

\* "WAV first and sidecar last" (speech_history.py): what is listed has its
\* audio, however the narrator is killed and whoever prunes.
THEOREM ListedHasAudioHolds == Spec => []ListedHasAudio
<1>1. IInv => ListedHasAudio
  BY DEF IInv, HistoryInv
<1> QED BY <1>1, StoresInvariant, PTL

\* "The newest line always stays" (speech_history.py), whatever the limit.
THEOREM NewestStaysHolds == Spec => NewestStays
<1>1. IInv /\ [Next]_vars =>
        [\A l \in sidecars : l \notin sidecars' => \E m \in sidecars' : m > l]_history
  <2> SUFFICES ASSUME IInv, [Next]_vars, NEW l \in sidecars, l \notin sidecars'
               PROVE  \E m \in sidecars' : m > l
    OBVIOUS
  <2>1. HistoryStep \/ Heard \/ WriteTmp \/ CopyFails \/ HistoryCut \/ UNCHANGED history
    BY DEF Next, vars, TakeLine, NarratorWorks, PlayEntry, FallBack, LineHeard, PassEnds, StoreStep,
           ExportWrites, ExportFails, KillNarrator, WebWorks
  <2> QED BY <2>1, NewestStep DEF IInv
<1> QED BY <1>1, StoresInvariant, PTL DEF Spec, NewestStays
=============================================================================
