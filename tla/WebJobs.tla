------------------------------ MODULE WebJobs ------------------------------
(***************************************************************************)
(* The web server (http_routing.py, job_tracker.py, job_state.py,          *)
(* web_server.py): requests on threads of their own, one speak job at a    *)
(* time on the job thread, and all synthesis on one more thread, which     *)
(* both the job and /api/synthesize wait for.                              *)
(*                                                                         *)
(* The tracker names no job: a transition or a failure is always of its    *)
(* current one.                                                            *)
(***************************************************************************)
EXTENDS CacheStore, Sequences, SequencesExt

CONSTANTS Requests,  \* requests, each of them one of Kinds
          Kinds,     \* "rewrite" and "passthrough" speak, "synthesize", "replay"
          Web,       \* the promoter that is the synthesis thread
          None

VARIABLES req,      \* where each request is
          kind,     \* what each request asks
          job,      \* JobTracker: whose job, and its phase
          jobQueue, \* jobs handed to the job thread
          worker,   \* where the job thread is, and with whose job
          lane,     \* calls that wait for the synthesis thread; the first runs
          answer,   \* what each call gave, until its caller goes on
          \* history
          handedOff \* jobs that were handed off

web == <<req, kind, job, jobQueue, worker, lane, answer, handedOff>>

Phases == {"none", "queued", "rewriting", "generating", "handed_off", "failed"}
ActivePhases == {"queued", "rewriting", "generating"}
Callers == Requests \cup {"job"}

WebTypeOK ==
    /\ req \in [Requests -> {"new", "begun", "waits", "reads", "plays", "over"}]
    /\ kind \in [Requests -> Kinds]
    /\ job \in [of : Requests \cup {None}, phase : Phases]
    /\ jobQueue \in Seq(Requests)
    /\ worker \in [of : Requests \cup {None},
                   at : {"idle", "start", "rewrites", "submits", "waits", "crashed", "dispatches"}]
    /\ lane \in Seq(Callers) /\ answer \in [Callers -> {"none", "wav", "error"}]
    /\ handedOff \subseteq Requests

WebInit ==
    /\ req = [r \in Requests |-> "new"] /\ kind \in [Requests -> Kinds]
    /\ job = [of |-> None, phase |-> "none"]
    /\ jobQueue = <<>> /\ worker = [of |-> None, at |-> "idle"]
    /\ lane = <<>> /\ answer = [c \in Callers |-> "none"]
    /\ handedOff = {}

Active == job.phase \in ActivePhases

Reaches(r, from, to) == req[r] = from /\ req' = [req EXCEPT ![r] = to]

----------------------------------------------------------------------------
\* Requests.  What is looked up and begun is under one lock.

Speaks(r) == kind[r] \in {"rewrite", "passthrough"}

\* /api/speak of what is cached: a thread of its own plays it.
SpeakHits(r) ==
    /\ Speaks(r) /\ Hit
    /\ Reaches(r, "new", "plays")
    /\ UNCHANGED <<kind, job, jobQueue, worker, lane, answer, handedOff, cache>>

\* 409 while a job is active.
SpeakRefused(r) ==
    /\ Speaks(r) /\ ~Hit /\ Active
    /\ Reaches(r, "new", "over")
    /\ UNCHANGED <<kind, job, jobQueue, worker, lane, answer, handedOff, cache>>

\* /api/replay: played likewise, or 404.
RequestReplay(r) ==
    /\ kind[r] = "replay"
    /\ Reaches(r, "new", IF Hit THEN "plays" ELSE "over")
    /\ UNCHANGED <<kind, job, jobQueue, worker, lane, answer, handedOff, cache>>

BeginJob(r) ==
    /\ Speaks(r) /\ ~Hit /\ ~Active
    /\ Reaches(r, "new", "begun")
    /\ job' = [of |-> r, phase |-> "queued"]
    /\ UNCHANGED <<kind, jobQueue, worker, lane, answer, handedOff, cache>>

\* Handed to the job thread once the lock is released.
SubmitJob(r) ==
    /\ Reaches(r, "begun", "over")
    /\ jobQueue' = Append(jobQueue, r)
    /\ UNCHANGED <<kind, job, worker, lane, answer, handedOff, cache>>

\* /api/synthesize waits for the synthesis thread.
AskSynthesis(r) ==
    /\ kind[r] = "synthesize"
    /\ Reaches(r, "new", "waits")
    /\ lane' = Append(lane, r)
    /\ UNCHANGED <<kind, job, jobQueue, worker, answer, handedOff, cache>>

\* What the call gave, taken by its caller.
Gets(c, what) == answer[c] = what /\ answer' = [answer EXCEPT ![c] = "none"]

GetSynthesis(r) ==
    /\ \/ Gets(r, "wav") /\ Reaches(r, "waits", "reads")
       \/ Gets(r, "error") /\ Reaches(r, "waits", "over")
    /\ UNCHANGED <<kind, job, jobQueue, worker, lane, handedOff, cache>>

\* The bytes are read, or played: by the narrator if it answers, else here.
Sounded(r) ==
    /\ Reaches(r, "reads", "over") \/ Reaches(r, "plays", "over")
    /\ UNCHANGED <<kind, job, jobQueue, worker, lane, answer, handedOff, cache>>

----------------------------------------------------------------------------
\* The job thread: _run_speak_job.

WorkerAt(from, to) == worker.at = from /\ worker' = [worker EXCEPT !.at = to]
WorkerEnds == worker' = [of |-> None, at |-> "idle"]

LegalNext == [queued |-> {"rewriting", "generating", "failed"}, rewriting |-> {"generating", "failed"},
              generating |-> {"handed_off", "failed"}, handed_off |-> {}, failed |-> {}, none |-> {}]

\* transition: raised, and so the pipeline crashes, when it is not legal.
Advance(phase, from, to) ==
    IF phase \in LegalNext[job.phase]
    THEN WorkerAt(from, to) /\ job' = [job EXCEPT !.phase = phase]
    ELSE WorkerAt(from, "crashed") /\ UNCHANGED job

Fail == job' = [job EXCEPT !.phase = "failed"]

\* (Mistake to rule out: the failure is not recorded.)
Forget == UNCHANGED job

TakeJob ==
    /\ worker.at = "idle" /\ jobQueue # <<>>
    /\ worker' = [of |-> Head(jobQueue), at |-> "start"] /\ jobQueue' = Tail(jobQueue)
    /\ UNCHANGED <<req, kind, job, lane, answer, handedOff, cache>>

StartJob ==
    /\ worker.at = "start"
    /\ IF kind[worker.of] = "rewrite" THEN Advance("rewriting", "start", "rewrites")
                                      ELSE Advance("generating", "start", "submits")
    /\ UNCHANGED <<req, kind, jobQueue, lane, answer, handedOff, cache>>

\* The rewriter returns; or fails, and so does the job; or raises anything
\* else.
Rewritten ==
    /\ worker.at = "rewrites"
    /\ \/ Advance("generating", "rewrites", "submits")
       \/ Fail /\ WorkerEnds
       \/ WorkerAt("rewrites", "crashed") /\ UNCHANGED job
    /\ UNCHANGED <<req, kind, jobQueue, lane, answer, handedOff, cache>>

SubmitSynthesis ==
    /\ WorkerAt("submits", "waits")
    /\ lane' = Append(lane, "job")
    /\ UNCHANGED <<req, kind, job, jobQueue, answer, handedOff, cache>>

\* What synthesis raised fails the job.
SynthesisFailed == Fail

JobSynthesized ==
    /\ worker.at = "waits"
    /\ \/ Gets("job", "wav") /\ Advance("handed_off", "waits", "dispatches") /\ handedOff' = handedOff \cup {worker.of}
       \/ Gets("job", "error") /\ SynthesisFailed /\ WorkerEnds /\ UNCHANGED handedOff
    /\ UNCHANGED <<req, kind, jobQueue, lane, cache>>

\* Whatever playing it raises is logged; the job thread is held meanwhile.
JobDispatched ==
    /\ worker.at = "dispatches" /\ WorkerEnds
    /\ UNCHANGED <<req, kind, job, jobQueue, lane, answer, handedOff, cache>>

\* The last resort: the current job fails, whosever it is.
JobCrashed ==
    /\ worker.at = "crashed" /\ Fail /\ WorkerEnds
    /\ UNCHANGED <<req, kind, jobQueue, lane, answer, handedOff, cache>>

JobStep ==
    \/ TakeJob \/ StartJob \/ Rewritten \/ SubmitSynthesis \/ JobSynthesized \/ JobDispatched \/ JobCrashed

----------------------------------------------------------------------------
\* The synthesis thread: _synthesize_to_cache for the first call that waits.
\* (One that missed may find that rendering raises.)

LaneWorks ==
    /\ lane # <<>>
    /\ Lookup(Web) \/ Render(Web) \/ Promote(Web)
    /\ UNCHANGED web

LaneAnswers ==
    /\ lane # <<>>
    /\ \/ at[Web] = "ready" /\ answer' = [answer EXCEPT ![Head(lane)] = "wav"]
       \/ at[Web] \in {"missed", "raised"} /\ answer' = [answer EXCEPT ![Head(lane)] = "error"]
    /\ lane' = Tail(lane)
    /\ Finished(Web)
    /\ UNCHANGED <<req, kind, job, jobQueue, worker, handedOff>>

WebStep ==
    \/ \E r \in Requests :
         \/ SpeakHits(r) \/ SpeakRefused(r) \/ RequestReplay(r) \/ BeginJob(r) \/ SubmitJob(r)
         \/ AskSynthesis(r) \/ GetSynthesis(r) \/ Sounded(r)
    \/ JobStep
    \/ LaneWorks \/ LaneAnswers

\* Who holds the path of the entry's WAV, to read or to play it.
WebHolds ==
    \/ \E r \in Requests : req[r] \in {"reads", "plays"}
    \/ \E c \in Callers : answer[c] = "wav"
    \/ worker.at = "dispatches"

----------------------------------------------------------------------------
\* A job that is active, for which every other request is refused, is on its
\* way: its request is about to submit it, the job thread will take it, or has
\* it.  And one that was handed off is never said to have failed.
JobsEnd ==
    /\ Active => \/ req[job.of] = "begun" \/ Contains(jobQueue, job.of)
                 \/ worker.of = job.of /\ worker.at # "dispatches"
    /\ job.phase = "failed" => job.of \notin handedOff
=============================================================================
