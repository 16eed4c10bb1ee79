----------------------------- MODULE CacheStore -----------------------------
(***************************************************************************)
(* One entry of the audio cache (cache_store.py): full.wav and meta.json   *)
(* in a directory of their own, looked up and promoted by two processes,   *)
(* the narrator and the web server, without a lock.  Both write the        *)
(* sidecar under the same temporary name.                                  *)
(***************************************************************************)
EXTENDS Naturals

CONSTANTS Promoters,  \* "narrator" and the web server's one synthesis thread
          MaxFaults   \* errors of the file system

ASSUME CacheAssumption == MaxFaults \in Nat

VARIABLES dir,      \* the entry's directory is there
          wav,      \* its full.wav
          meta,     \* its meta.json
          partial,  \* meta.json.partial
          at,       \* where each promoter is
          staged,   \* promoters whose own WAV is still where they made it
          faults

cache == <<dir, wav, meta, partial, at, staged, faults>>

Steps == {"idle", "missed", "rendered", "entered", "copying", "moved", "noted",
          "failed", "swept", "half", "removed", "raised", "ready"}

CacheTypeOK ==
    /\ dir \in BOOLEAN /\ meta \in BOOLEAN /\ partial \in BOOLEAN
    /\ wav \in {"none", "torn", "whole"}
    /\ at \in [Promoters -> Steps] /\ staged \subseteq Promoters
    /\ faults \in 0..MaxFaults

CacheInit ==
    /\ dir = FALSE /\ wav = "none" /\ meta = FALSE /\ partial = FALSE
    /\ at = [p \in Promoters |-> "idle"] /\ staged = {}
    /\ faults = 0

Goes(p, from, to) == at[p] = from /\ at' = [at EXCEPT ![p] = to]

Fails == faults < MaxFaults /\ faults' = faults + 1

\* lookup: a WAV that is not empty, and a sidecar that parses and names this
\* hash.  ("torn" is a copy under way, which has a size.)
Hit == wav # "none" /\ meta

\* A hit gives the entry's WAV; a miss is rendered first.
Lookup(p) ==
    /\ Goes(p, "idle", IF Hit THEN "ready" ELSE "missed")
    /\ UNCHANGED <<dir, wav, meta, partial, staged, faults>>

\* The promoter's own WAV is there, and it promotes.
Render(p) ==
    /\ Goes(p, "missed", "rendered")
    /\ staged' = staged \cup {p}
    /\ UNCHANGED <<dir, wav, meta, partial, faults>>

Enter(p) ==
    /\ Goes(p, "rendered", "entered")
    /\ dir' = TRUE
    /\ UNCHANGED <<wav, meta, partial, staged, faults>>

\* os.replace: the WAV is the entry's, in one step.
MoveWav(p) ==
    /\ dir
    /\ Goes(p, "entered", "moved")
    /\ wav' = "whole" /\ staged' = staged \ {p}
    /\ UNCHANGED <<dir, meta, partial, faults>>

\* It cannot be moved (another volume): it is copied over what is there.
CopyWav(p) ==
    /\ \/ dir /\ Fails /\ Goes(p, "entered", "copying") /\ wav' = "torn" /\ UNCHANGED staged
       \/ Goes(p, "copying", "moved") /\ wav' = "whole" /\ staged' = staged \ {p} /\ UNCHANGED faults
    /\ UNCHANGED <<dir, meta, partial>>

\* The directory was removed meanwhile: neither moves it.
NoDirectory(p) ==
    /\ ~dir
    /\ Goes(p, "entered", "failed")
    /\ UNCHANGED <<dir, wav, meta, partial, staged, faults>>

NotePartial(p) ==
    /\ \/ Goes(p, "moved", "noted") /\ partial' = TRUE /\ UNCHANGED faults
       \/ Goes(p, "moved", "failed") /\ Fails /\ UNCHANGED partial
    /\ UNCHANGED <<dir, wav, meta, staged>>

\* The second of two to rename the one temporary name finds it gone.
RenameMeta(p) ==
    /\ IF partial THEN Goes(p, "noted", "ready") /\ meta' = TRUE
                  ELSE Goes(p, "noted", "failed") /\ UNCHANGED meta
    /\ partial' = FALSE
    /\ UNCHANGED <<dir, wav, staged, faults>>

\* "Best-effort cleanup: leave no half-written cache entry", in steps.
SweepPartial(p) ==
    /\ Goes(p, "failed", "swept")
    /\ partial' = FALSE
    /\ UNCHANGED <<dir, wav, meta, staged, faults>>

\* (Mistake to rule out: the sidecar is not looked for.)
AnyWav == wav # "none"

HalfEntry == wav # "none" /\ ~meta

SeesHalf(p) ==
    /\ Goes(p, "swept", IF HalfEntry THEN "half" ELSE "removed")
    /\ UNCHANGED <<dir, wav, meta, partial, staged, faults>>

RemoveWav(p) ==
    /\ Goes(p, "half", "removed")
    /\ wav' = "none"
    /\ UNCHANGED <<dir, meta, partial, staged, faults>>

\* The directory goes when nothing is left in it; CachePromotionError.
RaiseError(p) ==
    /\ Goes(p, "removed", "raised")
    /\ dir' = (wav # "none" \/ meta \/ partial)
    /\ UNCHANGED <<wav, meta, partial, staged, faults>>

Promote(p) ==
    \/ Enter(p) \/ MoveWav(p) \/ CopyWav(p) \/ NoDirectory(p) \/ NotePartial(p) \/ RenameMeta(p)
    \/ SweepPartial(p) \/ SeesHalf(p) \/ RemoveWav(p) \/ RaiseError(p)

\* What was made is used, or given up; its own WAV is removed.
Finished(p) ==
    /\ at' = [at EXCEPT ![p] = "idle"]
    /\ staged' = staged \ {p}
    /\ UNCHANGED <<dir, wav, meta, partial, faults>>
=============================================================================
