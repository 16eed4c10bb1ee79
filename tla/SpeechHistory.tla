--------------------------- MODULE SpeechHistory ---------------------------
(***************************************************************************)
(* The speech history on disk (speech_history.py): of every line heard, a  *)
(* WAV and a sidecar, written by the narrator and pruned by it and by      *)
(* `history max-gb`, one at a time under a file lock, which a process that *)
(* is killed lets go of.  Reads take no lock (history_replay.py, cli.py).  *)
(*                                                                         *)
(* Lines are numbered in the order of their files' names, which is that in *)
(* which they were heard.  Each takes one unit of the space allowed.       *)
(***************************************************************************)
EXTENDS Integers, FiniteSets, FiniteSetsExt

CONSTANTS MaxLine,    \* lines ever exported
          MaxBefore,  \* of them, before the narrator started
          Limits,     \* the units max_gb may allow: 0 when one line is more
          MaxSettings \* how often max_gb is set

ASSUME HistoryAssumption ==
    MaxLine \in Nat /\ MaxBefore \in 0..MaxLine /\ Limits \subseteq Nat /\ MaxSettings \in Nat

VARIABLES wavs, sidecars, \* the files, by line
          tmps,           \* temporary files: <<line, "wav" or "json">>
          allowed,        \* max_gb in history.toml
          writer,         \* the narrator's export: where, of which line, allowed what
          pruner,         \* the command's prune
          reader,         \* a replay: where, and the line it picked
          settings,       \* settings made
          \* history
          cut             \* lines a writer that was killed was about to remove

history == <<wavs, sidecars, tmps, allowed, writer, pruner, reader, settings, cut>>

Line == 1..MaxLine
Writing == {"copying", "placing", "noting", "naming"}
Pruning == {"scan", "prune", "half", "leftovers"}

HistoryTypeOK ==
    /\ wavs \subseteq Line /\ sidecars \subseteq Line /\ tmps \subseteq Line \X {"wav", "json"}
    /\ allowed \in Limits
    /\ writer \in [at : {"idle", "heard"} \cup Writing \cup Pruning, line : 0..MaxLine, limit : Limits, doomed : SUBSET Line]
    /\ pruner \in [at : {"idle", "waits"} \cup Pruning, limit : Limits, doomed : SUBSET Line]
    /\ reader \in [at : {"idle", "picked", "queued"}, line : 0..MaxLine]
    /\ settings \in 0..MaxSettings /\ cut \subseteq Line

HistoryInit ==
    /\ \E n \in 0..MaxBefore :
         /\ wavs = 1..n /\ sidecars = 1..n
         /\ allowed \in Limits
         /\ writer = [at |-> "idle", line |-> n, limit |-> allowed, doomed |-> {}]
    /\ tmps = {}
    /\ pruner = [at |-> "idle", limit |-> allowed, doomed |-> {}]
    /\ reader = [at |-> "idle", line |-> 0]
    /\ settings = 0 /\ cut = {}

\* The file lock: what is under it is in one of these places.
Locked == writer.at \in Writing \cup Pruning \/ pruner.at \in Pruning

----------------------------------------------------------------------------
\* export

\* The settings are read before the lock is asked for.
Heard ==
    /\ writer.at = "idle" /\ writer.line < MaxLine
    /\ writer' = [writer EXCEPT !.at = "heard", !.line = @ + 1, !.limit = allowed]
    /\ UNCHANGED <<wavs, sidecars, tmps, allowed, pruner, reader, settings, cut>>

LockExport ==
    /\ writer.at = "heard" /\ ~Locked
    /\ writer' = [writer EXCEPT !.at = "copying"]
    /\ UNCHANGED <<wavs, sidecars, tmps, allowed, pruner, reader, settings, cut>>

Writes(from, to) == writer.at = from /\ writer' = [writer EXCEPT !.at = to]

\* Each file is written under a temporary name and renamed into place.
\* (Mistake to rule out: the sidecar first.)
JsonFirst == "json"

First == "wav"
Second == IF First = "wav" THEN "json" ELSE "wav"

WriteTmp ==
    /\ \/ Writes("copying", "placing") /\ tmps' = tmps \cup {<<writer.line, First>>}
       \/ Writes("noting", "naming") /\ tmps' = tmps \cup {<<writer.line, Second>>}
    /\ UNCHANGED <<wavs, sidecars, allowed, pruner, reader, settings, cut>>

\* What was heard is gone: the export raises, and is logged.
CopyFails ==
    /\ Writes("copying", "idle")
    /\ UNCHANGED <<wavs, sidecars, tmps, allowed, pruner, reader, settings, cut>>

Place(kind) ==
    /\ tmps' = tmps \ {<<writer.line, kind>>}
    /\ IF kind = "wav" THEN wavs' = wavs \cup {writer.line} /\ UNCHANGED sidecars
                       ELSE sidecars' = sidecars \cup {writer.line} /\ UNCHANGED wavs

PlaceFile ==
    /\ \/ Writes("placing", "noting") /\ Place(First)
       \/ Writes("naming", "scan") /\ Place(Second)
    /\ UNCHANGED <<allowed, pruner, reader, settings, cut>>

----------------------------------------------------------------------------
\* _prune_unlocked, by the one that has the lock.

\* (Mistake to rule out: the newest may go as well.)
AllOf(lines) == lines

\* A line's size is its WAV's; a sidecar alone weighs nothing.
ButNewest(lines) == IF lines = {} THEN {} ELSE lines \ {Max(lines)}

\* The oldest, until what is left is within the limit.
Doomed(limit) ==
    {l \in ButNewest(sidecars) : Cardinality({m \in wavs \cap sidecars : m >= l}) > limit}

\* One of the two: x is it now, y when it has gone on.
Prune(x, y) ==
    /\ \/ /\ x.at = "scan" /\ y = [x EXCEPT !.at = "prune", !.doomed = Doomed(x.limit)]
          /\ UNCHANGED <<wavs, sidecars, tmps>>
       \/ /\ x.at = "prune" /\ x.doomed # {} /\ y = [x EXCEPT !.at = "half"]
          /\ wavs' = wavs \ {Min(x.doomed)}
          /\ UNCHANGED <<sidecars, tmps>>
       \/ /\ x.at = "half" /\ y = [x EXCEPT !.at = "prune", !.doomed = @ \ {Min(@)}]
          /\ sidecars' = sidecars \ {Min(x.doomed)}
          /\ UNCHANGED <<wavs, tmps>>
       \/ /\ x.at = "prune" /\ x.doomed = {} /\ y = [x EXCEPT !.at = "leftovers"]
          /\ UNCHANGED <<wavs, sidecars, tmps>>
       \* What an export that was cut short left, if it is old enough.
       \/ /\ x.at = "leftovers" /\ y = [x EXCEPT !.at = "idle"]
          /\ \/ tmps' = {} /\ wavs' = wavs \cap sidecars
             \/ UNCHANGED <<tmps, wavs>>
          /\ UNCHANGED sidecars
    /\ UNCHANGED <<allowed, reader, settings, cut>>

PruneAfterExport == Prune(writer, writer') /\ UNCHANGED pruner

PruneAsCommanded == Prune(pruner, pruner') /\ UNCHANGED writer

\* history.toml is read, changed and written whole.
Saves(n) == allowed' = n

\* `history max-gb`: the setting is saved, then the store is pruned to it.
SetMaxGb ==
    /\ pruner.at = "idle" /\ settings < MaxSettings
    /\ \E n \in Limits :
         Saves(n) /\ pruner' = [pruner EXCEPT !.at = "waits", !.limit = n]
    /\ settings' = settings + 1
    /\ UNCHANGED <<wavs, sidecars, tmps, writer, reader, cut>>

LockPrune ==
    /\ pruner.at = "waits" /\ ~Locked
    /\ pruner' = [pruner EXCEPT !.at = "scan"]
    /\ UNCHANGED <<wavs, sidecars, tmps, allowed, writer, reader, settings, cut>>

\* The narrator's process is killed; the kernel lets go of its lock.
HistoryCut ==
    /\ writer' = [writer EXCEPT !.at = "idle", !.doomed = {}]
    /\ cut' = IF writer.at = "half" THEN cut \cup {Min(writer.doomed)} ELSE cut
    /\ reader' = [at |-> "idle", line |-> 0]
    /\ UNCHANGED <<wavs, sidecars, tmps, allowed, pruner, settings>>

----------------------------------------------------------------------------
\* Replay: the Nth most recent line, picked by the command, asked of the
\* narrator by its id, and played in its turn.

\* load, get: a line is one that has a sidecar.
Listed == sidecars

Pick ==
    /\ reader.at = "idle"
    /\ \E l \in Listed : l \in wavs /\ reader' = [at |-> "picked", line |-> l]
    /\ UNCHANGED <<wavs, sidecars, tmps, allowed, writer, pruner, settings, cut>>

\* The narrator looks for it again: it is queued, or there is no such line.
AskReplay ==
    /\ reader.at = "picked"
    /\ reader' = IF reader.line \in Listed \cap wavs THEN [reader EXCEPT !.at = "queued"]
                                                       ELSE [at |-> "idle", line |-> 0]
    /\ UNCHANGED <<wavs, sidecars, tmps, allowed, writer, pruner, settings, cut>>

\* Its turn comes: it is played, or it has been pruned and is lost.
Replayed ==
    /\ reader.at = "queued"
    /\ reader' = [at |-> "idle", line |-> 0]
    /\ UNCHANGED <<wavs, sidecars, tmps, allowed, writer, pruner, settings, cut>>

HistoryStep ==
    \/ LockExport \/ PlaceFile \/ PruneAfterExport
    \/ SetMaxGb \/ LockPrune \/ PruneAsCommanded
    \/ Pick \/ AskReplay \/ Replayed

----------------------------------------------------------------------------
\* "WAV first and sidecar last": a line that is listed has its audio, whenever
\* the narrator is killed and whoever prunes; except the one line a prune has
\* under its hands, or had when it was killed.
ListedHasAudio ==
    \A l \in sidecars \ wavs :
        \/ l \in cut
        \/ writer.at = "half" /\ l = Min(writer.doomed)
        \/ pruner.at = "half" /\ l = Min(pruner.doomed)

\* "The newest line always stays": no prune takes the newest line that is
\* listed, however little the setting allows.
NewestStays ==
    [][\A l \in sidecars : l \notin sidecars' => \E m \in sidecars' : m > l]_history
=============================================================================
