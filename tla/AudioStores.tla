---------------------------- MODULE AudioStores ----------------------------
(***************************************************************************)
(* The audio the narrator and the web server keep: the cache, which both   *)
(* fill, and the speech history, to which the narrator exports what was    *)
(* heard.  narrator_service.py: _speak, _heard.                            *)
(***************************************************************************)
EXTENDS WebJobs, SpeechHistory

CONSTANTS Narrator,  \* the promoter that is the narrator's worker
          MaxLines,  \* lines with a hash that the narrator takes
          MaxKills,
          MaxEvents, \* faults, kills and settings made, together
          Apart      \* bound: a command and a request, which share no file, not at once

ASSUME StoresAssumption ==
    /\ MaxLines \in Nat /\ MaxKills \in Nat /\ MaxEvents \in Nat /\ Apart \in BOOLEAN
    /\ Narrator \in Promoters /\ Web \in Promoters \ {Narrator}
    /\ None \notin Requests /\ "job" \notin Requests

VARIABLES pass,   \* the narrator's line: what it does with its audio
          taken,  \* lines taken
          kills

vars == <<cache, web, history, pass, taken, kills>>

TypeOK ==
    /\ CacheTypeOK /\ WebTypeOK /\ HistoryTypeOK
    /\ pass \in {"idle", "looks", "cached", "own", "export cached", "export own"}
    /\ taken \in 0..MaxLines /\ kills \in 0..MaxKills

Init ==
    /\ CacheInit /\ WebInit /\ HistoryInit
    /\ pass = "idle" /\ taken = 0 /\ kills = 0

\* A command of the history is under way; a web request is.
Commanded == pruner.at # "idle" \/ reader.at # "idle"
Requested == worker.at # "idle" \/ jobQueue # <<>> \/ \E r \in Requests : req[r] \notin {"new", "over"}
Bound ==
    /\ faults' + kills' + settings' <= MaxEvents
    /\ Apart => ~(Commanded' /\ Requested')

----------------------------------------------------------------------------
\* A line of the narrator's, that has a hash.
TakeLine ==
    /\ pass = "idle" /\ writer.at = "idle" /\ taken < MaxLines
    /\ pass' = "looks" /\ taken' = taken + 1
    /\ UNCHANGED <<cache, web, history, kills>>

NarratorWorks ==
    /\ pass = "looks"
    /\ Lookup(Narrator) \/ Render(Narrator) \/ Promote(Narrator)
    /\ UNCHANGED <<web, history, pass, taken, kills>>
    /\ Bound

\* The entry's WAV, found or made, is played.
PlayEntry ==
    /\ pass = "looks" /\ at[Narrator] = "ready"
    /\ pass' = "cached"
    /\ UNCHANGED <<cache, web, history, taken, kills>>

\* "falling back to staging wav", which the promotion may have moved.
FallBack ==
    /\ pass = "looks" /\ at[Narrator] = "raised"
    /\ IF Narrator \in staged THEN pass' = "own" /\ UNCHANGED cache
                              ELSE pass' = "idle" /\ Finished(Narrator)  \* not heard
    /\ UNCHANGED <<web, history, taken, kills>>

\* It was heard, and is exported; or it was not.
LineHeard ==
    /\ pass \in {"cached", "own"}
    /\ Heard
    /\ pass' = IF pass = "cached" THEN "export cached" ELSE "export own"
    /\ UNCHANGED <<cache, web, taken, kills>>

PassEnds ==
    /\ \/ pass \in {"cached", "own"}
       \/ pass \in {"export cached", "export own"} /\ writer.at = "idle"
    /\ pass' = "idle" /\ Finished(Narrator)
    /\ UNCHANGED <<web, history, taken, kills>>

StoreStep ==
    /\ HistoryStep
    /\ UNCHANGED <<cache, web, pass, taken, kills>>
    /\ Bound

\* The export's copy finds what was played, or not.
ExportWrites ==
    /\ WriteTmp
    /\ writer.at = "copying" => pass = "export own" \/ wav # "none"
    /\ UNCHANGED <<cache, web, pass, taken, kills>>

ExportFails ==
    /\ pass = "export cached" /\ wav = "none" /\ CopyFails
    /\ UNCHANGED <<cache, web, pass, taken, kills>>

\* The narrator is killed: what it had staged stays, and nobody looks for it.
KillNarrator ==
    /\ kills < MaxKills /\ kills' = kills + 1
    /\ pass # "idle" /\ pass' = "idle"
    /\ HistoryCut
    /\ Finished(Narrator)
    /\ UNCHANGED <<web, taken>>
    /\ Bound

WebWorks == WebStep /\ UNCHANGED <<history, pass, taken, kills>> /\ Bound

Next ==
    \/ TakeLine \/ NarratorWorks \/ PlayEntry \/ FallBack \/ LineHeard \/ PassEnds
    \/ StoreStep \/ ExportWrites \/ ExportFails \/ KillNarrator
    \/ WebWorks

Spec == Init /\ [][Next]_vars

----------------------------------------------------------------------------
NarratorHolds == pass \in {"cached", "export cached"}

\* However the narrator and the web server promote the same entry over each
\* other, and whichever of them is killed or fails for it, the WAV a lookup or
\* a promotion gave is there, and whole, for as long as it is read or played;
\* unless the file system itself failed a call.
HitIsPlayable == WebHolds \/ NarratorHolds => wav = "whole" \/ faults > 0
=============================================================================
