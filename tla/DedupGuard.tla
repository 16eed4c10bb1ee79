----------------------------- MODULE DedupGuard -----------------------------
(***************************************************************************)
(* The guard against reading the same words twice (dedup_guard.py): a      *)
(* marker file that names the newest claim, and a history of claims.  Time *)
(* is the age of each hash's last claim: "fresh" within the burst window   *)
(* (5 s), "young" within the age cap (120 s), then "old".                  *)
(***************************************************************************)
EXTENDS Naturals, FiniteSets

CONSTANTS Hashes

VARIABLES marker,  \* the hash of the newest claim
          age,     \* the age of each hash's last claim
          claims   \* history: claims under the lock since it was last not fresh

guard == <<marker, age, claims>>

GuardTypeOK ==
    /\ marker \in Hashes /\ age \in [Hashes -> {"fresh", "young", "old"}]
    /\ claims \in [Hashes -> Nat]

\* What earlier workers left, all of it stale.
GuardInit ==
    /\ marker \in Hashes
    /\ age = [h \in Hashes |-> "old"] /\ claims = [h \in Hashes |-> 0]

\* (Mistakes to rule out: any young marker is taken for this hash's own; the
\* newest claim alone is looked at.)
AnyMarker(h, alive) == age[marker] # "old" /\ alive
MarkerOnly(h, alive) == marker = h /\ age[h] # "old" /\ (alive \/ age[h] = "fresh")

\* already_playing: `alive` is what _mpv_alive reads of the sink's pid file,
\* whatever mpv plays.
AlreadyPlaying(h, alive) == marker = h /\ age[h] # "old" /\ alive

\* _fresh_same_hash: the marker, then the history.
FreshSameHash(h, alive) ==
    \/ marker = h /\ age[h] # "old" /\ (alive \/ age[h] = "fresh")
    \/ age[h] = "fresh"

\* write_now_playing
WriteNowPlaying(h) == marker' = h /\ age' = [age EXCEPT ![h] = "fresh"]

\* try_claim: asked and written under one flock.
Claimed(h, alive) ==
    /\ ~FreshSameHash(h, alive)
    /\ WriteNowPlaying(h)
    /\ claims' = [claims EXCEPT ![h] = IF age[h] = "fresh" THEN @ + 1 ELSE 1]

Refused(h, alive) == FreshSameHash(h, alive) /\ UNCHANGED guard

\* The lock file cannot be opened or locked: claimed whatever is there.
ClaimedUnlocked(h) == WriteNowPlaying(h) /\ UNCHANGED claims

\* Time goes by: an older claim leaves its window before a newer one does.
Passes(from, to) ==
    /\ \E S \in SUBSET {h \in Hashes : age[h] = from} :
         /\ S # {}
         /\ marker \in S => S = {h \in Hashes : age[h] = from}
         /\ age' = [h \in Hashes |-> IF h \in S THEN to ELSE age[h]]
    /\ UNCHANGED <<marker, claims>>

TickBurst == Passes("fresh", "young")

TickCap == Passes("young", "old")

\* Siblings of one burst of Stop events have one claim between them, however
\* claims of other hashes came in between: the check and the write are one
\* step, and the history remembers what the marker no longer names.
OneClaimPerBurst == \A h \in Hashes : age[h] = "fresh" => claims[h] <= 1
=============================================================================
