------------------------- MODULE MCReleasePipeline -------------------------
(***************************************************************************)
(* Two questions about the releases, each with the bounds it needs.  The   *)
(* history of versions: several commits and runs, reproducible builds, and *)
(* failures before a plan is made and around the push of the tag, which is *)
(* when they matter to other runs.  The assets: one commit, two runs,      *)
(* builds that may differ and failures everywhere.                         *)
(***************************************************************************)
EXTENDS ReleasePipeline

CONSTANTS AssetPushes, AssetRuns    \* bounds of the second question

\* A first fix or feature, then anything that releases, then anything.
KindsOf == <<{"patch", "minor"}, {"patch", "minor", "major"},
             {"none", "patch", "minor"}>>

VARIABLE part

vars == <<part, releaseVars>>

Init == part \in {"history", "assets"} /\ ReleaseInit

OneDigest == CHOOSE d \in Digests : TRUE

HistoryBound ==
    /\ \A c \in candidates' : c.digest = OneDigest
    /\ \A r \in DOMAIN runs' : runs'[r].sha = runs'[r].commit
    /\ \A r \in DOMAIN runs' :
          runs'[r].status = "failed" => runs'[r].step \in {"plan", "tag"}

AssetsBound ==
    Len(main') <= AssetPushes /\ Len(runs') <= AssetRuns

Next ==
    /\ ReleaseNext /\ UNCHANGED part
    /\ IF part = "history" THEN HistoryBound ELSE AssetsBound

Spec == Init /\ [][Next]_vars

=============================================================================
