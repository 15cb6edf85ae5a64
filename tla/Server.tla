------------------------------- MODULE Server -------------------------------
(***************************************************************************)
(* Two parts of the server that share neither state nor locks: the uploads *)
(* with their sweep, and the disk cache. A behaviour is one of the two.    *)
(***************************************************************************)
EXTENDS Uploads, DiskCache

CONSTANT Parts      \* of "uploads" and "cache"

VARIABLE part
vars == <<part, uploadsVars, cacheVars>>

\* The other part keeps one initial state.
Init ==
    /\ part \in Parts
    /\ UploadsInit /\ (part # "uploads" => day = CHOOSE d \in Days : TRUE)
    /\ CacheInit /\ (part # "cache" => \A k \in Key : stored[k] = 0)

InUploads == part = "uploads" /\ UNCHANGED <<part, cacheVars>>
InCache == part = "cache" /\ UNCHANGED <<part, uploadsVars>>

Next == (InUploads /\ UploadsNext) \/ (InCache /\ CacheNext)

\* Days pass, and the ticker of the sweep runs every hour. Nothing is assumed
\* of clients, or of the requests that they send.
Fairness ==
    /\ WF_vars(InUploads /\ Sweep)
    /\ \A u \in Upload : WF_vars(InUploads /\ Age(u))

Spec == Init /\ [][Next]_vars /\ Fairness

-----------------------------------------------------------------------------

\* The variables of both parts keep their types, and the index of the cache has
\* each of its keys once.
ServerTypeOK == UploadsTypeOK /\ CacheTypeOK
=============================================================================
