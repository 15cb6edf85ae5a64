------------------------------ MODULE MCServer ------------------------------
(* Small instances of Server.                                             *)
EXTENDS Server

\* Each kind of trouble meets most others in one of the days.
AllDays == {{"abort", "cut", "error"}, {"cut", "s3", "error", "restart"}, {"aged", "cut"},
            {"aged", "error", "s3"}, {"delete", "terminate", "cut"}}
Everything == {"uploads", "cache"}
CacheOnly == {"cache"}
\* Two small objects do not fit together, and a large one does not fit at all ...
Uneven == [v \in Version |-> 2 * v]
\* ... or all fit alone.
Fitting == [v \in Version |-> v]
=============================================================================
