------------------------------ MODULE MCSite ------------------------------
(* Small instances of Site.                                               *)
EXTENDS Site, TLC

AllPages == {"flavors", "categories", "players", "users", "acls", "viewers", "jobs"}

Limit(f, c, o) == [fails |-> f, calls |-> c, others |-> o]
\* Failing calls and other users on every page, and two calls where it takes
\* two for something to go wrong.
Bounds ==
    [p \in AllPages |->
        CASE p = "flavors" -> {Limit(TRUE, 2, 0), Limit(FALSE, 2, 1)}
          [] p = "categories" -> {Limit(TRUE, 1, 0), Limit(FALSE, 2, 0)}
          [] p = "users" -> {Limit(TRUE, 2, 0), Limit(FALSE, 1, 1)}
          [] OTHER -> {Limit(TRUE, 1, 1)}]
StayOf(f, l, t, o, u) ==
    [fails |-> f, looks |-> l, tasks |-> t, losses |-> o, uploads |-> u]
Stays == {StayOf(FALSE, 0, 1, 1, 0), StayOf(FALSE, 0, 1, 0, 1), StayOf(TRUE, 3, 0, 0, 0)}
EntryBounds == {Limit(FALSE, 1, 0), Limit(FALSE, 0, 1), Limit(TRUE, 1, 0)}
Lengths == [f \in Filters |-> IF f.q = "" THEN 3 ELSE 2]
Everything == {"table", "entries", "settings", "entry", "signin", "session", "library", "player"}
=============================================================================
