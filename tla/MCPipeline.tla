----------------------------- MODULE MCPipeline -----------------------------
(* Constant values for the runs of Pipeline. *)
EXTENDS Pipeline, TLC

Symmetries == Permutations(Job) \cup Permutations(Request)

Everything == {{"submitted", "cancel", "low"}, {"submitted", "delete", "low"},
               {"uploaded", "cancel"}, {"uploaded", "crash"}, {"uploaded", "delete"},
               {"uploaded", "crash", "delete", "low"},
               {"uploaded", "cancel", "delete", "low"}, {"submitted", "cancel", "delete", "tiny"},
               {"published", "reprocess"}, {"published", "edit", "delete", "low"}}
DeleteAfterUpload == {{"uploaded", "delete"}}
CrashAfterUpload == {{"uploaded", "crash"}}
=============================================================================
