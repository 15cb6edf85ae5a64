---------------------------- MODULE MCTransfers ----------------------------
(* Small instances of UploadDialog.                                          *)
EXTENDS UploadDialog, TLC

OneOrTwo(S) == {<<a>> : a \in S} \cup {s \in [1..2 -> S] : s[1] <= s[2]}
Selections == OneOrTwo(File)
Answers == {<<>>} \cup OneOrTwo(Url)

Works(f, u, n, i, r) == [files |-> f, urls |-> u, net |-> n, ids |-> i, reloads |-> r]
\* Files alone; URLs alone over a bad network and over a good one; one of each.
Mixed == {Works(File, {}, "good", Id, 1), Works({}, Url, "bad", UrlId, 0),
          Works({}, Url, "good", UrlId, 0), Works({1}, {1}, "good", {1}, 1)}
=============================================================================
