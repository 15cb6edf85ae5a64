----------------------------- MODULE ServerProofs ---------------------------
(***************************************************************************)
(* Theorems about Server: about its uploads, for any number of uploads,    *)
(* parts, requests, retries and faults and any mixture of troubles; about  *)
(* its disk cache, for any objects, goroutines, sizes and budget.          *)
(***************************************************************************)
EXTENDS Server, FiniteSetTheorems, SequenceTheorems, WellFoundedInduction, TLAPS

-----------------------------------------------------------------------------
(* The uploads.                                                             *)

ReqStep == {"none", "post", "row", "head", "patch", "open", "write", "finish", "store", "remove",
            "update", "enqueue", "unrow", "terminate", "drop"}
ReqType == [step : ReqStep, up : Upload \cup {0}, off : 0 .. Size, end : 0 .. Size,
            linked : BOOLEAN, heard : BOOLEAN]
ClientType == [phase : {"new", "waiting", "paused", "done", "failed"},
               url : Upload \cup {0}, tries : 0 .. MaxTries]

(* What a request in flight has in hand.                                     *)
Bounds(q) ==
    /\ q.step \notin {"none", "post"} => q.up \in Upload
    /\ q.linked => q.step \notin {"none", "post"}
    /\ q.step \in {"patch", "open", "write"} => q.off < Size

Typed ==
    /\ day \in Days
    /\ entry \in [Upload -> {"none", "uploading", "probing", "gone"}]
    /\ row \subseteq Upload /\ old \subseteq Upload /\ probes \in [Upload -> Nat]
    /\ spool \in [Upload -> 0 .. NoFile] /\ original \in [Upload -> 0 .. NoFile]
    /\ reqs \in [Req -> ReqType]
    /\ client \in ClientType
    /\ sweep \in [step : {"off", "spool", "row"}, ids : SUBSET Upload]
    /\ sweep.step = "row" => sweep.ids # {}
    /\ faults \in 0 .. MaxFaults /\ assumed \in BOOLEAN /\ taken \subseteq Upload

(* An original is whole, and so is what a request is about to store, or what  *)
(* has been stored was: unless the spool was taken away.                     *)
Whole(u) ==
    u \notin taken => /\ original[u] \in {NoFile, Size}
                      /\ original[u] = Size => spool[u] \in {NoFile, Size}
OnDisk(q) ==
    /\ q.linked => spool[q.up] # NoFile
    /\ q.up \notin taken =>
          /\ q.step = "write" /\ ~q.linked => original[q.up] = Size
          /\ q.step \in {"finish", "store"} => original[q.up] = Size \/ spool[q.up] = Size
          /\ q.step \in {"remove", "update", "enqueue", "unrow"} => original[q.up] = Size
(* The entry is ahead of its probe, and the probe of the row.                 *)
OnRecord(q) ==
    /\ q.step \in {"enqueue", "unrow"} => entry[q.up] \in {"probing", "gone"}
    /\ q.step = "unrow" => entry[q.up] = "gone" \/ probes[q.up] > 0

(* One request is heard at most, and what it is about is what the client's URL *)
(* names.                                                                    *)
Heard(q) ==
    q.heard => /\ client.phase = "waiting"
               /\ q.step \notin {"none", "post", "row"} => q.up = client.url
OneHeard == \A r, s \in Req : reqs[r].heard /\ reqs[s].heard => r = s

DoneGood ==
    client.phase = "done" /\ ~assumed =>
        /\ client.url \in Upload
        /\ \/ entry[client.url] = "gone"
           \/ /\ entry[client.url] = "probing" /\ probes[client.url] > 0
              /\ client.url \in taken \/ original[client.url] = Size

Good(q) == Bounds(q) /\ OnDisk(q) /\ OnRecord(q) /\ Heard(q)
StoredInv ==
    /\ \A u \in Upload : Whole(u)
    /\ \A r \in Req : Good(reqs[r])
    /\ OneHeard /\ DoneGood

(* What steps keep of the files, the tables and the links.                    *)
DiskKept ==
    /\ taken \subseteq taken'
    /\ \A u \in Upload : u \notin taken' =>
          /\ original[u] = Size => original'[u] = Size
          /\ spool[u] = Size => spool'[u] = Size \/ original'[u] = Size
RecordKept ==
    \A u \in Upload : /\ entry[u] = "gone" => entry'[u] = "gone"
                      /\ entry[u] = "probing" => entry'[u] \in {"probing", "gone"}
                      /\ probes[u] > 0 => probes'[u] > 0
LinksKept(r) == \A s \in Req \ {r} : reqs[s].linked => spool'[reqs[s].up] # NoFile

-----------------------------------------------------------------------------
(* The requests that the client sends, and what becomes of one.               *)

LEMMA Sizes == Size \in Nat \ {0} /\ Chunk \in Nat \ {0} /\ NoFile = Size + 1 /\ 0 \notin Upload
BY UploadsAssumption DEF NoFile

LEMMA NoReqIs == /\ NoReq \in ReqType /\ NoReq.step = "none" /\ NoReq.up = 0
                 /\ ~NoReq.linked /\ ~NoReq.heard
BY Sizes DEF NoReq, ReqType, ReqStep

LEMMA SendsIs ==
    ASSUME NEW step \in ReqStep, NEW u \in Upload \cup {0}, NEW off \in 0 .. Size, NEW end \in 0 .. Size
    PROVE  LET q == Sends(step, u, off, end)
           IN  /\ q \in ReqType /\ q.step = step /\ q.up = u /\ q.off = off
               /\ ~q.linked /\ q.heard
BY DEF Sends, ReqType

LEMMA PostIs == Post \in ReqType /\ Post.step = "post" /\ Post.up = 0 /\ ~Post.linked /\ Post.heard
BY Sizes, SendsIs DEF Post, ReqStep

LEMMA HeaderIs ==
    ASSUME NEW u \in Upload
    PROVE  /\ Header(u) \in ReqType /\ Header(u).step = "head" /\ Header(u).up = u
           /\ ~Header(u).linked /\ Header(u).heard
BY Sizes, SendsIs DEF Header, ReqStep

LEMMA PatchIs ==
    ASSUME NEW u \in Upload, NEW off \in 0 .. Size
    PROVE  /\ Patch(u, off) \in ReqType /\ Patch(u, off).step = "patch" /\ Patch(u, off).up = u
           /\ ~Patch(u, off).linked /\ Patch(u, off).heard /\ Patch(u, off).off = off
<1> DEFINE end == IF off + Chunk < Size THEN off + Chunk ELSE Size
<1>1. end \in 0 .. Size
  BY Sizes
<1>2. Patch(u, off) = Sends("patch", u, off, end)
  BY DEF Patch
<1> HIDE DEF end
<1> QED BY <1>1, <1>2, SendsIs DEF ReqStep

LEMMA AnswerIs ==
    ASSUME Typed, NEW r \in Req, NEW next \in ReqType, Answer(r, next)
    PROVE  /\ reqs' \in [Req -> ReqType]
           /\ reqs'[r] = IF reqs[r].heard THEN next ELSE NoReq
           /\ \A s \in Req \ {r} : reqs'[s] = reqs[s]
BY NoReqIs DEF Typed, Answer

LEMMA GotoIs ==
    ASSUME Typed, NEW r \in Req, NEW step \in ReqStep, Goto(r, step)
    PROVE  /\ reqs' \in [Req -> ReqType]
           /\ reqs'[r].step = step /\ reqs'[r].up = reqs[r].up /\ reqs'[r].off = reqs[r].off
           /\ reqs'[r].linked = reqs[r].linked /\ reqs'[r].heard = reqs[r].heard
           /\ \A s \in Req \ {r} : reqs'[s] = reqs[s]
BY DEF Typed, Goto, ReqType

LEMMA OpeningIs ==
    ASSUME Typed
    PROVE  /\ Opening \in ReqType /\ Opening.step \in {"post", "head"} /\ Opening.heard
           /\ ~Opening.linked /\ Opening.up = client.url
           /\ Opening.step = "head" => client.url \in Upload
<1>1. CASE client.url = 0
  BY <1>1, PostIs DEF Opening
<1>2. CASE client.url # 0
  <2>1. client.url \in Upload
    BY <1>2 DEF Typed, ClientType
  <2> QED BY <1>2, <2>1, HeaderIs DEF Opening
<1> QED BY <1>1, <1>2

LEMMA RetryIs ==
    ASSUME Typed, NEW fallen, fallen = [client EXCEPT !.phase = "failed"]
    PROVE  /\ RetryOr(fallen) \in ClientType /\ RetryOr(fallen).url = client.url
           /\ RetryOr(fallen).phase \in {client.phase, "failed"}
           /\ CanRetry => RetryOr(fallen).phase = client.phase
<1>1. MaxTries \in Nat
  BY UploadsAssumption
<1>2. client \in [phase : {"new", "waiting", "paused", "done", "failed"}, url : Upload \cup {0}, tries : 0 .. MaxTries]
  BY DEF Typed, ClientType
<1>3. CASE CanRetry
  <2>1. RetryOr(fallen) = [client EXCEPT !.tries = @ + 1]
    BY <1>3 DEF RetryOr
  <2>2. client.tries + 1 \in 0 .. MaxTries
    BY <1>1, <1>2, <1>3 DEF CanRetry
  <2> QED BY <1>2, <2>1, <2>2 DEF ClientType
<1>4. CASE ~CanRetry
  <2>1. RetryOr(fallen) = [client EXCEPT !.phase = "failed"]
    BY <1>4 DEF RetryOr
  <2> QED BY <1>2, <1>4, <2>1 DEF ClientType
<1> QED BY <1>3, <1>4

(* A request that has failed leaves nothing but, perhaps, the next one.       *)
LEMMA FailIs ==
    ASSUME Typed, NEW r \in Req, Fail(r)
    PROVE  /\ reqs' \in [Req -> ReqType]
           /\ \A s \in Req \ {r} : reqs'[s] = reqs[s]
           /\ reqs'[r].step \in {"none", "post", "head"} /\ ~reqs'[r].linked
           /\ reqs'[r].step = "head" => client.url \in Upload /\ reqs'[r].up = client.url
           /\ reqs'[r].heard => reqs[r].heard /\ client'.phase = client.phase
           /\ client' \in ClientType /\ client'.url = client.url
           /\ ~reqs[r].heard => client' = client
           /\ client'.phase \in {client.phase, "failed"}
<1> DEFINE next == IF CanRetry THEN Opening ELSE NoReq
<1>1. next \in ReqType
  BY OpeningIs, NoReqIs
<1>2. Answer(r, next) /\ Learns(r, RetryOr([client EXCEPT !.phase = "failed"]))
  BY DEF Fail
<1>3. /\ reqs' \in [Req -> ReqType] /\ \A s \in Req \ {r} : reqs'[s] = reqs[s]
      /\ reqs'[r] = IF reqs[r].heard THEN next ELSE NoReq
  BY <1>1, <1>2, AnswerIs
<1>4. client' = IF reqs[r].heard THEN RetryOr([client EXCEPT !.phase = "failed"]) ELSE client
  BY <1>2 DEF Learns
<1>5. client \in ClientType
  BY DEF Typed
<1> QED BY <1>3, <1>4, <1>5, OpeningIs, NoReqIs, RetryIs

LEMMA InitInv == UploadsInit => Typed /\ StoredInv
<1> SUFFICES ASSUME UploadsInit PROVE Typed /\ StoredInv
  OBVIOUS
<1>1. \A r \in Req : reqs[r] = NoReq
  BY DEF UploadsInit
<1>2. /\ client.phase = "new" /\ client \in ClientType
      /\ sweep.step = "off" /\ sweep \in [step : {"off", "spool", "row"}, ids : SUBSET Upload]
  BY UploadsAssumption DEF UploadsInit, ClientType, NoSweep
<1>3. Typed
  <2>1. reqs \in [Req -> ReqType]
    BY NoReqIs DEF UploadsInit
  <2>2. /\ spool \in [Upload -> 0 .. NoFile] /\ original \in [Upload -> 0 .. NoFile]
        /\ faults \in 0 .. MaxFaults
    BY Sizes, UploadsAssumption DEF UploadsInit
  <2> QED BY <1>2, <2>1, <2>2 DEF UploadsInit, Typed
<1>4. \A u \in Upload : Whole(u)
  BY Sizes DEF UploadsInit, Whole
<1>5. \A r \in Req : Good(reqs[r])
  BY <1>1, NoReqIs DEF Good, Bounds, OnDisk, OnRecord, Heard
<1>6. OneHeard /\ DoneGood
  BY <1>1, <1>2, NoReqIs DEF OneHeard, DoneGood
<1> QED BY <1>3, <1>4, <1>5, <1>6 DEF StoredInv

(* One request moves, and no other is heard by a client that changes.         *)
LEMMA OneMoves ==
    ASSUME Typed, StoredInv, NEW r \in Req, \A s \in Req \ {r} : reqs'[s] = reqs[s],
           Good(reqs[r])', DiskKept, RecordKept, LinksKept(r),
           \A s \in Req \ {r} : reqs[s].heard => client' = client /\ ~reqs'[r].heard
    PROVE  (\A s \in Req : Good(reqs[s]))' /\ OneHeard'
<1>1. ASSUME NEW s \in Req, s # r PROVE Good(reqs[s])'
  <2>1. reqs'[s] = reqs[s] /\ Good(reqs[s])
    BY <1>1 DEF StoredInv
  <2>2. Bounds(reqs[s])'
    BY <2>1 DEF Good, Bounds
  <2>3. OnDisk(reqs[s])'
    <3>1. reqs[s].up \in Upload \/ reqs[s].step \in {"none", "post"}
      BY <2>1 DEF Good, Bounds
    <3>2. reqs[s].linked => spool'[reqs[s].up] # NoFile
      BY <1>1 DEF LinksKept
    <3> QED BY <2>1, <3>1, <3>2 DEF Good, OnDisk, DiskKept
  <2>4. OnRecord(reqs[s])'
    BY <2>1 DEF Good, Bounds, OnRecord, RecordKept
  <2>5. Heard(reqs[s])'
    BY <1>1, <2>1 DEF Good, Heard
  <2> QED BY <2>2, <2>3, <2>4, <2>5 DEF Good
<1>2. OneHeard'
  BY DEF OneHeard, StoredInv
<1> QED BY <1>1, <1>2

LEMMA DoneStays ==
    ASSUME Typed, StoredInv, DiskKept, RecordKept,
           client'.phase = "done" /\ ~assumed' => client.phase = "done" /\ ~assumed /\ client'.url = client.url
    PROVE  DoneGood'
BY DEF StoredInv, DoneGood, DiskKept, RecordKept

LEMMA OthersUnheard ==
    ASSUME Typed, StoredInv, NEW r \in Req
    PROVE  \A s \in Req \ {r} : reqs[s].heard => ~reqs[r].heard
BY DEF StoredInv, OneHeard

LEMMA NothingKept ==
    ASSUME Typed, StoredInv, UNCHANGED <<spool, original, taken>>
    PROVE  DiskKept /\ (\A u \in Upload : Whole(u))' /\ \A r \in Req : LinksKept(r)
BY DEF DiskKept, StoredInv, Whole, LinksKept, Good, OnDisk

LEMMA TablesKept == ASSUME Typed, UNCHANGED <<entry, probes>> PROVE RecordKept
BY DEF RecordKept

(* A request that is answered without more ado.                               *)
LEMMA FailGood ==
    ASSUME Typed, StoredInv, NEW r \in Req, Fail(r)
    PROVE  /\ Good(reqs[r])'
           /\ \A s \in Req \ {r} : reqs'[s] = reqs[s]
           /\ \A s \in Req \ {r} : reqs[s].heard => client' = client /\ ~reqs'[r].heard
           /\ reqs' \in [Req -> ReqType] /\ client' \in ClientType
           /\ client'.phase = "done" => client.phase = "done" /\ client'.url = client.url
<1>1. /\ reqs'[r].step \in {"none", "post", "head"} /\ ~reqs'[r].linked
      /\ reqs'[r].step = "head" => client.url \in Upload /\ reqs'[r].up = client.url
      /\ reqs'[r].heard => reqs[r].heard /\ client'.phase = client.phase
      /\ client'.url = client.url
  BY FailIs
<1>2. reqs[r].heard => client.phase = "waiting"
  BY DEF StoredInv, Good, Heard
<1>3. Good(reqs[r])'
  BY <1>1, <1>2 DEF Good, Bounds, OnDisk, OnRecord, Heard
<1> QED BY <1>1, <1>3, FailIs, OthersUnheard

LEMMA GotoGood ==
    ASSUME Typed, StoredInv, NEW r \in Req, NEW step \in ReqStep \ {"none", "post", "row", "head"}, Goto(r, step),
           UNCHANGED client, reqs[r].step \notin {"none", "post", "row"},
           Bounds(reqs[r])', OnDisk(reqs[r])', OnRecord(reqs[r])'
    PROVE  /\ Good(reqs[r])'
           /\ \A s \in Req \ {r} : reqs'[s] = reqs[s]
           /\ \A s \in Req \ {r} : reqs[s].heard => client' = client /\ ~reqs'[r].heard
           /\ reqs' \in [Req -> ReqType]
<1>1. Heard(reqs[r])'
  BY GotoIs DEF StoredInv, Good, Heard
<1> QED BY <1>1, GotoIs, OthersUnheard DEF Good

-----------------------------------------------------------------------------
(* One lemma for each step of a request.                                      *)
UploadsInv == Typed /\ StoredInv

LEMMA SomeOfIs == ASSUME NEW S, S # {} PROVE SomeOf(S) \in S
BY DEF SomeOf

(* A request that fails and changes nothing else.                             *)
LEMMA OnlyFails ==
    ASSUME UploadsInv, NEW r \in Req, Fail(r), UNCHANGED <<rest, tables, disks, old, sweep, assumed>>,
           faults' \in 0 .. MaxFaults
    PROVE  UploadsInv'
<1>1. Typed'
  BY FailGood DEF UploadsInv, Typed, rest, tables, disks
<1>2. DiskKept /\ (\A u \in Upload : Whole(u))' /\ LinksKept(r) /\ RecordKept
  BY NothingKept, TablesKept DEF UploadsInv, rest, tables, disks
<1>3. (\A s \in Req : Good(reqs[s]))' /\ OneHeard'
  BY <1>2, FailGood, OneMoves DEF UploadsInv
<1>4. DoneGood'
  BY <1>2, FailGood, DoneStays DEF UploadsInv
<1> QED BY <1>1, <1>2, <1>3, <1>4 DEF UploadsInv, StoredInv

LEMMA PostEntryInv == ASSUME UploadsInv, NEW r \in Req, PostEntry(r) PROVE UploadsInv'
<1> DEFINE unmade == {u \in Upload : entry[u] = "none"}
           u == SomeOf(unmade)
<1>1. u \in Upload /\ entry[u] = "none"
  BY SomeOfIs DEF PostEntry
<1>2. reqs[r].step = "post" /\ entry' = [entry EXCEPT ![u] = "uploading"]
  BY DEF PostEntry, At
<1>3. /\ reqs' = [reqs EXCEPT ![r].step = "row", ![r].up = u]
      /\ UNCHANGED <<rest, row, probes, disks, old, client, assumed, sweep, faults>>
  BY DEF PostEntry, clientVars
<1> HIDE DEF u
<1>4. /\ \A s \in Req \ {r} : reqs'[s] = reqs[s]
      /\ reqs'[r].step = "row" /\ reqs'[r].up = u /\ reqs'[r].heard = reqs[r].heard
      /\ reqs'[r].linked = reqs[r].linked /\ reqs' \in [Req -> ReqType]
  <2>1. reqs[r] \in [step : ReqStep, up : Upload \cup {0}, off : 0 .. Size, end : 0 .. Size,
                     linked : BOOLEAN, heard : BOOLEAN]
    BY DEF UploadsInv, Typed, ReqType
  <2>2. /\ reqs'[r] = [reqs[r] EXCEPT !.step = "row", !.up = u]
        /\ \A s \in Req \ {r} : reqs'[s] = reqs[s]
        /\ reqs' = [s \in Req |-> reqs'[s]]
    BY <1>3 DEF UploadsInv, Typed
  <2>3. /\ reqs'[r].step = "row" /\ reqs'[r].up = u /\ reqs'[r].heard = reqs[r].heard
        /\ reqs'[r].linked = reqs[r].linked
    BY <2>1, <2>2
  <2>4. reqs'[r] \in ReqType
    BY <1>1, <2>1, <2>2 DEF ReqType, ReqStep
  <2>5. reqs' \in [Req -> ReqType]
    BY <2>2, <2>4 DEF UploadsInv, Typed
  <2> QED BY <2>2, <2>3, <2>5
<1>5. Typed'
  BY <1>1, <1>2, <1>3, <1>4 DEF UploadsInv, Typed, rest, disks
<1>6. DiskKept /\ (\A v \in Upload : Whole(v))' /\ LinksKept(r)
  BY <1>3, NothingKept DEF UploadsInv, rest, disks
<1>7. RecordKept
  BY <1>1, <1>2, <1>3 DEF RecordKept, UploadsInv, Typed
<1>8. ~reqs[r].linked
  BY <1>2 DEF UploadsInv, StoredInv, Good, Bounds, Typed
<1>9. Good(reqs[r])'
  BY <1>1, <1>2, <1>3, <1>4, <1>8 DEF UploadsInv, StoredInv, Good, Bounds, OnDisk, OnRecord, Heard
<1>10. (\A s \in Req : Good(reqs[s]))' /\ OneHeard'
  BY <1>3, <1>4, <1>6, <1>7, <1>9, OneMoves, OthersUnheard DEF UploadsInv
<1>11. DoneGood'
  BY <1>3, <1>6, <1>7, DoneStays DEF UploadsInv
<1> QED BY <1>5, <1>6, <1>10, <1>11 DEF UploadsInv, StoredInv

LEMMA PostRowInv == ASSUME UploadsInv, NEW r \in Req, PostRow(r) PROVE UploadsInv'
<1> DEFINE u == reqs[r].up
<1>1. CASE entry[u] = "gone"
  <2>1. Fail(r) /\ UNCHANGED <<rest, tables, disks, old, sweep, faults, assumed>>
    BY <1>1 DEF PostRow, tables
  <2> QED BY <2>1, OnlyFails DEF UploadsInv, Typed
<1>2. CASE entry[u] # "gone"
  <2>1. /\ reqs[r].step = "row" /\ row' = row \cup {u} /\ Answer(r, Patch(u, 0))
        /\ Learns(r, [client EXCEPT !.url = u])
        /\ UNCHANGED <<rest, entry, probes, disks, old, sweep, faults, assumed>>
    BY <1>2 DEF PostRow, At
  <2>2. u \in Upload
    BY <2>1 DEF UploadsInv, StoredInv, Good, Bounds
  <2>3. Patch(u, 0) \in ReqType /\ Patch(u, 0).step = "patch" /\ Patch(u, 0).up = u
        /\ ~Patch(u, 0).linked /\ Patch(u, 0).heard /\ Patch(u, 0).off = 0 /\ 0 < Size
    BY <2>2, PatchIs, Sizes
  <2>4. /\ reqs' \in [Req -> ReqType] /\ reqs'[r] = IF reqs[r].heard THEN Patch(u, 0) ELSE NoReq
        /\ \A s \in Req \ {r} : reqs'[s] = reqs[s]
    BY <2>1, <2>3, AnswerIs DEF UploadsInv
  <2>5. client' = IF reqs[r].heard THEN [client EXCEPT !.url = u] ELSE client
    BY <2>1 DEF Learns
  <2>6. /\ client' \in ClientType /\ client'.phase = client.phase
        /\ reqs[r].heard => client'.url = u /\ client.phase = "waiting"
        /\ ~reqs[r].heard => client' = client
    BY <2>2, <2>5 DEF UploadsInv, Typed, ClientType, StoredInv, Good, Heard
  <2>7. Typed'
    BY <2>1, <2>2, <2>4, <2>6 DEF UploadsInv, Typed, rest, disks
  <2>8. DiskKept /\ (\A v \in Upload : Whole(v))' /\ LinksKept(r) /\ RecordKept
    BY <2>1, NothingKept, TablesKept DEF UploadsInv, rest, disks
  <2>9. Good(reqs[r])'
    BY <2>2, <2>3, <2>4, <2>6, NoReqIs DEF Good, Bounds, OnDisk, OnRecord, Heard
  <2>10. (\A s \in Req : Good(reqs[s]))' /\ OneHeard'
    BY <2>4, <2>6, <2>8, <2>9, OneMoves, OthersUnheard, NoReqIs DEF UploadsInv
  <2>11. DoneGood'
    BY <2>1, <2>6, <2>8, DoneStays DEF UploadsInv
  <2> QED BY <2>7, <2>8, <2>10, <2>11 DEF UploadsInv, StoredInv
<1> QED BY <1>1, <1>2

(* A request is answered with nothing, and its client may have its success.   *)
LEMMA AnswerNone ==
    ASSUME UploadsInv, NEW r \in Req, Answer(r, NoReq)
    PROVE  /\ reqs' \in [Req -> ReqType] /\ \A s \in Req \ {r} : reqs'[s] = reqs[s]
           /\ ~reqs'[r].heard /\ Good(reqs[r])'
<1>1. reqs'[r] = NoReq /\ reqs' \in [Req -> ReqType] /\ \A s \in Req \ {r} : reqs'[s] = reqs[s]
  BY AnswerIs, NoReqIs DEF UploadsInv
<1> QED BY <1>1, NoReqIs DEF Good, Bounds, OnDisk, OnRecord, Heard

LEMMA HeadFileInv == ASSUME UploadsInv, NEW r \in Req, HeadFile(r) PROVE UploadsInv'
<1> DEFINE u == reqs[r].up
<1>1. /\ reqs[r].step = "head" /\ u \in Upload
      /\ UNCHANGED <<rest, tables, disks, old, sweep, faults>>
      /\ assumed' \in BOOLEAN
  BY DEF HeadFile, At, UploadsInv, StoredInv, Good, Bounds, Typed
<1>2. DiskKept /\ (\A v \in Upload : Whole(v))' /\ LinksKept(r) /\ RecordKept
  BY <1>1, NothingKept, TablesKept DEF UploadsInv, rest, disks, tables
<1>3. reqs[r].heard => client.phase = "waiting" /\ client.url = u
  BY <1>1 DEF UploadsInv, StoredInv, Good, Heard
<1>4. SUFFICES /\ reqs' \in [Req -> ReqType] /\ \A s \in Req \ {r} : reqs'[s] = reqs[s]
               /\ client' \in ClientType /\ Good(reqs[r])' /\ (reqs'[r].heard => reqs[r].heard)
               /\ ~reqs[r].heard => client' = client
               /\ client'.phase = "done" /\ ~assumed' => ~reqs[r].heard
  <2>1. Typed'
    BY <1>1, <1>4 DEF UploadsInv, Typed, rest, disks, tables
  <2>2. (\A s \in Req : Good(reqs[s]))' /\ OneHeard'
    BY <1>2, <1>4, OneMoves, OthersUnheard DEF UploadsInv
  <2>3. assumed => assumed'
    BY DEF HeadFile, UploadsInv, Typed
  <2>4. DoneGood'
    BY <1>2, <1>4, <2>3, DoneStays DEF UploadsInv
  <2> QED BY <1>2, <2>1, <2>2, <2>4 DEF UploadsInv, StoredInv
<1>5. client \in ClientType
  BY DEF UploadsInv, Typed
<1>6. CASE u \notin row
  <2>1. Answer(r, Post) /\ client' = IF reqs[r].heard THEN [client EXCEPT !.url = 0] ELSE client
    BY <1>6 DEF HeadFile, Learns
  <2>2. /\ reqs' \in [Req -> ReqType] /\ reqs'[r] = IF reqs[r].heard THEN Post ELSE NoReq
        /\ \A s \in Req \ {r} : reqs'[s] = reqs[s]
    BY <2>1, AnswerIs, PostIs DEF UploadsInv
  <2>3. /\ client' \in ClientType /\ client'.phase = client.phase
        /\ ~reqs[r].heard => client' = client
    BY <1>5, <2>1 DEF ClientType
  <2>4. Good(reqs[r])'
    BY <1>3, <2>2, <2>3, NoReqIs, PostIs DEF Good, Bounds, OnDisk, OnRecord, Heard
  <2> QED BY <1>3, <2>2, <2>3, <2>4, NoReqIs
<1>7. CASE u \in row /\ Offset(u) = Size
  <2>1. Answer(r, NoReq) /\ client' = IF reqs[r].heard THEN [client EXCEPT !.phase = "done"] ELSE client
    BY <1>7 DEF HeadFile, Learns, Succeed
  <2>2. client' \in ClientType /\ (~reqs[r].heard => client' = client)
    BY <1>5, <2>1 DEF ClientType
  <2>3. reqs[r].heard => assumed'
    BY <1>7 DEF HeadFile
  <2> QED BY <2>1, <2>2, <2>3, AnswerNone
<1>8. CASE u \in row /\ Offset(u) # Size
  <2>1. Answer(r, Patch(u, Offset(u))) /\ client' = client
    BY <1>8 DEF HeadFile
  <2>2. Offset(u) \in 0 .. Size /\ Offset(u) < Size
    BY <1>1, <1>8, Sizes DEF Offset, UploadsInv, Typed
  <2>3. /\ reqs' \in [Req -> ReqType] /\ reqs'[r] = IF reqs[r].heard THEN Patch(u, Offset(u)) ELSE NoReq
        /\ \A s \in Req \ {r} : reqs'[s] = reqs[s]
    BY <1>1, <2>1, <2>2, AnswerIs, PatchIs DEF UploadsInv
  <2>4. Good(reqs[r])'
    BY <1>1, <1>3, <2>1, <2>2, <2>3, NoReqIs, PatchIs DEF Good, Bounds, OnDisk, OnRecord, Heard
  <2> QED BY <1>3, <1>5, <2>1, <2>3, <2>4, NoReqIs
<1> QED BY <1>6, <1>7, <1>8

LEMMA PatchFileInv == ASSUME UploadsInv, NEW r \in Req, PatchFile(r) PROVE UploadsInv'
<1> DEFINE u == reqs[r].up
<1>1. /\ reqs[r].step = "patch" /\ u \in Upload /\ reqs[r].off < Size
      /\ UNCHANGED <<rest, tables, disks, old, sweep, faults, assumed>>
  BY DEF PatchFile, At, UploadsInv, StoredInv, Good, Bounds
<1>2. DiskKept /\ (\A v \in Upload : Whole(v))' /\ LinksKept(r) /\ RecordKept
  BY <1>1, NothingKept, TablesKept DEF UploadsInv, rest, disks, tables
<1>3. CASE Fail(r)
  BY <1>1, <1>3, OnlyFails DEF UploadsInv, Typed
<1>4. CASE Refuse(r)
  <2>1. Answer(r, NoReq) /\ client' = IF reqs[r].heard THEN [client EXCEPT !.phase = "failed"] ELSE client
    BY <1>4 DEF Refuse, Learns
  <2>2. client' \in ClientType /\ (~reqs[r].heard => client' = client)
    BY <2>1 DEF UploadsInv, Typed, ClientType
  <2>3. client'.phase = "done" => client' = client
    BY <2>1 DEF UploadsInv, Typed, ClientType
  <2>4. Typed'
    BY <1>1, <2>1, <2>2, AnswerNone DEF UploadsInv, Typed, rest, disks, tables
  <2>5. (\A s \in Req : Good(reqs[s]))' /\ OneHeard'
    BY <1>2, <2>1, <2>2, AnswerNone, OneMoves, OthersUnheard DEF UploadsInv
  <2>6. DoneGood'
    BY <1>1, <1>2, <2>3, DoneStays DEF UploadsInv
  <2> QED BY <1>2, <2>4, <2>5, <2>6 DEF UploadsInv, StoredInv
<1>5. CASE Goto(r, "open") /\ UNCHANGED client
  <2>1. reqs'[r].step = "open" /\ reqs'[r].up = u /\ reqs'[r].off = reqs[r].off /\ reqs'[r].linked = reqs[r].linked
    BY <1>5, GotoIs DEF UploadsInv, ReqStep
  <2>2. Bounds(reqs[r])' /\ OnDisk(reqs[r])' /\ OnRecord(reqs[r])'
    BY <1>1, <2>1 DEF UploadsInv, StoredInv, Good, Bounds, OnDisk, OnRecord, disks
  <2>3. /\ Good(reqs[r])' /\ reqs' \in [Req -> ReqType]
        /\ \A s \in Req \ {r} : reqs'[s] = reqs[s]
        /\ \A s \in Req \ {r} : reqs[s].heard => client' = client /\ ~reqs'[r].heard
    BY <1>1, <1>5, <2>2, GotoGood DEF UploadsInv, ReqStep
  <2>4. Typed'
    BY <1>1, <1>5, <2>3 DEF UploadsInv, Typed, rest, disks, tables
  <2>5. (\A s \in Req : Good(reqs[s]))' /\ OneHeard'
    BY <1>2, <2>3, OneMoves DEF UploadsInv
  <2>6. DoneGood'
    BY <1>1, <1>2, <1>5, DoneStays DEF UploadsInv
  <2> QED BY <1>2, <2>4, <2>5, <2>6 DEF UploadsInv, StoredInv
<1> QED BY <1>3, <1>4, <1>5 DEF PatchFile

(* The spool after a step of one request: what that leaves to show.           *)
LEMMA Moved ==
    ASSUME UploadsInv, NEW r \in Req, Typed', DiskKept, (\A v \in Upload : Whole(v))', LinksKept(r), RecordKept,
           Good(reqs[r])', \A s \in Req \ {r} : reqs'[s] = reqs[s],
           \A s \in Req \ {r} : reqs[s].heard => client' = client /\ ~reqs'[r].heard,
           client'.phase = "done" /\ ~assumed' => client.phase = "done" /\ ~assumed /\ client'.url = client.url
    PROVE  UploadsInv'
BY OneMoves, DoneStays DEF UploadsInv, StoredInv

LEMMA WriteOpenInv == ASSUME UploadsInv, NEW r \in Req, WriteOpen(r) PROVE UploadsInv'
<1> DEFINE u == reqs[r].up
<1>1. /\ reqs[r].step = "open" /\ u \in Upload /\ reqs[r].off < Size
      /\ UNCHANGED <<day, entry, row, probes, original, old, sweep, faults, assumed>>
      /\ spool' = [spool EXCEPT ![u] = Offset(u)]
      /\ taken' = IF spool[u] = NoFile /\ original[u] # NoFile THEN taken \cup {u} ELSE taken
  BY DEF WriteOpen, At, UploadsInv, StoredInv, Good, Bounds, tables
<1>2. /\ Offset(u) \in 0 .. Size /\ (spool[u] # NoFile => Offset(u) = spool[u])
      /\ spool \in [Upload -> 0 .. NoFile]
  BY <1>1, Sizes DEF Offset, UploadsInv, Typed
<1>3. /\ spool' \in [Upload -> 0 .. NoFile] /\ taken \subseteq taken' /\ taken' \subseteq Upload
      /\ spool'[u] = Offset(u) /\ \A v \in Upload \ {u} : spool'[v] = spool[v]
  BY <1>1, <1>2, Sizes DEF UploadsInv, Typed
<1>4. DiskKept
  BY <1>1, <1>2, <1>3, Sizes DEF DiskKept
<1>5. (\A v \in Upload : Whole(v))'
  <2>1. ASSUME NEW v \in Upload, v \notin taken'
        PROVE  /\ original'[v] \in {NoFile, Size}
               /\ original'[v] = Size => spool'[v] \in {NoFile, Size}
    <3>1. v \notin taken /\ Whole(v) /\ original'[v] = original[v]
      BY <1>1, <1>3, <2>1 DEF UploadsInv, StoredInv
    <3>2. spool'[v] = spool[v] \/ original[v] = NoFile
      BY <1>1, <1>2, <1>3, <2>1
    <3> QED BY <2>1, <3>1, <3>2, Sizes DEF Whole
  <2> QED BY <2>1 DEF Whole
<1>6. LinksKept(r) /\ RecordKept
  <2>1. \A v \in Upload : spool[v] # NoFile => spool'[v] # NoFile
    BY <1>2, <1>3, Sizes
  <2>2. \A s \in Req : reqs[s].linked => reqs[s].up \in Upload /\ spool[reqs[s].up] # NoFile
    BY DEF UploadsInv, StoredInv, Good, Bounds, OnDisk
  <2> QED BY <1>1, <2>1, <2>2, TablesKept DEF LinksKept, UploadsInv
<1>7. CASE Fail(r)
  <2>1. Typed'
    BY <1>1, <1>3, <1>7, FailGood DEF UploadsInv, Typed
  <2> QED BY <1>1, <1>4, <1>5, <1>6, <1>7, <2>1, FailGood, Moved DEF UploadsInv
<1>8. CASE reqs' = [reqs EXCEPT ![r].step = "write", ![r].linked = TRUE] /\ UNCHANGED client
  <2>1. reqs[r] \in [step : ReqStep, up : Upload \cup {0}, off : 0 .. Size, end : 0 .. Size,
                     linked : BOOLEAN, heard : BOOLEAN]
    BY DEF UploadsInv, Typed, ReqType
  <2>2. /\ reqs'[r] = [reqs[r] EXCEPT !.step = "write", !.linked = TRUE]
        /\ \A s \in Req \ {r} : reqs'[s] = reqs[s]
        /\ reqs' = [s \in Req |-> reqs'[s]]
    BY <1>8 DEF UploadsInv, Typed
  <2>3. /\ reqs'[r].step = "write" /\ reqs'[r].up = u /\ reqs'[r].off = reqs[r].off
        /\ reqs'[r].linked /\ reqs'[r].heard = reqs[r].heard
    BY <2>1, <2>2
  <2>4. reqs'[r] \in ReqType
    BY <2>1, <2>2 DEF ReqType, ReqStep
  <2>5. Typed'
    BY <1>1, <1>3, <1>8, <2>2, <2>4 DEF UploadsInv, Typed
  <2>6. Good(reqs[r])'
    BY <1>1, <1>2, <1>3, <1>8, <2>3, Sizes DEF UploadsInv, StoredInv, Good, Bounds, OnDisk, OnRecord, Heard
  <2> QED BY <1>1, <1>4, <1>5, <1>6, <1>8, <2>2, <2>3, <2>5, <2>6, OthersUnheard, Moved DEF UploadsInv
<1> QED BY <1>7, <1>8 DEF WriteOpen

LEMMA WritePartInv == ASSUME UploadsInv, NEW r \in Req, WritePart(r) PROVE UploadsInv'
<1> DEFINE u == reqs[r].up
           n == reqs[r].off + 1
<1>1. /\ reqs[r].step = "write" /\ u \in Upload /\ reqs[r].off < Size
      /\ UNCHANGED <<day, taken, entry, row, probes, original, old, client, assumed, sweep, faults>>
      /\ spool' = IF reqs[r].linked /\ spool[u] < n THEN [spool EXCEPT ![u] = n] ELSE spool
  BY DEF WritePart, At, UploadsInv, StoredInv, Good, Bounds, tables, rest, clientVars
<1>2. n \in 1 .. Size /\ spool \in [Upload -> 0 .. NoFile] /\ reqs[r].off \in 0 .. Size
  BY <1>1, Sizes DEF UploadsInv, Typed, ReqType
<1> HIDE DEF n
<1>3. /\ spool' \in [Upload -> 0 .. NoFile] /\ \A v \in Upload \ {u} : spool'[v] = spool[v]
      /\ spool[u] = spool'[u] \/ (reqs[r].linked /\ spool[u] < n /\ spool'[u] = n)
      /\ reqs[r].linked /\ spool[u] < n => spool'[u] = n
  BY <1>1, <1>2, Sizes
<1>4. reqs[r].linked => spool[u] # NoFile
  BY DEF UploadsInv, StoredInv, Good, OnDisk
<1>5. u \notin taken /\ original[u] = Size /\ reqs[r].linked => spool[u] = Size
  BY <1>1, <1>4 DEF UploadsInv, StoredInv, Whole
<1>6. /\ \A v \in Upload : spool[v] = Size => spool'[v] = Size
      /\ \A v \in Upload : spool[v] # NoFile => spool'[v] # NoFile
  BY <1>1, <1>2, <1>3, Sizes
<1>7. DiskKept
  BY <1>1, <1>6 DEF DiskKept
<1>8. (\A v \in Upload : Whole(v))'
  <2>1. ASSUME NEW v \in Upload, v \notin taken
        PROVE  /\ original[v] \in {NoFile, Size}
               /\ original[v] = Size => spool'[v] = spool[v] /\ spool[v] \in {NoFile, Size}
    BY <1>2, <1>3, <1>5, <2>1, Sizes DEF UploadsInv, StoredInv, Whole
  <2> QED BY <1>1, <2>1 DEF Whole
<1>9. LinksKept(r) /\ RecordKept
  <2>1. \A s \in Req : reqs[s].linked => reqs[s].up \in Upload /\ spool[reqs[s].up] # NoFile
    BY DEF UploadsInv, StoredInv, Good, Bounds, OnDisk
  <2> QED BY <1>1, <1>6, <2>1, TablesKept DEF LinksKept, UploadsInv
<1>10. SUFFICES ASSUME TRUE
                PROVE  /\ reqs' \in [Req -> ReqType] /\ \A s \in Req \ {r} : reqs'[s] = reqs[s]
                       /\ Good(reqs[r])' /\ (reqs'[r].heard => reqs[r].heard)
  <2>1. Typed'
    BY <1>1, <1>3, <1>10 DEF UploadsInv, Typed
  <2> QED BY <1>1, <1>7, <1>8, <1>9, <1>10, <2>1, OthersUnheard, Moved DEF UploadsInv
<1>11. CASE n = reqs[r].end /\ n < Size
  <2>1. Answer(r, Patch(u, n))
    BY <1>11 DEF WritePart, n
  <2>2. /\ reqs' \in [Req -> ReqType] /\ reqs'[r] = IF reqs[r].heard THEN Patch(u, n) ELSE NoReq
        /\ \A s \in Req \ {r} : reqs'[s] = reqs[s]
    BY <1>1, <1>2, <2>1, AnswerIs, PatchIs DEF UploadsInv
  <2>3. reqs[r].heard => client.phase = "waiting" /\ client.url = u
    BY <1>1 DEF UploadsInv, StoredInv, Good, Heard
  <2>4. Good(reqs[r])'
    BY <1>1, <1>2, <1>11, <2>2, <2>3, NoReqIs, PatchIs DEF Good, Bounds, OnDisk, OnRecord, Heard
  <2> QED BY <2>2, <2>4, NoReqIs
<1>12. CASE ~(n = reqs[r].end /\ n < Size)
  <2> DEFINE step == IF n = Size THEN "finish" ELSE "write"
  <2>1. reqs' = [reqs EXCEPT ![r].off = n, ![r].step = step]
    BY <1>12 DEF WritePart, n
  <2>2. step \in ReqStep /\ step \in {"finish", "write"} /\ (step = "write" => n < Size) /\ (step = "finish" => n = Size)
    BY <1>2, Sizes DEF ReqStep
  <2> HIDE DEF step
  <2>3. reqs[r] \in [step : ReqStep, up : Upload \cup {0}, off : 0 .. Size, end : 0 .. Size,
                     linked : BOOLEAN, heard : BOOLEAN]
    BY DEF UploadsInv, Typed, ReqType
  <2>4. /\ reqs'[r] = [reqs[r] EXCEPT !.off = n, !.step = step]
        /\ \A s \in Req \ {r} : reqs'[s] = reqs[s]
        /\ reqs' = [s \in Req |-> reqs'[s]]
    BY <2>1 DEF UploadsInv, Typed
  <2>5. /\ reqs'[r].step = step /\ reqs'[r].up = u /\ reqs'[r].off = n
        /\ reqs'[r].linked = reqs[r].linked /\ reqs'[r].heard = reqs[r].heard
    BY <2>3, <2>4
  <2>6. reqs'[r] \in ReqType
    <3>1. n \in 0 .. Size
      BY <1>2, Sizes
    <3> QED BY <2>2, <2>3, <2>4, <3>1 DEF ReqType
  <2>7. reqs' \in [Req -> ReqType]
    BY <2>4, <2>6 DEF UploadsInv, Typed
  <2>8. Bounds(reqs[r])' /\ OnRecord(reqs[r])' /\ Heard(reqs[r])'
    BY <1>1, <2>2, <2>5 DEF UploadsInv, StoredInv, Good, Bounds, OnRecord, Heard
  <2>9. OnDisk(reqs[r])'
    <3>1. reqs[r].linked => spool'[u] # NoFile
      BY <1>1, <1>4, <1>6
    <3>2. u \notin taken /\ ~reqs[r].linked => original[u] = Size
      BY <1>1 DEF UploadsInv, StoredInv, Good, OnDisk
    <3>3. step = "finish" /\ reqs[r].linked => spool'[u] = Size
      BY <1>1, <1>2, <1>3, <1>4, <2>2, Sizes
    <3> QED BY <1>1, <2>2, <2>5, <3>1, <3>2, <3>3 DEF OnDisk
  <2> QED BY <2>4, <2>5, <2>7, <2>8, <2>9 DEF Good
<1> QED BY <1>11, <1>12

LEMMA WriteBreaksInv == ASSUME UploadsInv, NEW r \in Req, WriteBreaks(r) PROVE UploadsInv'
<1>1. /\ Answer(r, NoReq)
      /\ UNCHANGED <<rest, tables, disks, old, client, assumed, sweep, faults>>
  BY DEF WriteBreaks, clientVars
<1>2. Typed'
  BY <1>1, AnswerNone DEF UploadsInv, Typed, rest, tables, disks
<1>3. DiskKept /\ (\A v \in Upload : Whole(v))' /\ LinksKept(r) /\ RecordKept
  BY <1>1, NothingKept, TablesKept DEF UploadsInv, rest, disks, tables
<1> QED BY <1>1, <1>2, <1>3, AnswerNone, Moved

LEMMA FinishStatInv == ASSUME UploadsInv, NEW r \in Req, FinishStat(r) PROVE UploadsInv'
<1> DEFINE u == reqs[r].up
<1>1. /\ reqs[r].step = "finish" /\ u \in Upload
      /\ UNCHANGED <<rest, tables, disks, old, sweep, faults, assumed>>
  BY DEF FinishStat, At, UploadsInv, StoredInv, Good, Bounds
<1>2. CASE Fail(r)
  BY <1>1, <1>2, OnlyFails DEF UploadsInv, Typed
<1>3. CASE Goto(r, "store") /\ UNCHANGED client
  <2>1. reqs'[r].step = "store" /\ reqs'[r].up = u /\ reqs'[r].linked = reqs[r].linked
    BY <1>3, GotoIs DEF UploadsInv, ReqStep
  <2>2. Bounds(reqs[r])' /\ OnDisk(reqs[r])' /\ OnRecord(reqs[r])'
    BY <1>1, <2>1 DEF UploadsInv, StoredInv, Good, Bounds, OnDisk, OnRecord, disks, rest
  <2>3. /\ Good(reqs[r])' /\ reqs' \in [Req -> ReqType]
        /\ \A s \in Req \ {r} : reqs'[s] = reqs[s]
        /\ \A s \in Req \ {r} : reqs[s].heard => client' = client /\ ~reqs'[r].heard
    BY <1>1, <1>3, <2>2, GotoGood DEF UploadsInv, ReqStep
  <2>4. Typed'
    BY <1>1, <1>3, <2>3 DEF UploadsInv, Typed, rest, disks, tables
  <2>5. DiskKept /\ (\A v \in Upload : Whole(v))' /\ LinksKept(r) /\ RecordKept
    BY <1>1, NothingKept, TablesKept DEF UploadsInv, rest, disks, tables
  <2> QED BY <1>1, <1>3, <2>3, <2>4, <2>5, Moved
<1> QED BY <1>2, <1>3 DEF FinishStat

(* The spool of an upload is gone: its path names no file that is open.       *)
Same(s) == /\ reqs'[s].step = reqs[s].step /\ reqs'[s].up = reqs[s].up /\ reqs'[s].off = reqs[s].off
           /\ reqs'[s].heard = reqs[s].heard
LEMMA UnlinkIs ==
    ASSUME NEW rs \in [Req -> ReqType], NEW u \in Upload, reqs' = Unlink(rs, u)
    PROVE  /\ reqs' \in [Req -> ReqType]
           /\ \A s \in Req : /\ reqs'[s].step = rs[s].step /\ reqs'[s].up = rs[s].up
                             /\ reqs'[s].off = rs[s].off /\ reqs'[s].heard = rs[s].heard
                             /\ reqs'[s].linked <=> rs[s].linked /\ rs[s].up # u
<1>1. ASSUME NEW s \in Req
      PROVE  /\ reqs'[s] \in ReqType
             /\ reqs'[s].step = rs[s].step /\ reqs'[s].up = rs[s].up
             /\ reqs'[s].off = rs[s].off /\ reqs'[s].heard = rs[s].heard
             /\ reqs'[s].linked <=> rs[s].linked /\ rs[s].up # u
  <2>1. CASE rs[s].up = u
    <3>1. reqs'[s] = [rs[s] EXCEPT !.linked = FALSE]
      BY <2>1 DEF Unlink
    <3> QED BY <2>1, <3>1 DEF ReqType
  <2>2. CASE rs[s].up # u
    BY <2>2 DEF Unlink
  <2> QED BY <2>1, <2>2
<1>2. reqs' \in [Req -> ReqType]
  BY <1>1 DEF Unlink
<1> QED BY <1>1, <1>2

LEMMA SpoolGone ==
    ASSUME UploadsInv, NEW u \in Upload, NEW R \in SUBSET Req, UNCHANGED client,
           spool' = [spool EXCEPT ![u] = NoFile], DiskKept, RecordKept,
           \A s \in R : Same(s) /\ (reqs'[s].linked <=> reqs[s].linked /\ reqs[s].up # u),
           u \in taken' \/ original'[u] = Size
    PROVE  \A s \in R : Good(reqs[s])'
<1> SUFFICES ASSUME NEW s \in R PROVE Good(reqs[s])'
  OBVIOUS
<1>1. /\ Same(s) /\ (reqs'[s].linked <=> reqs[s].linked /\ reqs[s].up # u)
      /\ Good(reqs[s]) /\ s \in Req
  BY DEF UploadsInv, StoredInv
<1>2. Bounds(reqs[s])'
  BY <1>1 DEF Good, Bounds, Same
<1>3. OnRecord(reqs[s])'
  BY <1>1 DEF Good, Bounds, OnRecord, RecordKept, Same
<1>4. Heard(reqs[s])'
  BY <1>1 DEF Good, Heard, Same
<1>5. OnDisk(reqs[s])'
  <2>1. reqs'[s].linked => spool'[reqs'[s].up] # NoFile
    BY <1>1 DEF Good, Bounds, OnDisk, Same, UploadsInv, Typed
  <2>2. CASE reqs[s].up = u
    BY <1>1, <2>1, <2>2 DEF OnDisk, Same
  <2>3. CASE reqs[s].up # u
    <3>1. reqs'[s].linked <=> reqs[s].linked
      BY <1>1, <2>3
    <3>2. reqs[s].step \notin {"none", "post"} => reqs[s].up \in Upload /\ spool'[reqs[s].up] = spool[reqs[s].up]
      BY <1>1, <2>3 DEF Good, Bounds, UploadsInv, Typed
    <3> QED BY <1>1, <2>1, <3>1, <3>2 DEF Good, OnDisk, DiskKept, Same
  <2> QED BY <2>2, <2>3
<1> QED BY <1>2, <1>3, <1>4, <1>5 DEF Good

LEMMA FinishStoreInv == ASSUME UploadsInv, NEW r \in Req, FinishStore(r) PROVE UploadsInv'
<1> DEFINE u == reqs[r].up
           moved == [reqs EXCEPT ![r].step = "update"]
<1>1. /\ reqs[r].step = "store" /\ u \in Upload
      /\ UNCHANGED <<rest, tables, old, sweep, faults, assumed>>
  BY DEF FinishStore, At, UploadsInv, StoredInv, Good, Bounds
<1>2. CASE spool[u] = NoFile
  <2>1. Fail(r) /\ UNCHANGED disks
    BY <1>2 DEF FinishStore
  <2> QED BY <1>1, <2>1, OnlyFails DEF UploadsInv, Typed
<1>3. CASE spool[u] # NoFile
  <2>1. /\ original' = [original EXCEPT ![u] = spool[u]] /\ UNCHANGED client
        /\ original' \in [Upload -> 0 .. NoFile]
    BY <1>1, <1>3 DEF FinishStore, UploadsInv, Typed
  <2>2. u \notin taken => spool[u] = Size
    BY <1>1, <1>3 DEF UploadsInv, StoredInv, Good, OnDisk, Whole
  <2>3. /\ original'[u] = spool[u] /\ \A v \in Upload \ {u} : original'[v] = original[v]
        /\ taken' = taken /\ UNCHANGED <<day, entry, row, probes>>
    BY <1>1, <2>1 DEF UploadsInv, Typed, rest, tables
  <2>4. RecordKept
    BY <2>3, TablesKept DEF UploadsInv
  <2>5. CASE "s3" \notin day
    <3>1. spool' = [spool EXCEPT ![u] = NoFile] /\ reqs' = Unlink(moved, u)
      BY <1>3, <2>5 DEF FinishStore
    <3>2. /\ spool'[u] = NoFile /\ \A v \in Upload \ {u} : spool'[v] = spool[v]
          /\ spool' \in [Upload -> 0 .. NoFile]
      BY <1>1, <3>1, Sizes DEF UploadsInv, Typed
    <3>3. DiskKept
      BY <2>2, <2>3, <3>2 DEF DiskKept
    <3>4. (\A v \in Upload : Whole(v))'
      BY <2>2, <2>3, <3>2, Sizes DEF Whole, UploadsInv, StoredInv
    <3>5. /\ moved \in [Req -> ReqType] /\ moved[r].step = "update" /\ moved[r].up = u
          /\ moved[r].heard = reqs[r].heard
          /\ \A s \in Req \ {r} : moved[s] = reqs[s]
      BY DEF UploadsInv, Typed, ReqType, ReqStep
    <3> HIDE DEF moved
    <3>6. /\ reqs' \in [Req -> ReqType] /\ reqs'[r].step = "update" /\ reqs'[r].up = u
          /\ reqs'[r].heard = reqs[r].heard /\ ~reqs'[r].linked
          /\ \A s \in Req \ {r} : Same(s) /\ (reqs'[s].linked <=> reqs[s].linked /\ reqs[s].up # u)
      BY <1>1, <3>1, <3>5, UnlinkIs DEF Same
    <3>7. \A s \in Req \ {r} : Good(reqs[s])'
      BY <1>1, <2>1, <2>2, <2>3, <2>4, <3>1, <3>3, <3>6, SpoolGone
    <3>8. Good(reqs[r])'
      BY <1>1, <2>1, <2>2, <2>3, <3>6 DEF UploadsInv, StoredInv, Good, Bounds, OnDisk, OnRecord, Heard
    <3>9. OneHeard'
      BY <3>6 DEF UploadsInv, StoredInv, OneHeard, Same
    <3>10. Typed'
      BY <1>1, <2>1, <3>2, <3>6 DEF UploadsInv, Typed, rest, tables
    <3>11. DoneGood'
      BY <1>1, <2>1, <2>4, <3>3, DoneStays DEF UploadsInv
    <3> QED BY <3>4, <3>7, <3>8, <3>9, <3>10, <3>11 DEF UploadsInv, StoredInv
  <2>6. CASE "s3" \in day
    <3>1. Goto(r, "remove") /\ spool' = spool
      BY <1>3, <2>6 DEF FinishStore
    <3>2. DiskKept
      BY <2>2, <2>3, <3>1 DEF DiskKept
    <3>3. (\A v \in Upload : Whole(v))'
      BY <2>2, <2>3, <3>1, Sizes DEF Whole, UploadsInv, StoredInv
    <3>4. LinksKept(r)
      BY <3>1 DEF LinksKept, UploadsInv, StoredInv, Good, OnDisk
    <3>5. reqs'[r].step = "remove" /\ reqs'[r].up = u /\ reqs'[r].linked = reqs[r].linked
      BY <3>1, GotoIs DEF UploadsInv, ReqStep
    <3>6. Bounds(reqs[r])' /\ OnDisk(reqs[r])' /\ OnRecord(reqs[r])'
      BY <1>1, <1>3, <2>2, <2>3, <3>1, <3>5 DEF Bounds, OnDisk, OnRecord
    <3>7. /\ Good(reqs[r])' /\ reqs' \in [Req -> ReqType]
          /\ \A s \in Req \ {r} : reqs'[s] = reqs[s]
          /\ \A s \in Req \ {r} : reqs[s].heard => client' = client /\ ~reqs'[r].heard
      BY <1>1, <2>1, <3>1, <3>6, GotoGood DEF UploadsInv, ReqStep
    <3>8. Typed'
      BY <1>1, <2>1, <3>1, <3>7 DEF UploadsInv, Typed, rest, tables
    <3> QED BY <1>1, <2>1, <2>4, <3>2, <3>3, <3>4, <3>7, <3>8, Moved
  <2> QED BY <2>5, <2>6
<1> QED BY <1>2, <1>3

LEMMA FinishRemoveInv == ASSUME UploadsInv, NEW r \in Req, FinishRemove(r) PROVE UploadsInv'
<1> DEFINE u == reqs[r].up
           moved == [reqs EXCEPT ![r].step = "update"]
<1>1. /\ reqs[r].step = "remove" /\ u \in Upload
      /\ UNCHANGED <<rest, tables, original, old, client, assumed, sweep, faults>>
      /\ spool' = [spool EXCEPT ![u] = NoFile] /\ reqs' = Unlink(moved, u)
  BY DEF FinishRemove, At, UploadsInv, StoredInv, Good, Bounds, clientVars
<1>2. u \in taken \/ original[u] = Size
  BY <1>1 DEF UploadsInv, StoredInv, Good, OnDisk
<1>3. /\ spool'[u] = NoFile /\ \A v \in Upload \ {u} : spool'[v] = spool[v]
      /\ spool' \in [Upload -> 0 .. NoFile] /\ UNCHANGED <<day, taken, entry, row, probes, original>>
  BY <1>1, Sizes DEF UploadsInv, Typed, rest, tables
<1>4. DiskKept
  BY <1>2, <1>3 DEF DiskKept
<1>5. (\A v \in Upload : Whole(v))'
  BY <1>2, <1>3, Sizes DEF Whole, UploadsInv, StoredInv
<1>6. /\ moved \in [Req -> ReqType] /\ moved[r].step = "update" /\ moved[r].up = u
      /\ moved[r].heard = reqs[r].heard
      /\ \A s \in Req \ {r} : moved[s] = reqs[s]
  BY DEF UploadsInv, Typed, ReqType, ReqStep
<1> HIDE DEF moved
<1>7. /\ reqs' \in [Req -> ReqType] /\ reqs'[r].step = "update" /\ reqs'[r].up = u
      /\ reqs'[r].heard = reqs[r].heard /\ ~reqs'[r].linked
      /\ \A s \in Req \ {r} : Same(s) /\ (reqs'[s].linked <=> reqs[s].linked /\ reqs[s].up # u)
  BY <1>1, <1>6, UnlinkIs DEF Same
<1>8. RecordKept
  BY <1>3, TablesKept DEF UploadsInv
<1>9. \A s \in Req \ {r} : Good(reqs[s])'
  <2>1. UNCHANGED client /\ (u \in taken' \/ original'[u] = Size) /\ spool' = [spool EXCEPT ![u] = NoFile]
    BY <1>1, <1>2, <1>3
  <2> QED BY <1>1, <1>4, <1>7, <1>8, <2>1, SpoolGone
<1>10. Good(reqs[r])'
  BY <1>1, <1>2, <1>3, <1>7 DEF UploadsInv, StoredInv, Good, Bounds, OnDisk, OnRecord, Heard
<1>11. OneHeard'
  BY <1>7 DEF UploadsInv, StoredInv, OneHeard, Same
<1>12. Typed'
  BY <1>1, <1>3, <1>7 DEF UploadsInv, Typed
<1>13. DoneGood'
  BY <1>1, <1>4, <1>8, DoneStays DEF UploadsInv
<1> QED BY <1>5, <1>9, <1>10, <1>11, <1>12, <1>13 DEF UploadsInv, StoredInv

LEMMA FinishUpdateInv == ASSUME UploadsInv, NEW r \in Req, FinishUpdate(r) PROVE UploadsInv'
<1> DEFINE u == reqs[r].up
<1>1. /\ reqs[r].step = "update" /\ u \in Upload /\ Goto(r, "enqueue")
      /\ UNCHANGED <<rest, row, probes, disks, old, client, assumed, sweep, faults>>
      /\ entry' = [entry EXCEPT ![u] = IF entry[u] = "gone" THEN "gone" ELSE "probing"]
  BY DEF FinishUpdate, At, UploadsInv, StoredInv, Good, Bounds, clientVars
<1>2. /\ entry' \in [Upload -> {"none", "uploading", "probing", "gone"}]
      /\ entry'[u] \in {"probing", "gone"} /\ (entry[u] = "gone" => entry'[u] = "gone")
      /\ \A v \in Upload \ {u} : entry'[v] = entry[v]
  BY <1>1 DEF UploadsInv, Typed
<1>3. reqs'[r].step = "enqueue" /\ reqs'[r].up = u /\ reqs'[r].linked = reqs[r].linked
  BY <1>1, GotoIs DEF UploadsInv, ReqStep
<1>4. Bounds(reqs[r])' /\ OnDisk(reqs[r])' /\ OnRecord(reqs[r])'
  BY <1>1, <1>2, <1>3 DEF UploadsInv, StoredInv, Good, Bounds, OnDisk, OnRecord, rest, disks
<1>5. /\ Good(reqs[r])' /\ reqs' \in [Req -> ReqType]
      /\ \A s \in Req \ {r} : reqs'[s] = reqs[s]
      /\ \A s \in Req \ {r} : reqs[s].heard => client' = client /\ ~reqs'[r].heard
  BY <1>1, <1>4, GotoGood DEF UploadsInv, ReqStep
<1>6. Typed'
  BY <1>1, <1>2, <1>5 DEF UploadsInv, Typed, rest, disks
<1>7. DiskKept /\ (\A v \in Upload : Whole(v))' /\ LinksKept(r)
  BY <1>1, NothingKept DEF UploadsInv, rest, disks
<1>8. RecordKept
  BY <1>1, <1>2 DEF RecordKept
<1> QED BY <1>1, <1>5, <1>6, <1>7, <1>8, Moved

LEMMA FinishEnqueueInv == ASSUME UploadsInv, NEW r \in Req, FinishEnqueue(r) PROVE UploadsInv'
<1> DEFINE u == reqs[r].up
<1>1. /\ reqs[r].step = "enqueue" /\ u \in Upload
      /\ UNCHANGED <<rest, entry, row, disks, old, sweep, faults, assumed>>
  BY DEF FinishEnqueue, At, UploadsInv, StoredInv, Good, Bounds
<1>2. CASE entry[u] = "gone"
  <2>1. Fail(r) /\ UNCHANGED probes
    BY <1>2 DEF FinishEnqueue
  <2> QED BY <1>1, <2>1, OnlyFails DEF UploadsInv, Typed, tables
<1>3. CASE entry[u] # "gone"
  <2>1. probes' = [probes EXCEPT ![u] = probes[u] + 1] /\ Goto(r, "unrow") /\ UNCHANGED client
    BY <1>3 DEF FinishEnqueue
  <2>2. /\ probes' \in [Upload -> Nat] /\ probes'[u] > 0
        /\ \A v \in Upload \ {u} : probes'[v] = probes[v]
    BY <1>1, <2>1 DEF UploadsInv, Typed
  <2>3. reqs'[r].step = "unrow" /\ reqs'[r].up = u /\ reqs'[r].linked = reqs[r].linked
    BY <2>1, GotoIs DEF UploadsInv, ReqStep
  <2>4. Bounds(reqs[r])' /\ OnDisk(reqs[r])' /\ OnRecord(reqs[r])'
    BY <1>1, <2>2, <2>3 DEF UploadsInv, StoredInv, Good, Bounds, OnDisk, OnRecord, rest, disks
  <2>5. /\ Good(reqs[r])' /\ reqs' \in [Req -> ReqType]
        /\ \A s \in Req \ {r} : reqs'[s] = reqs[s]
        /\ \A s \in Req \ {r} : reqs[s].heard => client' = client /\ ~reqs'[r].heard
    BY <1>1, <2>1, <2>4, GotoGood DEF UploadsInv, ReqStep
  <2>6. Typed'
    BY <1>1, <2>1, <2>2, <2>5 DEF UploadsInv, Typed, rest, disks
  <2>7. DiskKept /\ (\A v \in Upload : Whole(v))' /\ LinksKept(r)
    BY <1>1, NothingKept DEF UploadsInv, rest, disks
  <2>8. RecordKept
    BY <1>1, <2>2 DEF RecordKept
  <2> QED BY <1>1, <2>1, <2>5, <2>6, <2>7, <2>8, Moved
<1> QED BY <1>2, <1>3

LEMMA FaultIs == ASSUME Typed, NEW what, Fault(what) PROVE faults' \in 0 .. MaxFaults
BY UploadsAssumption DEF Typed, Fault

LEMMA FinishRowInv == ASSUME UploadsInv, NEW r \in Req, FinishRow(r) PROVE UploadsInv'
<1> DEFINE u == reqs[r].up
<1>1. /\ reqs[r].step = "unrow" /\ u \in Upload
      /\ UNCHANGED <<rest, entry, probes, disks, old, sweep, assumed>>
      /\ Succeed(r) /\ row' \in SUBSET Upload /\ faults' \in 0 .. MaxFaults
  BY FaultIs DEF FinishRow, At, UploadsInv, StoredInv, Good, Bounds, Typed
<1>2. Answer(r, NoReq) /\ client' = IF reqs[r].heard THEN [client EXCEPT !.phase = "done"] ELSE client
  BY <1>1 DEF Succeed, Learns
<1>3. client' \in ClientType /\ client'.url = client.url /\ (~reqs[r].heard => client' = client)
  BY <1>2 DEF UploadsInv, Typed, ClientType
<1>4. Typed'
  BY <1>1, <1>2, <1>3, AnswerNone DEF UploadsInv, Typed, rest, disks
<1>5. DiskKept /\ (\A v \in Upload : Whole(v))' /\ LinksKept(r) /\ RecordKept
  BY <1>1, NothingKept, TablesKept DEF UploadsInv, rest, disks
<1>6. CASE ~reqs[r].heard
  BY <1>1, <1>2, <1>3, <1>4, <1>5, <1>6, AnswerNone, Moved
<1>7. CASE reqs[r].heard
  <2>1. client'.url = u
    BY <1>1, <1>3, <1>7 DEF UploadsInv, StoredInv, Good, Heard
  <2>2. /\ entry[u] \in {"probing", "gone"} /\ (entry[u] = "gone" \/ probes[u] > 0)
        /\ u \in taken \/ original[u] = Size
    BY <1>1 DEF UploadsInv, StoredInv, Good, OnDisk, OnRecord
  <2>3. DoneGood'
    BY <1>1, <2>1, <2>2 DEF DoneGood, rest, disks
  <2>4. (\A s \in Req : Good(reqs[s]))' /\ OneHeard'
    BY <1>2, <1>3, <1>5, AnswerNone, OneMoves, OthersUnheard DEF UploadsInv
  <2> QED BY <1>4, <1>5, <2>3, <2>4 DEF UploadsInv, StoredInv
<1> QED BY <1>6, <1>7

LEMMA RequestFailsInv == ASSUME UploadsInv, NEW r \in Req, RequestFails(r) PROVE UploadsInv'
<1>1. Fail(r) /\ UNCHANGED <<rest, tables, disks, old, sweep, assumed>> /\ faults' \in 0 .. MaxFaults
  BY FaultIs DEF RequestFails, UploadsInv, Typed
<1> QED BY <1>1, OnlyFails

LEMMA TerminateRowInv == ASSUME UploadsInv, NEW r \in Req, TerminateRow(r) PROVE UploadsInv'
<1>1. /\ reqs[r].step = "terminate" /\ Goto(r, "drop") /\ row' \subseteq Upload
      /\ UNCHANGED <<rest, entry, probes, disks, old, client, assumed, sweep, faults>>
  BY DEF TerminateRow, At, clientVars, UploadsInv, Typed
<1>2. reqs'[r].step = "drop" /\ reqs'[r].up = reqs[r].up /\ reqs'[r].linked = reqs[r].linked
  BY <1>1, GotoIs DEF UploadsInv, ReqStep
<1>3. Bounds(reqs[r])' /\ OnDisk(reqs[r])' /\ OnRecord(reqs[r])'
  BY <1>1, <1>2 DEF UploadsInv, StoredInv, Good, Bounds, OnDisk, OnRecord, disks
<1>4. /\ Good(reqs[r])' /\ reqs' \in [Req -> ReqType]
      /\ \A s \in Req \ {r} : reqs'[s] = reqs[s]
      /\ \A s \in Req \ {r} : reqs[s].heard => client' = client /\ ~reqs'[r].heard
  BY <1>1, <1>3, GotoGood DEF UploadsInv, ReqStep
<1>5. Typed'
  BY <1>1, <1>4 DEF UploadsInv, Typed, rest, disks
<1>6. DiskKept /\ (\A v \in Upload : Whole(v))' /\ LinksKept(r) /\ RecordKept
  BY <1>1, NothingKept, TablesKept DEF UploadsInv, rest, disks
<1> QED BY <1>1, <1>4, <1>5, <1>6, Moved

LEMMA TerminateEntryInv == ASSUME UploadsInv, NEW r \in Req, TerminateEntry(r) PROVE UploadsInv'
<1> DEFINE u == reqs[r].up
<1>1. /\ Answer(r, NoReq) /\ row' \subseteq Upload
      /\ UNCHANGED <<rest, probes, disks, old, client, assumed, sweep, faults>>
      /\ entry' = [entry EXCEPT ![u] = IF entry[u] = "uploading" THEN "gone" ELSE entry[u]]
  BY DEF TerminateEntry, clientVars, UploadsInv, Typed
<1>2. /\ entry' \in [Upload -> {"none", "uploading", "probing", "gone"}]
      /\ \A v \in Upload : entry'[v] = entry[v] \/ entry[v] = "uploading"
  BY <1>1 DEF UploadsInv, Typed
<1>3. RecordKept
  BY <1>1, <1>2 DEF RecordKept
<1>4. Typed'
  BY <1>1, <1>2, AnswerNone DEF UploadsInv, Typed, rest, disks
<1>5. DiskKept /\ (\A v \in Upload : Whole(v))' /\ LinksKept(r)
  BY <1>1, NothingKept DEF UploadsInv, rest, disks
<1> QED BY <1>1, <1>3, <1>4, <1>5, AnswerNone, Moved

LEMMA HandlerInv == ASSUME UploadsInv, NEW r \in Req, Handler(r) PROVE UploadsInv'
BY PostEntryInv, PostRowInv, HeadFileInv, PatchFileInv, WriteOpenInv, WritePartInv, WriteBreaksInv,
   FinishStatInv, FinishStoreInv, FinishRemoveInv, FinishUpdateInv, FinishEnqueueInv, FinishRowInv,
   RequestFailsInv, TerminateRowInv, TerminateEntryInv
   DEF Handler

-----------------------------------------------------------------------------
(* The client, the ways an upload ends before its time, and the sweep.        *)

LEMMA OpeningGood ==
    ASSUME UploadsInv, NEW s \in Req, reqs'[s] = Opening, client'.phase = "waiting", client'.url = client.url
    PROVE  Good(reqs[s])'
BY OpeningIs DEF UploadsInv, Good, Bounds, OnDisk, OnRecord, Heard

LEMMA UnheardIs ==
    ASSUME UploadsInv, NEW s \in Req
    PROVE  LET q == Unheard(reqs)[s]
           IN  /\ q \in ReqType /\ ~q.heard /\ q.step = reqs[s].step /\ q.up = reqs[s].up
               /\ q.off = reqs[s].off /\ q.linked = reqs[s].linked
<1>1. reqs[s] \in ReqType
  BY DEF UploadsInv, Typed
<1>2. Unheard(reqs)[s] = [reqs[s] EXCEPT !.heard = FALSE]
  BY DEF Unheard
<1> QED BY <1>1, <1>2 DEF ReqType

LEMMA UnheardGood ==
    ASSUME UploadsInv, NEW s \in Req, reqs'[s] = Unheard(reqs)[s], UNCHANGED <<rest, tables, disks>>
    PROVE  Good(reqs[s])'
BY UnheardIs DEF UploadsInv, StoredInv, Good, Bounds, OnDisk, OnRecord, Heard, rest, tables, disks

LEMMA NoneHeard ==
    ASSUME UploadsInv, client.phase # "waiting"
    PROVE  \A s \in Req : ~reqs[s].heard
BY DEF UploadsInv, StoredInv, Good, Heard

LEMMA StartUploadInv == ASSUME UploadsInv, StartUpload PROVE UploadsInv'
<1>1. PICK r \in Free : reqs' = [reqs EXCEPT ![r] = Opening]
  BY DEF StartUpload
<1>2. /\ client.phase \in {"new", "paused"} /\ client' = [client EXCEPT !.phase = "waiting"]
      /\ UNCHANGED <<rest, tables, disks, old, sweep, faults, assumed>>
  BY DEF StartUpload
<1>3. r \in Req /\ Opening \in ReqType
  BY <1>1, OpeningIs DEF Free, UploadsInv
<1>4. client' \in ClientType /\ client'.phase = "waiting" /\ client'.url = client.url
  BY <1>2 DEF UploadsInv, Typed, ClientType
<1>5. reqs'[r] = Opening /\ \A s \in Req \ {r} : reqs'[s] = reqs[s]
  BY <1>1, <1>3 DEF UploadsInv, Typed
<1>6. Typed'
  BY <1>1, <1>2, <1>3, <1>4 DEF UploadsInv, Typed, rest, tables, disks
<1>7. DiskKept /\ (\A v \in Upload : Whole(v))' /\ LinksKept(r) /\ RecordKept
  BY <1>2, <1>3, NothingKept, TablesKept DEF UploadsInv, rest, disks, tables
<1>8. Good(reqs[r])'
  BY <1>3, <1>4, <1>5, OpeningGood
<1> QED BY <1>2, <1>3, <1>4, <1>5, <1>6, <1>7, <1>8, NoneHeard, Moved

LEMMA AbortUploadInv == ASSUME UploadsInv, AbortUpload PROVE UploadsInv'
<1>1. /\ reqs' = Unheard(reqs) /\ client' = [client EXCEPT !.phase = "paused"]
      /\ UNCHANGED <<rest, tables, disks, old, sweep, assumed>> /\ faults' \in 0 .. MaxFaults
  BY FaultIs DEF AbortUpload, UploadsInv
<1>2. client' \in ClientType /\ client'.phase = "paused"
  BY <1>1 DEF UploadsInv, Typed, ClientType
<1>3. reqs' \in [Req -> ReqType]
  BY <1>1, UnheardIs DEF Unheard
<1>4. Typed'
  BY <1>1, <1>2, <1>3 DEF UploadsInv, Typed, rest, tables, disks
<1>5. (\A v \in Upload : Whole(v))'
  BY <1>1, NothingKept DEF UploadsInv, rest, disks
<1>6. (\A s \in Req : Good(reqs[s]))'
  BY <1>1, UnheardGood
<1>7. OneHeard' /\ DoneGood'
  BY <1>1, <1>2, UnheardIs DEF OneHeard, DoneGood
<1> QED BY <1>4, <1>5, <1>6, <1>7 DEF UploadsInv, StoredInv

LEMMA LoseConnectionInv == ASSUME UploadsInv, NEW r \in Req, LoseConnection(r) PROVE UploadsInv'
<1>1. /\ reqs[r].heard /\ UNCHANGED <<rest, tables, disks, old, sweep, assumed>>
      /\ faults' \in 0 .. MaxFaults /\ client' = RetryOr([client EXCEPT !.phase = "failed"])
  BY FaultIs DEF LoseConnection, UploadsInv
<1>2. client.phase = "waiting"
  BY <1>1 DEF UploadsInv, StoredInv, Good, Heard
<1>3. /\ client' \in ClientType /\ client'.url = client.url /\ client'.phase \in {"waiting", "failed"}
      /\ CanRetry => client'.phase = "waiting"
  BY <1>1, <1>2, RetryIs DEF UploadsInv
<1>4. (\A v \in Upload : Whole(v))'
  BY <1>1, NothingKept DEF UploadsInv, rest, disks
<1>5. DoneGood'
  BY <1>3 DEF DoneGood
<1>6. CASE CanRetry
  <2>1. PICK s \in Free : reqs' = [Unheard(reqs) EXCEPT ![s] = Opening]
    BY <1>6 DEF LoseConnection
  <2>2. s \in Req /\ Opening \in ReqType
    BY <2>1, OpeningIs DEF Free, UploadsInv
  <2>3. reqs'[s] = Opening /\ \A k \in Req \ {s} : reqs'[k] = Unheard(reqs)[k]
    BY <2>1, <2>2 DEF Unheard
  <2>4. reqs' \in [Req -> ReqType]
    BY <2>1, <2>2, UnheardIs DEF Unheard
  <2>5. Typed'
    BY <1>1, <1>3, <2>4 DEF UploadsInv, Typed, rest, tables, disks
  <2>6. (\A k \in Req : Good(reqs[k]))'
    BY <1>1, <1>3, <1>6, <2>2, <2>3, UnheardGood, OpeningGood
  <2>7. OneHeard'
    BY <2>3, UnheardIs DEF OneHeard
  <2> QED BY <1>4, <1>5, <2>5, <2>6, <2>7 DEF UploadsInv, StoredInv
<1>7. CASE ~CanRetry
  <2>1. reqs' = Unheard(reqs)
    BY <1>7 DEF LoseConnection
  <2>2. reqs' \in [Req -> ReqType]
    BY <2>1, UnheardIs DEF Unheard
  <2>3. Typed'
    BY <1>1, <1>3, <2>2 DEF UploadsInv, Typed, rest, tables, disks
  <2>4. (\A k \in Req : Good(reqs[k]))'
    BY <1>1, <2>1, UnheardGood
  <2>5. OneHeard'
    BY <2>1, UnheardIs DEF OneHeard
  <2> QED BY <1>4, <1>5, <2>3, <2>4, <2>5 DEF UploadsInv, StoredInv
<1> QED BY <1>6, <1>7

LEMMA RestartServerInv == ASSUME UploadsInv, RestartServer PROVE UploadsInv'
<1> DEFINE lost == client.phase = "waiting"
<1>1. /\ UNCHANGED <<rest, tables, disks, old, sweep, assumed>> /\ faults' \in 0 .. MaxFaults
      /\ client' = IF lost THEN RetryOr([client EXCEPT !.phase = "failed"]) ELSE client
  BY FaultIs DEF RestartServer, UploadsInv
<1>2. PICK s \in Req : reqs' = [k \in Req |-> IF k = s /\ lost /\ CanRetry THEN Opening ELSE NoReq]
  BY DEF RestartServer
<1>3. /\ client' \in ClientType /\ client'.url = client.url
      /\ client'.phase \in {client.phase, "failed"}
      /\ CanRetry => client'.phase = client.phase
  BY <1>1, RetryIs DEF UploadsInv, Typed
<1>4. reqs' \in [Req -> ReqType]
  BY <1>2, OpeningIs, NoReqIs DEF UploadsInv
<1>5. Typed'
  BY <1>1, <1>3, <1>4 DEF UploadsInv, Typed, rest, tables, disks
<1>6. DiskKept /\ RecordKept /\ (\A v \in Upload : Whole(v))'
  BY <1>1, NothingKept, TablesKept DEF UploadsInv, rest, disks, tables
<1>7. \A k \in Req : reqs'[k] = NoReq \/ (k = s /\ reqs'[k] = Opening /\ lost /\ CanRetry)
  BY <1>2
<1>8. (\A k \in Req : Good(reqs[k]))'
  <2>1. ASSUME NEW k \in Req, reqs'[k] = NoReq PROVE Good(reqs[k])'
    BY <2>1, NoReqIs DEF Good, Bounds, OnDisk, OnRecord, Heard
  <2>2. ASSUME NEW k \in Req, reqs'[k] = Opening, lost, CanRetry PROVE Good(reqs[k])'
    BY <1>3, <2>2, OpeningGood
  <2> QED BY <1>7, <2>1, <2>2
<1>9. OneHeard'
  BY <1>7, NoReqIs DEF OneHeard
<1>10. DoneGood'
  BY <1>1, <1>3, <1>6, DoneStays DEF UploadsInv
<1> QED BY <1>5, <1>6, <1>8, <1>9, <1>10 DEF UploadsInv, StoredInv

(* Steps that leave the requests and the client alone.                        *)
LEMMA Beside ==
    ASSUME UploadsInv, Typed', UNCHANGED <<reqs, client, assumed, disks, taken>>, RecordKept
    PROVE  UploadsInv'
<1>1. DiskKept /\ (\A v \in Upload : Whole(v))' /\ \A r \in Req : LinksKept(r)
  BY NothingKept DEF UploadsInv, disks
<1>2. DoneGood'
  BY <1>1, DoneStays DEF UploadsInv
<1>3. (\A s \in Req : Good(reqs[s]))'
  BY DEF UploadsInv, StoredInv, Good, Bounds, OnDisk, OnRecord, Heard, RecordKept, disks
<1>4. OneHeard'
  BY DEF UploadsInv, StoredInv, OneHeard
<1> QED BY <1>1, <1>2, <1>3, <1>4 DEF UploadsInv, StoredInv

LEMMA DeleteEntryInv == ASSUME UploadsInv, NEW u \in Upload, DeleteEntry(u) \/ Age(u) PROVE UploadsInv'
<1>1. /\ entry' \in [Upload -> {"none", "uploading", "probing", "gone"}]
      /\ row' \subseteq Upload /\ old' \subseteq Upload
      /\ UNCHANGED <<rest, probes, disks, reqs, client, assumed, sweep, faults>>
      /\ \A v \in Upload : entry'[v] \in {entry[v], "gone"}
  BY DEF DeleteEntry, Age, UploadsInv, Typed, clientVars, tables
<1>2. Typed'
  BY <1>1 DEF UploadsInv, Typed, rest, disks
<1>3. RecordKept
  BY <1>1 DEF RecordKept
<1> QED BY <1>1, <1>2, <1>3, Beside DEF rest

LEMMA TerminateSpoolInv == ASSUME UploadsInv, NEW r \in Req, TerminateSpool(r) PROVE UploadsInv'
<1>1. PICK u \in row \ taken :
          /\ spool' = [spool EXCEPT ![u] = NoFile]
          /\ reqs' = Unlink([reqs EXCEPT ![r] = Terminating(u)], u)
          /\ taken' = taken \cup {u}
  BY DEF TerminateSpool
<1> DEFINE next == [reqs EXCEPT ![r] = Terminating(u)]
<1>2. /\ u \in Upload /\ reqs[r] = NoReq
      /\ UNCHANGED <<day, tables, original, old, client, assumed, sweep, faults>>
  BY <1>1 DEF TerminateSpool, clientVars, Free, UploadsInv, Typed
<1>3. /\ next \in [Req -> ReqType] /\ next[r].step = "terminate" /\ next[r].up = u
      /\ ~next[r].heard /\ \A s \in Req \ {r} : next[s] = reqs[s]
  <2>1. Sends("terminate", u, 0, 0) \in ReqType /\ Sends("terminate", u, 0, 0).up = u
        /\ Sends("terminate", u, 0, 0).step = "terminate"
    BY <1>2, SendsIs, Sizes DEF ReqStep
  <2>2. /\ Terminating(u) \in ReqType /\ Terminating(u).step = "terminate"
        /\ Terminating(u).up = u /\ ~Terminating(u).heard
    BY <2>1 DEF Terminating, ReqType
  <2> QED BY <2>2 DEF UploadsInv, Typed
<1>4. reqs' = Unlink(next, u)
  BY <1>1
<1> HIDE DEF next
<1>5. /\ reqs' \in [Req -> ReqType] /\ reqs'[r].step = "terminate" /\ reqs'[r].up = u
      /\ ~reqs'[r].heard /\ ~reqs'[r].linked
      /\ \A s \in Req \ {r} : Same(s) /\ (reqs'[s].linked <=> reqs[s].linked /\ reqs[s].up # u)
  BY <1>2, <1>3, <1>4, UnlinkIs DEF Same
<1>6. /\ spool' \in [Upload -> 0 .. NoFile] /\ \A v \in Upload \ {u} : spool'[v] = spool[v]
  BY <1>1, <1>2, Sizes DEF UploadsInv, Typed
<1>7. DiskKept
  BY <1>1, <1>2, <1>6 DEF DiskKept
<1>8. (\A v \in Upload : Whole(v))'
  BY <1>1, <1>2, <1>6 DEF Whole, UploadsInv, StoredInv
<1>9. RecordKept
  BY <1>2, TablesKept DEF UploadsInv, tables
<1>10. \A s \in Req \ {r} : Good(reqs[s])'
  <2>1. UNCHANGED client /\ u \in taken'
    BY <1>1, <1>2
  <2> QED BY <1>1, <1>2, <1>5, <1>7, <1>9, <2>1, SpoolGone
<1>11. Good(reqs[r])'
  BY <1>1, <1>2, <1>5 DEF Good, Bounds, OnDisk, OnRecord, Heard
<1>12. OneHeard'
  BY <1>5 DEF UploadsInv, StoredInv, OneHeard, Same
<1>13. Typed'
  BY <1>1, <1>2, <1>5, <1>6 DEF UploadsInv, Typed, tables
<1>14. DoneGood'
  BY <1>2, <1>7, <1>9, DoneStays DEF UploadsInv
<1> QED BY <1>8, <1>10, <1>11, <1>12, <1>13, <1>14 DEF UploadsInv, StoredInv

LEMMA SweepSpoolInv == ASSUME UploadsInv, SweepSpool PROVE UploadsInv'
<1> DEFINE u == SomeOf(sweep.ids)
<1>1. /\ sweep.step = "spool" /\ sweep.ids # {} /\ spool' = [spool EXCEPT ![u] = NoFile]
      /\ reqs' = Unlink(reqs, u) /\ sweep' = [sweep EXCEPT !.step = "row"] /\ taken' = taken \cup {u}
      /\ UNCHANGED <<day, tables, original, old, client, assumed, faults>>
  BY DEF SweepSpool, clientVars
<1>2. u \in Upload
  BY <1>1, SomeOfIs DEF UploadsInv, Typed
<1> HIDE DEF u
<1>3. /\ reqs' \in [Req -> ReqType]
      /\ \A s \in Req : Same(s) /\ (reqs'[s].linked <=> reqs[s].linked /\ reqs[s].up # u)
  BY <1>1, <1>2, UnlinkIs DEF Same, UploadsInv, Typed
<1>4. /\ spool' \in [Upload -> 0 .. NoFile] /\ \A v \in Upload \ {u} : spool'[v] = spool[v]
  BY <1>1, <1>2, Sizes DEF UploadsInv, Typed
<1>5. DiskKept
  BY <1>1, <1>2, <1>4 DEF DiskKept
<1>6. (\A v \in Upload : Whole(v))'
  BY <1>1, <1>2, <1>4 DEF Whole, UploadsInv, StoredInv
<1>7. RecordKept
  BY <1>1, TablesKept DEF UploadsInv, tables
<1>8. \A s \in Req : Good(reqs[s])'
  BY <1>1, <1>2, <1>3, <1>5, <1>7, SpoolGone
<1>9. OneHeard'
  BY <1>3 DEF UploadsInv, StoredInv, OneHeard, Same
<1>10. sweep' \in [step : {"off", "spool", "row"}, ids : SUBSET Upload] /\ sweep'.ids # {}
  BY <1>1 DEF UploadsInv, Typed
<1>11. Typed'
  BY <1>1, <1>2, <1>3, <1>4, <1>10 DEF UploadsInv, Typed, tables
<1>12. DoneGood'
  BY <1>1, <1>5, <1>7, DoneStays DEF UploadsInv
<1> QED BY <1>6, <1>8, <1>9, <1>11, <1>12 DEF UploadsInv, StoredInv

LEMMA SweepInv == ASSUME UploadsInv, SweepRead \/ SweepRow \/ SweepEntries PROVE UploadsInv'
<1>1. /\ UNCHANGED <<day, taken, probes, disks, old, reqs, client, assumed>>
      /\ faults' \in 0 .. MaxFaults /\ row' \subseteq Upload
      /\ sweep' \in [step : {"off", "spool", "row"}, ids : SUBSET Upload] /\ sweep'.step # "row"
  <2>1. CASE SweepRead
    BY <2>1 DEF SweepRead, UploadsInv, Typed, rest, tables, clientVars
  <2>2. CASE SweepRow
    BY <2>2, FaultIs DEF SweepRow, UploadsInv, Typed, rest, clientVars, NoSweep
  <2>3. CASE SweepEntries
    BY <2>3 DEF SweepEntries, UploadsInv, Typed, rest, clientVars, NoSweep
  <2> QED BY <2>1, <2>2, <2>3
<1>2. /\ entry' \in [Upload -> {"none", "uploading", "probing", "gone"}]
      /\ \A v \in Upload : entry'[v] = entry[v] \/ entry[v] = "uploading"
  BY DEF SweepRead, SweepRow, SweepEntries, Stranded, UploadsInv, Typed, tables
<1>3. Typed'
  BY <1>1, <1>2 DEF UploadsInv, Typed, disks
<1>4. RecordKept
  BY <1>1, <1>2 DEF RecordKept
<1> QED BY <1>1, <1>3, <1>4, Beside

-----------------------------------------------------------------------------
LEMMA UploadsNextKeeps == UploadsInv /\ [UploadsNext]_uploadsVars => UploadsInv'
<1> SUFFICES ASSUME UploadsInv, [UploadsNext]_uploadsVars PROVE UploadsInv'
  OBVIOUS
<1>1. CASE UNCHANGED uploadsVars
  <2>1. Typed' /\ RecordKept
    BY <1>1, TablesKept DEF UploadsInv, Typed, uploadsVars, rest, tables, disks, clientVars
  <2> QED BY <1>1, <2>1, Beside DEF uploadsVars, rest, clientVars
<1> QED
  BY <1>1, StartUploadInv, AbortUploadInv, RestartServerInv, HandlerInv, LoseConnectionInv,
     TerminateSpoolInv, DeleteEntryInv, SweepInv, SweepSpoolInv
     DEF UploadsNext, Sweep

-----------------------------------------------------------------------------
(* The disk cache.                                                          *)

CopyType == [v : {0} \cup Version, whole : BOOLEAN]
CacheStep == {"none", "start", "hit", "drop", "unlock", "miss", "copy", "rename", "insert",
              "reopen", "fetch", "stat", "lock", "fill", "erase", "destroy"}
CallType == [op : {"open", "put", "delete"}, key : Key, step : CacheStep,
             v : {0} \cup Version, size : Nat, copy : CopyType]
TaskType == {NoTask} \cup CallType

CacheTyped ==
    /\ stored \in [Key -> {0} \cup Version] /\ file \in [Key -> CopyType]
    /\ tasks \in [Task -> TaskType]

\* What the cache holds of an object that is as the backend has it.
Fresh(k) == [v |-> stored[k], whole |-> TRUE]
Served(k)  == file[k] \in {NoCopy, Fresh(k)}

\* A change of a key whose history is clean has the key to itself.
Lone(k) ==
    \A s, t \in Task :
        /\ tasks[t].key = k /\ Changes(t)
        /\ tasks[s].key = k /\ tasks[s].op # "none"
        => s = t

\* A call knows the object as the backend has it, or has erased its file; a put that
\* has not reached the backend has changed nothing.
OwnFresh(t) ==
    LET k == tasks[t].key IN
    /\ tasks[t].op = "open" /\ tasks[t].step = "copy" => tasks[t].v = stored[k]
    /\ tasks[t].op = "open" /\ tasks[t].step = "rename" => tasks[t].copy = Fresh(k)
    /\ tasks[t].op = "put" => tasks[t].v \in Version
    /\ tasks[t].op = "put" /\ tasks[t].step = "start" => Served(k)
    /\ tasks[t].op = "put" /\ tasks[t].step # "start" => tasks[t].v = stored[k]
    /\ tasks[t].op = "delete" /\ tasks[t].step = "destroy" => file[k] = NoCopy

Clean(k) ==
    /\ Lone(k)
    /\ (\A t \in Task : tasks[t].key = k => ~Changes(t)) => Served(k)
    /\ \A t \in Task : tasks[t].key = k => OwnFresh(t)

CacheInv == CacheTyped /\ \A k \in Key \ tainted : Clean(k)

\* Evicting takes files away and changes none.
LEMMA EvictedFile ==
    ASSUME NEW i, "file" \in DOMAIN i, i.file \in [Key -> CopyType]
    PROVE  /\ Evicted(i).file \in [Key -> CopyType]
           /\ \A k \in Key : Evicted(i).file[k] \in {i.file[k], NoCopy}
<1> DEFINE tail(n) == ToSet(SubSeq(i.lru, n + 1, Len(i.lru)))
           n == Max({0} \cup {m \in 1..Len(i.lru) : i.total - Weight(i.noted, tail(m)) <= MaxSize})
<1>1. Evicted(i).file = [k \in Key |-> IF k \in tail(n) THEN NoCopy ELSE i.file[k]]
  BY DEF Evicted
<1> HIDE DEF n, tail
<1>2. NoCopy \in CopyType
  BY DEF NoCopy, CopyType
<1> QED
  BY <1>1, <1>2

\* So does an insertion, whether the key is there or not.
LEMMA InsertedFile ==
    ASSUME NEW i, DOMAIN i = {"lru", "noted", "total", "file", "resized"}, 
           i.file \in [Key -> CopyType], NEW k, NEW size
    PROVE  /\ Inserted(i, k, size).file \in [Key -> CopyType]
           /\ \A n \in Key : Inserted(i, k, size).file[n] \in {i.file[n], NoCopy}
<1> DEFINE there == k \in ToSet(i.lru)
           was == (IF there THEN {i.noted[k]} ELSE {})
                  \cup {SizeOf(v) : v \in {i.file[k].v} \ {0}}
           j == [i EXCEPT !.noted[k] = size, !.resized = @ \/ was \ {size} # {}]
           moved == [j EXCEPT !.lru = Touched(@, k)]
           added == [j EXCEPT !.lru = <<k>> \o @, !.total = @ + size]
<1>1. Inserted(i, k, size) = IF there THEN moved ELSE Evicted(added)
  BY DEF Inserted
<1>2. DOMAIN j = DOMAIN i /\ j.file = i.file
  OBVIOUS
<1> HIDE DEF j, there
<1>3. moved.file = i.file /\ added.file = i.file /\ "file" \in DOMAIN added
  BY <1>2
<1> HIDE DEF moved, added
<1>4. CASE there
  BY <1>1, <1>3, <1>4
<1>5. CASE ~there
  BY <1>1, <1>3, <1>5, EvictedFile
<1> QED
  BY <1>4, <1>5

\* Removal from the index leaves the files alone.
LEMMA RemovedFile ==
    ASSUME NEW k
    PROVE  Removed(Index, k).file = file
BY DEF Removed, Index

LEMMA RebuiltFile ==
    ASSUME file \in [Key -> CopyType]
    PROVE  /\ Rebuilt.file \in [Key -> CopyType]
           /\ \A k \in Key : Rebuilt.file[k] \in {file[k], NoCopy}
<1> DEFINE found == {k \in Key : file[k] # NoCopy}
           size == [k \in Key |-> IF k \in found THEN SizeOf(file[k].v) ELSE noted[k]]
           i == [Index EXCEPT !.lru = Walked(found), !.noted = size,
                              !.total = Weight(size, found)]
<1>1. Rebuilt = Evicted(i)
  BY DEF Rebuilt
<1>2. "file" \in DOMAIN i /\ i.file = file
  BY DEF Index
<1> HIDE DEF i
<1> QED
  BY <1>1, <1>2, EvictedFile

LEMMA CacheConstants ==
    /\ 0 \notin Version /\ 1 \in Version
    /\ \A v \in {0} \cup Version : SizeOf(v) \in Nat
    /\ NoCopy \in CopyType /\ Truncated \in CopyType /\ NoTask \in TaskType
    /\ NoTask.op = "none" /\ NoTask \notin CallType
BY CacheAssumption DEF SizeOf, NoCopy, Truncated, NoTask, CopyType, CallType, TaskType, CacheStep

\* What a step of one call must not do to the key of the call, and to others.
LEMMA TaskStep ==
    ASSUME CacheInv, CacheTyped', NEW t \in Task, tainted \subseteq tainted',
           \A s \in Task : s # t => tasks'[s] = tasks[s],
           \/ tasks'[t] = NoTask
           \/ tasks'[t].op = tasks[t].op /\ tasks'[t].key = tasks[t].key,
           tasks[t].op # "none",
           \A k \in Key : k # tasks[t].key =>
              stored'[k] = stored[k] /\ file'[k] \in {file[k], NoCopy},
           tasks[t].key \in Key \ tainted' =>
              /\ ~Changes(t) => /\ stored'[tasks[t].key] = stored[tasks[t].key]
                                /\ file'[tasks[t].key] \in {file[tasks[t].key], NoCopy, Fresh(tasks[t].key)}
              /\ Changes(t) /\ tasks'[t] = NoTask =>
                    file'[tasks[t].key] \in {NoCopy, [v |-> stored'[tasks[t].key], whole |-> TRUE]}
              /\ tasks'[t] # NoTask => OwnFresh(t)'
    PROVE  CacheInv'
<1> SUFFICES ASSUME NEW k \in Key \ tainted' PROVE Clean(k)'
  BY DEF CacheInv
<1>0. Clean(k)
  BY DEF CacheInv
<1>1. NoTask.op = "none" /\ ~(NoTask.op \in {"put", "delete"})
  BY DEF NoTask
<1>2. \A s \in Task : tasks'[s].op # "none" => 
        tasks'[s].op = tasks[s].op /\ tasks'[s].key = tasks[s].key
  BY <1>1
<1>3. Lone(k)'
  BY <1>0, <1>1, <1>2 DEF Clean, Lone, Changes
<1>4. CASE tasks[t].key # k
  <2>1. /\ stored'[k] = stored[k] /\ file'[k] \in {file[k], NoCopy}
        /\ Fresh(k)' = Fresh(k)
    BY <1>4 DEF Fresh
  <2>2. ASSUME \A s \in Task : tasks'[s].key = k => ~Changes(s)'
        PROVE  Served(k)'
    <3>1. \A s \in Task : tasks[s].key = k => ~Changes(s)
      BY <1>4, <2>2 DEF Changes
    <3> QED
      BY <1>0, <2>1, <3>1 DEF Clean, Served
  <2>3. ASSUME NEW s \in Task, tasks'[s].key = k
        PROVE  OwnFresh(s)'
    <3>1. CASE s = t
      <4>1. tasks'[t] = NoTask
        BY <1>4, <2>3, <3>1
      <4> QED
        BY <1>1, <3>1, <4>1 DEF OwnFresh
    <3>2. CASE s # t
      <4>1. tasks'[s] = tasks[s] /\ OwnFresh(s) /\ tasks[s].key = k
        BY <1>0, <2>3, <3>2 DEF Clean
      <4> QED
        BY <2>1, <4>1 DEF OwnFresh, Served, Fresh
    <3> QED
      BY <3>1, <3>2
  <2> QED
    BY <1>3, <2>2, <2>3 DEF Clean
<1>5. CASE tasks[t].key = k
  <2>1. ASSUME \A s \in Task : tasks'[s].key = k => ~Changes(s)'
        PROVE  Served(k)'
    <3>1. CASE Changes(t)
      <4>1. tasks'[t] = NoTask
        BY <1>5, <2>1, <3>1 DEF Changes
      <4> QED
        BY <1>5, <3>1, <4>1 DEF Served, Fresh
    <3>2. CASE ~Changes(t)
      <4>1. \A s \in Task : tasks[s].key = k => ~Changes(s)
        BY <2>1, <3>2 DEF Changes
      <4>2. Served(k)
        BY <1>0, <4>1 DEF Clean
      <4> QED
        BY <1>5, <3>2, <4>2 DEF Served, Fresh
    <3> QED
      BY <3>1, <3>2
  <2>2. ASSUME NEW s \in Task, tasks'[s].key = k
        PROVE  OwnFresh(s)'
    <3>1. CASE s = t
      <4>1. CASE tasks'[t] = NoTask
        BY <1>1, <3>1, <4>1 DEF OwnFresh
      <4>2. CASE tasks'[t] # NoTask
        BY <1>5, <3>1, <4>2
      <4> QED
        BY <4>1, <4>2
    <3>2. CASE s # t
      <4>1. tasks'[s] = tasks[s] /\ OwnFresh(s) /\ tasks[s].key = k
        BY <1>0, <2>2, <3>2 DEF Clean
      <4>2. CASE tasks[s].op = "none"
        BY <4>1, <4>2 DEF OwnFresh
      <4>3. CASE tasks[s].op # "none"
        <5>1. ~Changes(t) /\ ~Changes(s)
          BY <1>0, <1>5, <3>2, <4>1, <4>3 DEF Clean, Lone
        <5>2. stored'[k] = stored[k]
          BY <1>5, <5>1
        <5>3. ~(tasks'[s].op \in {"put", "delete"})
          BY <4>1, <5>1 DEF Changes
        <5> QED
          BY <4>1, <5>2, <5>3 DEF OwnFresh, Fresh
      <4> QED
        BY <4>2, <4>3
    <3> QED
      BY <3>1, <3>2
  <2> QED
    BY <1>3, <2>1, <2>2 DEF Clean
<1> QED
  BY <1>4, <1>5

\* A call that is under way.
LEMMA Doer ==
    ASSUME CacheInv, NEW t \in Task, NEW op, op # "none", NEW step, Doing(t, op, step)
    PROVE  /\ tasks[t] \in CallType /\ tasks[t].op = op /\ tasks[t].step = step
           /\ tasks[t].key \in Key /\ tasks[t].v \in {0} \cup Version
           /\ tasks[t].copy \in CopyType
           /\ stored \in [Key -> {0} \cup Version] /\ file \in [Key -> CopyType]
           /\ tasks \in [Task -> TaskType]
           /\ tasks[t].key \notin tainted => Clean(tasks[t].key) /\ OwnFresh(t)
<1>1. tasks[t] \in TaskType /\ tasks[t].op = op /\ tasks[t].step = step
  BY DEF CacheInv, CacheTyped, Doing
<1>2. tasks[t] \in CallType
  BY <1>1, CacheConstants DEF TaskType
<1>3. tasks[t].key \in Key /\ tasks[t].v \in {0} \cup Version /\ tasks[t].copy \in CopyType
  BY <1>2 DEF CallType
<1> QED
  BY <1>1, <1>2, <1>3 DEF CacheInv, CacheTyped, Clean

\* The steps after which a call has another next step, and knows another version,
\* size or copy.
LEMMA Stepped ==
    ASSUME NEW t \in Task, tasks \in [Task -> TaskType], tasks[t] \in CallType
    PROVE  /\ Return(t) => /\ tasks' \in [Task -> TaskType] /\ tasks'[t] = NoTask
                           /\ \A s \in Task : s # t => tasks'[s] = tasks[s]
           /\ \A step \in CacheStep : Then(t, step) =>
                /\ tasks' \in [Task -> TaskType]
                /\ \A s \in Task : s # t => tasks'[s] = tasks[s]
                /\ tasks'[t].op = tasks[t].op /\ tasks'[t].key = tasks[t].key
                /\ tasks'[t].step = step /\ tasks'[t].v = tasks[t].v
                /\ tasks'[t].copy = tasks[t].copy
<1>1. ASSUME Return(t)
      PROVE  /\ tasks' \in [Task -> TaskType] /\ tasks'[t] = NoTask
             /\ \A s \in Task : s # t => tasks'[s] = tasks[s]
  BY <1>1 DEF Return, TaskType
<1>2. ASSUME NEW step \in CacheStep, Then(t, step)
      PROVE  /\ tasks' \in [Task -> TaskType]
             /\ \A s \in Task : s # t => tasks'[s] = tasks[s]
             /\ tasks'[t].op = tasks[t].op /\ tasks'[t].key = tasks[t].key
             /\ tasks'[t].step = step /\ tasks'[t].v = tasks[t].v
             /\ tasks'[t].copy = tasks[t].copy
  <2> DEFINE r == [tasks[t] EXCEPT !.step = step]
  <2>1. /\ r \in CallType /\ r.op = tasks[t].op /\ r.key = tasks[t].key
        /\ r.step = step /\ r.v = tasks[t].v /\ r.copy = tasks[t].copy
    BY DEF CallType
  <2>2. tasks' = [tasks EXCEPT ![t] = r]
    BY <1>2 DEF Then
  <2> HIDE DEF r
  <2> QED
    BY <2>1, <2>2 DEF TaskType
<1> QED
  BY <1>1, <1>2

\* A copy of an object that nobody changes is the object.
LEMMA ReadIs ==
    ASSUME NEW t \in Task, stored \in [Key -> {0} \cup Version], tasks[t].key \in Key,
           tasks[t].v \in {0} \cup Version
    PROVE  /\ Read(t) \in CopyType
           /\ tasks[t].v = stored[tasks[t].key] => Read(t) \in {NoCopy, Fresh(tasks[t].key)}
           /\ tasks[t].v = stored[tasks[t].key] /\ tasks[t].v # 0 =>
                Read(t) = Fresh(tasks[t].key)
<1>1. stored[tasks[t].key] \in {0} \cup Version
  OBVIOUS
<1> DEFINE now == stored[tasks[t].key]
           v == tasks[t].v
<1>2. Read(t) = IF now = 0 \/ SizeOf(now) < SizeOf(v) THEN NoCopy
                ELSE IF SizeOf(now) = SizeOf(v) THEN [v |-> now, whole |-> TRUE]
                ELSE [v |-> v, whole |-> FALSE]
  BY DEF Read
<1>3. [v |-> now, whole |-> TRUE] \in CopyType /\ [v |-> v, whole |-> FALSE] \in CopyType
  BY <1>1 DEF CopyType
<1>4. Read(t) \in CopyType
  BY <1>2, <1>3, CacheConstants
<1>5. SizeOf(now) \in Nat
  BY <1>1, CacheConstants
<1>6. v = now => Read(t) = IF now = 0 THEN NoCopy ELSE Fresh(tasks[t].key)
  BY <1>2, <1>5 DEF Fresh
<1> QED
  BY <1>4, <1>6

-----------------------------------------------------------------------------
(* The steps of Open.                                                       *)

\* Those that only look.
LEMMA OpenLooks ==
    ASSUME CacheInv, NEW t \in Task,
           OpenLook(t) \/ OpenHit(t) \/ OpenUnlock(t) \/ OpenReopen(t)
    PROVE  CacheInv'
<1>1. \E step : Doing(t, "open", step) /\ step \notin {"copy", "rename"}
  BY DEF OpenLook, OpenHit, OpenUnlock, OpenReopen
<1>2. /\ tasks[t] \in CallType /\ tasks[t].op = "open" /\ tasks \in [Task -> TaskType]
      /\ tasks[t].key \in Key
  BY <1>1, Doer
<1>3. UNCHANGED <<stored, file, tainted>>
  BY DEF OpenLook, OpenHit, OpenUnlock, OpenReopen, notes
<1>4. Return(t) \/ \E step \in {"hit", "miss", "drop"} : Then(t, step)
  BY DEF OpenLook, OpenHit, OpenUnlock, OpenReopen
<1>5. CASE Return(t)
  <2>1. CacheTyped' /\ tasks'[t] = NoTask /\ (\A s \in Task : s # t => tasks'[s] = tasks[s])
    BY <1>2, <1>3, <1>5, Stepped DEF CacheInv, CacheTyped
  <2> QED
    BY <1>2, <1>3, <2>1, TaskStep DEF Changes
<1>6. ASSUME NEW step \in {"hit", "miss", "drop"}, Then(t, step)
      PROVE  CacheInv'
  <2>1. step \in CacheStep
    BY DEF CacheStep
  <2>2. /\ CacheTyped' /\ (\A s \in Task : s # t => tasks'[s] = tasks[s])
        /\ tasks'[t].op = tasks[t].op /\ tasks'[t].key = tasks[t].key /\ tasks'[t].step = step
    BY <1>2, <1>3, <1>6, <2>1, Stepped DEF CacheInv, CacheTyped
  <2>3. OwnFresh(t)'
    BY <1>2, <2>2 DEF OwnFresh
  <2> QED
    BY <1>2, <1>3, <2>2, <2>3, TaskStep DEF Changes
<1> QED
  BY <1>4, <1>5, <1>6

\* Those that go to the backend, and put what they have read in the place of the file.
LEMMA OpenFetches ==
    ASSUME CacheInv, NEW t \in Task, OpenMiss(t) \/ OpenCopy(t) \/ OpenRename(t)
    PROVE  CacheInv'
<1> DEFINE k == tasks[t].key
<1>1. \E step : Doing(t, "open", step)
  BY DEF OpenMiss, OpenCopy, OpenRename
<1>2. /\ tasks[t] \in CallType /\ tasks[t].op = "open" /\ tasks \in [Task -> TaskType]
      /\ k \in Key /\ tasks[t].v \in {0} \cup Version /\ tasks[t].copy \in CopyType
      /\ stored \in [Key -> {0} \cup Version] /\ file \in [Key -> CopyType]
      /\ k \notin tainted => OwnFresh(t)
  BY <1>1, Doer
<1>3. UNCHANGED <<stored, tainted>>
  BY DEF OpenMiss, OpenCopy, OpenRename, notes
<1>4. CASE UNCHANGED file /\ Return(t)
  <2>1. CacheTyped' /\ tasks'[t] = NoTask /\ (\A s \in Task : s # t => tasks'[s] = tasks[s])
    BY <1>2, <1>3, <1>4, Stepped DEF CacheTyped
  <2> QED
    BY <1>2, <1>3, <1>4, <2>1, TaskStep DEF Changes
<1>5. CASE /\ UNCHANGED file /\ stored[k] # 0
           /\ tasks' = [tasks EXCEPT ![t].step = "copy", ![t].v = stored[k]]
  <2> DEFINE r == [tasks[t] EXCEPT !.step = "copy", !.v = stored[k]]
  <2>1. /\ r \in CallType /\ r.op = "open" /\ r.key = k /\ r.step = "copy" /\ r.v = stored[k]
    <3>1. stored[k] \in {0} \cup Version /\ "copy" \in CacheStep
      BY <1>2 DEF CacheStep
    <3> QED
      BY <1>2, <3>1 DEF CallType
  <2>2. tasks' = [tasks EXCEPT ![t] = r]
    BY <1>2, <1>5
  <2> HIDE DEF r
  <2>3. CacheTyped' /\ tasks'[t] = r /\ (\A s \in Task : s # t => tasks'[s] = tasks[s])
    BY <1>2, <1>3, <1>5, <2>1, <2>2 DEF CacheTyped, TaskType
  <2>4. OwnFresh(t)'
    BY <1>3, <2>1, <2>3 DEF OwnFresh
  <2> QED
    BY <1>2, <1>3, <1>5, <2>1, <2>3, <2>4, TaskStep DEF Changes
<1>6. CASE /\ UNCHANGED file /\ Read(t) # NoCopy /\ tasks[t].step = "copy"
           /\ tasks' = [tasks EXCEPT ![t].step = "rename", ![t].copy = Read(t)]
  <2> DEFINE r == [tasks[t] EXCEPT !.step = "rename", !.copy = Read(t)]
  <2>0. /\ Read(t) \in CopyType
        /\ k \notin tainted => Read(t) = Fresh(k)
    BY <1>2, <1>6, ReadIs DEF OwnFresh
  <2>1. /\ r \in CallType /\ r.op = "open" /\ r.key = k /\ r.step = "rename" /\ r.copy = Read(t)
    <3>1. "rename" \in CacheStep
      BY DEF CacheStep
    <3> QED
      BY <1>2, <2>0, <3>1 DEF CallType
  <2>2. tasks' = [tasks EXCEPT ![t] = r]
    BY <1>2, <1>6
  <2> HIDE DEF r
  <2>3. CacheTyped' /\ tasks'[t] = r /\ (\A s \in Task : s # t => tasks'[s] = tasks[s])
    BY <1>2, <1>3, <1>6, <2>1, <2>2 DEF CacheTyped, TaskType
  <2>4. k \notin tainted => OwnFresh(t)'
    BY <1>3, <2>0, <2>1, <2>3 DEF OwnFresh, Fresh
  <2> QED
    BY <1>2, <1>3, <1>6, <2>1, <2>3, <2>4, TaskStep DEF Changes
<1>7. CASE OpenRename(t)
  <2>1. /\ tasks[t].step = "rename" /\ file' = [file EXCEPT ![k] = tasks[t].copy]
        /\ Then(t, "insert")
    BY <1>7 DEF OpenRename, Doing
  <2>2. "insert" \in CacheStep
    BY DEF CacheStep
  <2>3. /\ CacheTyped' /\ (\A s \in Task : s # t => tasks'[s] = tasks[s])
        /\ tasks'[t].op = "open" /\ tasks'[t].key = k /\ tasks'[t].step = "insert"
    BY <1>2, <1>3, <2>1, <2>2, Stepped DEF CacheTyped
  <2>4. OwnFresh(t)'
    BY <2>3 DEF OwnFresh
  <2>5. /\ k \notin tainted => file'[k] = Fresh(k)
        /\ \A n \in Key : n # k => file'[n] = file[n]
    BY <1>2, <2>1 DEF OwnFresh
  <2> QED
    BY <1>2, <1>3, <2>3, <2>4, <2>5, TaskStep DEF Changes
<1> QED
  BY <1>4, <1>5, <1>6, <1>7 DEF OpenMiss, OpenCopy, Doing

\* Those that change the index: files may be evicted.
LEMMA OpenIndexes ==
    ASSUME CacheInv, NEW t \in Task, OpenDrop(t) \/ OpenInsert(t)
    PROVE  CacheInv'
<1> DEFINE k == tasks[t].key
<1>1. \E step : Doing(t, "open", step)
  BY DEF OpenDrop, OpenInsert
<1>2. /\ tasks[t] \in CallType /\ tasks[t].op = "open" /\ tasks \in [Task -> TaskType]
      /\ k \in Key /\ stored \in [Key -> {0} \cup Version] /\ file \in [Key -> CopyType]
  BY <1>1, Doer
<1>3. UNCHANGED <<stored, tainted>>
  BY DEF OpenDrop, OpenInsert
<1>4. (\A n \in Key : file'[n] \in {file[n], NoCopy}) /\ file' \in [Key -> CopyType]
  <2>1. Index.file = file /\ DOMAIN Index = {"lru", "noted", "total", "file", "resized"}
    BY DEF Index
  <2>2. CASE OpenDrop(t)
    BY <1>2, <2>2, RemovedFile DEF OpenDrop, Become
  <2>3. CASE OpenInsert(t)
    <3>1. file' = Inserted(Index, k, SizeOf(tasks[t].v)).file
      BY <2>3 DEF OpenInsert, Become
    <3>2. /\ file' \in [Key -> CopyType]
          /\ \A n \in Key : file'[n] \in {file[n], NoCopy}
      BY <1>2, <2>1, <3>1, InsertedFile
    <3> QED
      BY <3>2
  <2> QED
    BY <2>2, <2>3
<1>5. PICK step \in {"unlock", "reopen"} : Then(t, step)
  BY DEF OpenDrop, OpenInsert
<1>6. step \in CacheStep
  BY DEF CacheStep
<1>7. /\ CacheTyped' /\ (\A s \in Task : s # t => tasks'[s] = tasks[s])
      /\ tasks'[t].op = "open" /\ tasks'[t].key = k /\ tasks'[t].step = step
  BY <1>2, <1>3, <1>4, <1>5, <1>6, Stepped DEF CacheTyped
<1>8. OwnFresh(t)'
  BY <1>7 DEF OwnFresh
<1> QED
  BY <1>2, <1>3, <1>4, <1>7, <1>8, TaskStep DEF Changes

-----------------------------------------------------------------------------
(* The steps of Put.                                                        *)

\* A put that is cut short marks its key, if there is a copy to be stale.
LEMMA SkipKeeps ==
    ASSUME CacheInv, NEW t \in Task, NEW step, Doing(t, "put", step), Skip(t), file' = file,
           stored' \in [Key -> {0} \cup Version],
           \A n \in Key : n # tasks[t].key => stored'[n] = stored[n]
    PROVE  CacheInv'
<1> DEFINE k == tasks[t].key
<1>1. /\ tasks[t] \in CallType /\ tasks[t].op = "put" /\ tasks \in [Task -> TaskType]
      /\ k \in Key /\ file \in [Key -> CopyType]
  BY Doer
<1>2. Return(t) /\ tainted \subseteq tainted' /\ (k \notin tainted' => file[k] = NoCopy)
  BY DEF Skip
<1>3. CacheTyped' /\ tasks'[t] = NoTask /\ (\A s \in Task : s # t => tasks'[s] = tasks[s])
  BY <1>1, <1>2, Stepped DEF CacheTyped
<1> QED
  BY <1>1, <1>2, <1>3, TaskStep DEF Changes

\* Through to the backend, and what is read back is what was written.
LEMMA PutThrough ==
    ASSUME CacheInv, NEW t \in Task, PutWrite(t) \/ PutFetch(t) \/ PutStat(t)
    PROVE  CacheInv'
<1> DEFINE k == tasks[t].key
<1>1. \E step : Doing(t, "put", step)
  BY DEF PutWrite, PutFetch, PutStat
<1>2. /\ tasks[t] \in CallType /\ tasks[t].op = "put" /\ tasks \in [Task -> TaskType]
      /\ k \in Key /\ tasks[t].v \in {0} \cup Version
      /\ stored \in [Key -> {0} \cup Version] /\ file \in [Key -> CopyType]
      /\ k \notin tainted => OwnFresh(t)
  BY <1>1, Doer
<1>3. UNCHANGED file
  BY DEF PutWrite, PutFetch, PutStat
<1>4. CASE PutWrite(t)
  <2>1. tasks[t].step = "start"
    BY <1>4 DEF PutWrite, Doing
  <2>2. CASE Return(t) /\ UNCHANGED <<stored, tainted>>
    <3>1. CacheTyped' /\ tasks'[t] = NoTask /\ (\A s \in Task : s # t => tasks'[s] = tasks[s])
      BY <1>2, <1>3, <2>2, Stepped DEF CacheTyped
    <3>2. k \notin tainted => Served(k)
      BY <1>2, <2>1 DEF OwnFresh
    <3> QED
      BY <1>2, <1>3, <2>2, <3>1, <3>2, TaskStep DEF Served, Fresh, Changes
  <2>3. CASE stored' = [stored EXCEPT ![k] = tasks[t].v] /\ Skip(t)
    <3>1. /\ stored' \in [Key -> {0} \cup Version]
          /\ \A n \in Key : n # k => stored'[n] = stored[n]
      BY <1>2, <2>3
    <3> QED
      BY <1>1, <1>3, <2>3, <3>1, SkipKeeps
  <2>4. CASE /\ stored' = [stored EXCEPT ![k] = tasks[t].v]
             /\ Then(t, "fetch") /\ UNCHANGED tainted
    <3>1. "fetch" \in CacheStep
      BY DEF CacheStep
    <3>2. /\ CacheTyped' /\ (\A s \in Task : s # t => tasks'[s] = tasks[s])
          /\ tasks'[t].op = "put" /\ tasks'[t].key = k /\ tasks'[t].v = tasks[t].v
          /\ tasks'[t].step = "fetch"
      BY <1>2, <1>3, <2>4, <3>1, Stepped DEF CacheTyped
    <3>3. k \notin tainted => OwnFresh(t)'
      BY <1>2, <2>4, <3>2 DEF OwnFresh
    <3>4. tasks'[t] # NoTask
      BY <3>2, CacheConstants
    <3>5. \A n \in Key : n # k => stored'[n] = stored[n]
      BY <1>2, <2>4
    <3> QED
      BY <1>2, <1>3, <2>4, <3>2, <3>3, <3>4, <3>5, TaskStep DEF Changes
  <2> QED
    BY <1>4, <2>2, <2>3, <2>4 DEF PutWrite
<1>5. CASE UNCHANGED stored /\ Skip(t)
  BY <1>1, <1>2, <1>3, <1>5, SkipKeeps
<1>6. CASE /\ UNCHANGED <<stored, tainted>> /\ tasks[t].step = "fetch" /\ stored[k] # 0
           /\ tasks' = [tasks EXCEPT ![t].step = "stat", ![t].v = stored[k]]
  <2> DEFINE r == [tasks[t] EXCEPT !.step = "stat", !.v = stored[k]]
  <2>1. /\ r \in CallType /\ r.op = "put" /\ r.key = k /\ r.v = stored[k] /\ r.step = "stat"
    <3>1. stored[k] \in {0} \cup Version /\ "stat" \in CacheStep
      BY <1>2 DEF CacheStep
    <3> QED
      BY <1>2, <3>1 DEF CallType
  <2>2. tasks' = [tasks EXCEPT ![t] = r]
    BY <1>2, <1>6
  <2> HIDE DEF r
  <2>3. CacheTyped' /\ tasks'[t] = r /\ (\A s \in Task : s # t => tasks'[s] = tasks[s])
    BY <1>2, <1>3, <1>6, <2>1, <2>2 DEF CacheTyped, TaskType
  <2>4. stored[k] \in Version
    BY <1>2, <1>6
  <2>5. OwnFresh(t)'
    BY <1>6, <2>1, <2>3, <2>4 DEF OwnFresh
  <2>6. r # NoTask
    BY <2>1, CacheConstants
  <2> QED
    BY <1>2, <1>3, <1>6, <2>1, <2>3, <2>5, <2>6, TaskStep DEF Changes
<1>7. ASSUME UNCHANGED <<stored, tainted>>, tasks[t].step = "stat",
             NEW size \in {SizeOf(stored[k]), 0},
             tasks' = [tasks EXCEPT ![t].step = "lock", ![t].size = size]
      PROVE  CacheInv'
  <2> DEFINE r == [tasks[t] EXCEPT !.step = "lock", !.size = size]
  <2>1. /\ r \in CallType /\ r.op = "put" /\ r.key = k /\ r.v = tasks[t].v /\ r.step = "lock"
    <3>1. size \in Nat /\ "lock" \in CacheStep
      BY <1>2, <1>7, CacheConstants DEF CacheStep
    <3> QED
      BY <1>2, <3>1 DEF CallType
  <2>2. tasks' = [tasks EXCEPT ![t] = r]
    BY <1>2, <1>7
  <2> HIDE DEF r
  <2>3. CacheTyped' /\ tasks'[t] = r /\ (\A s \in Task : s # t => tasks'[s] = tasks[s])
    BY <1>2, <1>3, <1>7, <2>1, <2>2 DEF CacheTyped, TaskType
  <2>4. k \notin tainted => OwnFresh(t)'
    BY <1>2, <1>7, <2>1, <2>3 DEF OwnFresh
  <2>5. r # NoTask
    BY <2>1, CacheConstants
  <2> QED
    BY <1>2, <1>3, <1>7, <2>1, <2>3, <2>4, <2>5, TaskStep DEF Changes
<1> QED
  BY <1>4, <1>5, <1>6, <1>7 DEF PutFetch, PutStat, Doing, notes

\* The file is truncated in place ...
LEMMA PutLocks ==
    ASSUME CacheInv, NEW t \in Task, PutLock(t)
    PROVE  CacheInv'
<1> DEFINE k == tasks[t].key
<1>1. Doing(t, "put", "lock") /\ UNCHANGED stored
  BY DEF PutLock
<1>2. /\ tasks[t] \in CallType /\ tasks[t].op = "put" /\ tasks[t].step = "lock"
      /\ tasks \in [Task -> TaskType] /\ k \in Key
      /\ stored \in [Key -> {0} \cup Version] /\ file \in [Key -> CopyType]
      /\ k \notin tainted => OwnFresh(t)
  BY <1>1, Doer
<1>3. CASE Skip(t) /\ UNCHANGED file
  BY <1>1, <1>2, <1>3, SkipKeeps
<1>4. CASE /\ file' = [file EXCEPT ![k] = Truncated]
           /\ Then(t, "fill") /\ UNCHANGED tainted
  <2>1. "fill" \in CacheStep
    BY DEF CacheStep
  <2>2. /\ CacheTyped' /\ (\A s \in Task : s # t => tasks'[s] = tasks[s])
        /\ tasks'[t].op = "put" /\ tasks'[t].key = k /\ tasks'[t].v = tasks[t].v
        /\ tasks'[t].step = "fill"
    BY <1>1, <1>2, <1>4, <2>1, Stepped, CacheConstants DEF CacheTyped
  <2>3. k \notin tainted => OwnFresh(t)'
    BY <1>1, <1>2, <2>2 DEF OwnFresh
  <2>4. tasks'[t] # NoTask
    BY <2>2, CacheConstants
  <2>5. \A n \in Key : n # k => file'[n] = file[n]
    BY <1>2, <1>4
  <2> QED
    BY <1>1, <1>2, <1>4, <2>2, <2>3, <2>4, <2>5, TaskStep DEF Changes
<1> QED
  BY <1>3, <1>4 DEF PutLock

\* ... and filled with what the backend has.
LEMMA PutFills ==
    ASSUME CacheInv, NEW t \in Task, PutFill(t)
    PROVE  CacheInv'
<1> DEFINE k == tasks[t].key
<1>0. PICK copy \in {NoCopy, Read(t)} :
        Become(IF copy = NoCopy THEN [Index EXCEPT !.file[k] = copy]
               ELSE Inserted([Index EXCEPT !.file[k] = copy], k, tasks[t].size))
  BY DEF PutFill
<1> DEFINE filled == [Index EXCEPT !.file[k] = copy]
<1>1. /\ Doing(t, "put", "fill") /\ UNCHANGED <<stored, tainted>> /\ Return(t)
      /\ Become(IF copy = NoCopy THEN filled ELSE Inserted(filled, k, tasks[t].size))
  BY <1>0 DEF PutFill
<1>2. /\ tasks[t] \in CallType /\ tasks[t].op = "put" /\ tasks[t].step = "fill"
      /\ tasks \in [Task -> TaskType] /\ k \in Key /\ tasks[t].v \in {0} \cup Version
      /\ stored \in [Key -> {0} \cup Version] /\ file \in [Key -> CopyType]
      /\ k \notin tainted => OwnFresh(t)
  BY <1>1, Doer
<1>3. copy \in CopyType /\ (k \notin tainted => copy \in {NoCopy, Fresh(k)})
  <2>1. k \notin tainted => tasks[t].v = stored[k] /\ tasks[t].v # 0
    BY <1>2, CacheConstants DEF OwnFresh
  <2> QED
    BY <1>2, <2>1, ReadIs, CacheConstants
<1>4. /\ DOMAIN filled = {"lru", "noted", "total", "file", "resized"}
      /\ filled.file = [file EXCEPT ![k] = copy]
  BY DEF Index
<1>5. filled.file \in [Key -> CopyType]
  BY <1>2, <1>3, <1>4
<1> HIDE DEF filled
<1>6. /\ file' \in [Key -> CopyType]
      /\ \A n \in Key : file'[n] \in {filled.file[n], NoCopy}
  <2>1. CASE copy = NoCopy
    BY <1>1, <1>5, <2>1 DEF Become
  <2>2. CASE copy # NoCopy
    <3>1. file' = Inserted(filled, k, tasks[t].size).file
      BY <1>1, <2>2 DEF Become
    <3> QED
      BY <1>4, <1>5, <3>1, InsertedFile
  <2> QED
    BY <2>1, <2>2
<1>7. /\ k \notin tainted => file'[k] \in {NoCopy, Fresh(k)}
      /\ \A n \in Key : n # k => file'[n] \in {file[n], NoCopy}
  BY <1>2, <1>3, <1>4, <1>6
<1>8. CacheTyped' /\ tasks'[t] = NoTask /\ (\A s \in Task : s # t => tasks'[s] = tasks[s])
  BY <1>1, <1>2, <1>6, Stepped DEF CacheTyped
<1> QED
  BY <1>1, <1>2, <1>7, <1>8, TaskStep DEF Changes, Fresh

-----------------------------------------------------------------------------
(* The steps of Delete.                                                     *)

LEMMA DeleteSteps ==
    ASSUME CacheInv, NEW t \in Task, DeleteStep(t)
    PROVE  CacheInv'
<1> DEFINE k == tasks[t].key
<1>1. \E step : Doing(t, "delete", step)
  BY DEF DeleteStep, DeleteForget, DeleteErase, DeleteDestroy
<1>2. /\ tasks[t] \in CallType /\ tasks[t].op = "delete" /\ tasks \in [Task -> TaskType]
      /\ k \in Key /\ stored \in [Key -> {0} \cup Version] /\ file \in [Key -> CopyType]
      /\ k \notin tainted => OwnFresh(t)
  BY <1>1, Doer
<1>3. CASE DeleteForget(t) \/ DeleteErase(t)
  <2>1. PICK step \in {"erase", "destroy"} : Then(t, step) /\ (step = "destroy" => DeleteErase(t))
    BY <1>3 DEF DeleteForget, DeleteErase
  <2>2. UNCHANGED <<stored, tainted>> /\ step \in CacheStep
    BY <1>3 DEF DeleteForget, DeleteErase, notes, CacheStep
  <2>3. /\ file' \in [Key -> CopyType] /\ (\A n \in Key : file'[n] \in {file[n], NoCopy})
        /\ step = "destroy" => file'[k] = NoCopy
    <3>1. CASE DeleteForget(t)
      <4>1. file' = file
        BY <3>1, RemovedFile DEF DeleteForget, Become
      <4>2. CASE step = "destroy"
        BY <1>2, <2>1, <4>2, CacheConstants DEF DeleteErase
      <4> QED
        BY <1>2, <4>1, <4>2
    <3>2. CASE DeleteErase(t)
      BY <1>2, <3>2, CacheConstants DEF DeleteErase
    <3> QED
      BY <1>3, <3>1, <3>2
  <2>4. /\ CacheTyped' /\ (\A s \in Task : s # t => tasks'[s] = tasks[s])
        /\ tasks'[t].op = "delete" /\ tasks'[t].key = k /\ tasks'[t].step = step
    BY <1>2, <2>1, <2>2, <2>3, Stepped DEF CacheTyped
  <2>5. OwnFresh(t)'
    BY <2>3, <2>4 DEF OwnFresh
  <2>6. tasks'[t] # NoTask
    BY <2>4, CacheConstants
  <2> QED
    BY <1>2, <2>2, <2>3, <2>4, <2>5, <2>6, TaskStep DEF Changes
<1>4. CASE DeleteDestroy(t)
  <2>1. /\ tasks[t].step = "destroy" /\ stored' \in {stored, [stored EXCEPT ![k] = 0]}
        /\ Return(t) /\ UNCHANGED <<file, tainted>>
    BY <1>4 DEF DeleteDestroy, Doing, notes
  <2>2. CacheTyped' /\ tasks'[t] = NoTask /\ (\A s \in Task : s # t => tasks'[s] = tasks[s])
    BY <1>2, <2>1, Stepped DEF CacheTyped
  <2>3. /\ k \notin tainted => file'[k] = NoCopy
        /\ \A n \in Key : n # k => stored'[n] = stored[n]
    BY <1>2, <2>1 DEF OwnFresh
  <2> QED
    BY <1>2, <2>1, <2>2, <2>3, TaskStep DEF Changes
<1> QED
  BY <1>3, <1>4 DEF DeleteStep

-----------------------------------------------------------------------------
(* Calls, restarts and the whole.                                           *)

\* A call that meets another one on its key, where either changes it, marks the key.
LEMMA CallKeeps ==
    ASSUME CacheInv, NEW t \in Task, NEW op \in {"open", "put", "delete"}, NEW k \in Key,
           NEW v \in {0} \cup Version, op = "put" => v \in Version, Call(t, op, k, v)
    PROVE  CacheInv'
<1> DEFINE r == [NoTask EXCEPT !.op = op, !.key = k, !.step = "start", !.v = v]
           meets == \E s \in Task : tasks[s].key = k /\ tasks[s].op # "none"
                                    /\ (Changes(s) \/ op # "open")
<1>1. /\ tasks[t] = NoTask /\ tasks' = [tasks EXCEPT ![t] = r]
      /\ tainted' = IF meets THEN tainted \cup {k} ELSE tainted
      /\ UNCHANGED <<stored, file>>
  BY DEF Call
<1>2. /\ r \in CallType /\ r.op = op /\ r.key = k /\ r.step = "start" /\ r.v = v
  BY CacheConstants DEF NoTask, CallType, CacheStep
<1>3. tasks \in [Task -> TaskType]
  BY DEF CacheInv, CacheTyped
<1> HIDE DEF r
<1>4. CacheTyped' /\ tasks'[t] = r /\ (\A s \in Task : s # t => tasks'[s] = tasks[s])
  BY <1>1, <1>2, <1>3 DEF CacheInv, CacheTyped, TaskType
<1> SUFFICES ASSUME NEW n \in Key, n \notin tainted' PROVE Clean(n)'
  BY <1>4 DEF CacheInv
<1>5. n \notin tainted /\ Clean(n)
  BY <1>1 DEF CacheInv
<1>6. \A s \in Task : tasks'[s].key = n => OwnFresh(s)'
  <2> SUFFICES ASSUME NEW s \in Task, tasks'[s].key = n PROVE OwnFresh(s)'
    OBVIOUS
  <2>1. CASE s = t
    <3>1. CASE op = "put"
      <4>1. n = k /\ ~meets
        BY <1>1, <1>2, <1>4, <2>1
      <4>2. \A x \in Task : tasks[x].key = n => ~Changes(x)
        BY <3>1, <4>1 DEF Changes
      <4>3. Served(n)'
        BY <1>1, <1>5, <4>2 DEF Clean, Served, Fresh
      <4> QED
        BY <1>2, <1>4, <2>1, <3>1, <4>1, <4>3 DEF OwnFresh
    <3>2. CASE op # "put"
      BY <1>2, <1>4, <2>1, <3>2 DEF OwnFresh
    <3> QED
      BY <3>1, <3>2
  <2>2. CASE s # t
    BY <1>1, <1>4, <1>5, <2>2 DEF Clean, OwnFresh, Served, Fresh
  <2> QED
    BY <2>1, <2>2
<1>7. (\A s \in Task : tasks'[s].key = n => ~Changes(s)') => Served(n)'
  <2> SUFFICES ASSUME \A s \in Task : tasks'[s].key = n => ~Changes(s)'
               PROVE  Served(n)'
    OBVIOUS
  <2>1. \A s \in Task : tasks[s].key = n => ~Changes(s)
    BY <1>1, <1>4, CacheConstants DEF Changes, NoTask
  <2> QED
    BY <1>1, <1>5, <2>1 DEF Clean, Served, Fresh
<1>8. Lone(n)'
  <2>1. CASE n # k
    BY <1>2, <1>4, <1>5, <2>1 DEF Clean, Lone, Changes
  <2>2. CASE n = k
    <3>1. \A s \in Task : tasks[s].key = k /\ tasks[s].op # "none" => ~Changes(s) /\ op = "open"
      BY <1>1, <2>2
    <3> QED
      BY <1>2, <1>4, <2>2, <3>1 DEF Lone, Changes
  <2> QED
    BY <2>1, <2>2
<1> QED
  BY <1>6, <1>7, <1>8 DEF Clean

\* A restart marks what was being changed; what is left of the files is as it was.
LEMMA RestartKeeps ==
    ASSUME CacheInv, Restart
    PROVE  CacheInv'
<1>1. /\ file' = Rebuilt.file /\ stored' = stored /\ tasks' = [t \in Task |-> NoTask]
      /\ tainted' = tainted \cup {tasks[t].key : t \in {s \in Task : Changes(s)}}
  BY DEF Restart, Become
<1>2. /\ file' \in [Key -> CopyType]
      /\ \A k \in Key : file'[k] \in {file[k], NoCopy}
  BY <1>1, RebuiltFile DEF CacheInv, CacheTyped
<1>3. CacheTyped'
  BY <1>1, <1>2 DEF CacheInv, CacheTyped, TaskType
<1> SUFFICES ASSUME NEW k \in Key, k \notin tainted' PROVE Clean(k)'
  BY <1>3 DEF CacheInv
<1>4. Served(k)
  BY <1>1 DEF CacheInv, Clean
<1>5. Served(k)'
  BY <1>1, <1>2, <1>4 DEF Served, Fresh
<1>6. \A t \in Task : tasks'[t].op = "none"
  BY <1>1, CacheConstants
<1>7. Lone(k)' /\ \A t \in Task : OwnFresh(t)'
  BY <1>6 DEF Lone, OwnFresh
<1> QED
  BY <1>5, <1>7 DEF Clean

LEMMA CacheInitHolds == CacheInit => CacheInv
<1> SUFFICES ASSUME CacheInit PROVE CacheInv
  OBVIOUS
<1>1. /\ stored \in [Key -> {0, 1}] /\ file = [k \in Key |-> NoCopy]
      /\ tasks = [t \in Task |-> NoTask]
  BY DEF CacheInit
<1>2. CacheTyped
  BY <1>1, CacheConstants DEF CacheTyped, TaskType
<1>3. \A t \in Task : tasks[t].op = "none"
  BY <1>1, CacheConstants
<1>4. \A k \in Key : Served(k) /\ Lone(k)
  BY <1>1, <1>3 DEF Served, Lone
<1>5. \A t \in Task : OwnFresh(t)
  BY <1>3 DEF OwnFresh
<1> QED
  BY <1>2, <1>4, <1>5 DEF CacheInv, Clean

LEMMA CacheNextKeeps == CacheInv /\ [CacheNext]_cacheVars => CacheInv'
<1> SUFFICES ASSUME CacheInv, [CacheNext]_cacheVars PROVE CacheInv'
  OBVIOUS
<1>1. ASSUME UNCHANGED <<stored, file, tasks, tainted>>
      PROVE  CacheInv'
  BY <1>1 DEF CacheInv, CacheTyped, Clean, Lone, Served, Fresh, OwnFresh, Changes
<1>2. CASE UNCHANGED cacheVars
  BY <1>1, <1>2 DEF cacheVars, notes
<1>3. ASSUME NEW k \in Key, Stat(k) PROVE CacheInv'
  BY <1>1, <1>3 DEF Stat, notes
<1>4. ASSUME NEW t \in Task, OpenStep(t) PROVE CacheInv'
  BY <1>4, OpenLooks, OpenFetches, OpenIndexes DEF OpenStep
<1>5. ASSUME NEW t \in Task, PutStep(t) PROVE CacheInv'
  BY <1>5, PutThrough, PutLocks, PutFills DEF PutStep
<1>6. ASSUME NEW t \in Task, NEW k \in Key,
             \/ Call(t, "open", k, 0) \/ Call(t, "delete", k, 0)
             \/ \E v \in Version : Call(t, "put", k, v)
      PROVE  CacheInv'
  BY <1>6, CallKeeps
<1> QED
  BY <1>2, <1>3, <1>4, <1>5, <1>6, DeleteSteps, RestartKeeps DEF CacheNext

-----------------------------------------------------------------------------
(* Sums over finite sets. The library's induction takes a predicate, which *)
(* these proofs do without: what fails for a set fails for a smallest one. *)

\* Some numbers have a smallest one.
LEMMA Smallest ==
    ASSUME NEW S \in SUBSET Nat, S # {}
    PROVE  \E n \in S : \A m \in S : n <= m
<1> DEFINE R == {ss \in Nat \X Nat : ss[1] < ss[2]}
<1>0. IsWellFoundedOn(R, Nat)
  BY NatLessThanWellFounded DEF OpToRel
<1> HIDE DEF R
<1>1. PICK n \in S : \A m \in S : ~(<<m, n>> \in R)
  BY <1>0, WFMin
<1>2. \A m, n1 \in Nat : <<m, n1>> \in R <=> m < n1
  BY DEF R
<1>3. \A m \in S : m \in Nat /\ n \in Nat /\ ~(m < n)
  BY <1>1, <1>2
<1> QED
  BY <1>3

\* Of some finite sets there is one of which none is a part that lacks one element.
LEMMA SmallestSet ==
    ASSUME NEW X, X # {}, \A s \in X : IsFiniteSet(s)
    PROVE  \E s \in X : \A x \in s : s \ {x} \notin X
<1> DEFINE sizes == {Cardinality(s) : s \in X}
<1>1. sizes \in SUBSET Nat /\ sizes # {}
  BY FS_CardinalityType
<1>2. PICK n \in sizes : \A m \in sizes : n <= m
  BY <1>1, Smallest
<1>3. PICK s \in X : Cardinality(s) = n
  OBVIOUS
<1>4. ASSUME NEW x \in s, s \ {x} \in X PROVE FALSE
  <2>1. Cardinality(s \ {x}) = n - 1 /\ n \in Nat
    BY <1>3, FS_RemoveElement, FS_CardinalityType
  <2>2. Cardinality(s \ {x}) \in sizes
    BY <1>4
  <2>3. n <= n - 1
    BY <1>2, <2>1, <2>2
  <2> QED
    BY <2>1, <2>3
<1> QED
  BY <1>4

\* The fold that Weight stands for.
Picked(s) == CHOOSE x \in s : TRUE
IsSum(size, S, g) ==
    g = [s \in SUBSET S |-> IF s = {} THEN 0 ELSE size[Picked(s)] + g[s \ {Picked(s)}]]
SumOf(size, S) == CHOOSE g : IsSum(size, S, g)

LEMMA WeightIs == ASSUME NEW size, NEW S PROVE Weight(size, S) = SumOf(size, S)[S]
  BY DEF Weight, MapThenSumSet, MapThenFoldSet, SumOf, IsSum, Picked

LEMMA PickedIs == ASSUME NEW s, s # {} PROVE Picked(s) \in s
  BY DEF Picked

\* There is one, for the subsets of up to any number of elements.
LEMMA SumExists ==
    ASSUME NEW size, NEW S, IsFiniteSet(S)
    PROVE  IsSum(size, S, SumOf(size, S))
<1> DEFINE T(n) == {s \in SUBSET S : Cardinality(s) <= n}
           G(n, g) == g = [s \in T(n) |-> IF s = {} THEN 0
                                          ELSE size[Picked(s)] + g[s \ {Picked(s)}]]
           Has(n) == \E g : G(n, g)
           Bad == {n \in Nat : ~Has(n)}
<1>1. \A s \in SUBSET S : IsFiniteSet(s) /\ Cardinality(s) \in Nat /\ Cardinality(s) <= Cardinality(S)
  BY FS_Subset, FS_CardinalityType
<1>2. \A s \in SUBSET S : s # {} => /\ s \ {Picked(s)} \in SUBSET S
                                    /\ Cardinality(s \ {Picked(s)}) = Cardinality(s) - 1
  BY <1>1, PickedIs, FS_RemoveElement
<1>3. Has(0)
  <2> DEFINE g == [s \in T(0) |-> 0]
  <2>1. \A s \in T(0) : s = {}
    <3> SUFFICES ASSUME NEW s \in SUBSET S, Cardinality(s) <= 0, s # {} PROVE FALSE
      OBVIOUS
    <3>1. /\ Cardinality(s) \in Nat /\ Cardinality(s \ {Picked(s)}) \in Nat
          /\ Cardinality(s \ {Picked(s)}) = Cardinality(s) - 1
      BY <1>1, <1>2
    <3> QED
      BY <3>1
  <2>2. G(0, g)
    BY <2>1
  <2> QED
    BY <2>2
<1>4. ASSUME NEW n \in Nat, NEW g, G(n, g) PROVE Has(n + 1)
  <2> DEFINE h == [s \in T(n + 1) |-> IF s = {} THEN 0
                                      ELSE size[Picked(s)] + g[s \ {Picked(s)}]]
  <2>1. \A s \in T(n) : s \in T(n + 1)
    BY <1>1
  <2>2. \A s \in T(n) : g[s] = IF s = {} THEN 0 ELSE size[Picked(s)] + g[s \ {Picked(s)}]
    BY <1>4
  <2>3. \A s \in T(n) : h[s] = g[s]
    BY <2>1, <2>2
  <2>4. \A s \in T(n + 1) : s # {} => s \ {Picked(s)} \in T(n)
    BY <1>1, <1>2
  <2>5. \A s \in T(n + 1) : s # {} => h[s \ {Picked(s)}] = g[s \ {Picked(s)}]
    BY <2>3, <2>4
  <2>6. h = [s \in T(n + 1) |-> IF s = {} THEN 0 ELSE size[Picked(s)] + h[s \ {Picked(s)}]]
    BY <2>5
  <2> QED
    BY <2>6
<1>5. ASSUME NEW n \in Nat, Has(n) PROVE Has(n + 1)
  BY <1>4, <1>5
<1> HIDE DEF Has
<1>6. Bad = {}
  <2> SUFFICES ASSUME Bad # {} PROVE FALSE
    OBVIOUS
  <2>1. PICK n \in Bad : \A m \in Bad : n <= m
    BY Smallest
  <2>2. n \in Nat /\ n # 0
    BY <1>3
  <2>3. n - 1 \in Nat /\ n - 1 \notin Bad
    BY <2>1, <2>2
  <2>4. (n - 1) + 1 = n /\ Has((n - 1) + 1)
    BY <1>5, <2>2, <2>3
  <2> QED
    BY <2>4
<1>7. Cardinality(S) \in Nat /\ T(Cardinality(S)) = SUBSET S
  BY <1>1, FS_CardinalityType
<1>8. Has(Cardinality(S))
  BY <1>6, <1>7
<1>9. \E g : IsSum(size, S, g)
  BY <1>7, <1>8 DEF IsSum, Has
<1> QED
  BY <1>9 DEF SumOf

\* A sum depends on the elements only, not on what else the fold knows.
LEMMA SumsAgree ==
    ASSUME NEW size, NEW S, IsFiniteSet(S), NEW also, NEW T \in SUBSET S,
           \A x \in T : size[x] = also[x]
    PROVE  SumOf(size, S)[T] = SumOf(also, T)[T]
<1> DEFINE g == SumOf(size, S)
           h == SumOf(also, T)
           X == {s \in SUBSET T : g[s] # h[s]}
<1>1. IsFiniteSet(T) /\ \A s \in X : IsFiniteSet(s)
  BY FS_Subset
<1>2. /\ \A s \in SUBSET S : g[s] = IF s = {} THEN 0 ELSE size[Picked(s)] + g[s \ {Picked(s)}]
      /\ \A s \in SUBSET T : h[s] = IF s = {} THEN 0 ELSE also[Picked(s)] + h[s \ {Picked(s)}]
  <2>1. IsSum(size, S, g) /\ IsSum(also, T, h)
    BY <1>1, SumExists
  <2> HIDE DEF g, h
  <2> QED
    BY <2>1 DEF IsSum
<1> HIDE DEF g, h
<1>3. ASSUME X # {} PROVE FALSE
  <2>1. PICK s \in X : \A x \in s : s \ {x} \notin X
    BY <1>1, <1>3, SmallestSet
  <2>2. s \in SUBSET T /\ s \in SUBSET S /\ s # {}
    BY <1>2
  <2>3. Picked(s) \in s /\ s \ {Picked(s)} \in SUBSET T
    BY <2>2, PickedIs
  <2>4. g[s \ {Picked(s)}] = h[s \ {Picked(s)}]
    BY <2>1, <2>3
  <2>5. size[Picked(s)] = also[Picked(s)]
    BY <2>2, <2>3
  <2>6. g[s] = h[s]
    BY <1>2, <2>2, <2>4, <2>5
  <2> QED
    BY <2>6
<1> QED
  BY <1>3 DEF g, h

LEMMA WeightSame ==
    ASSUME NEW size, NEW also, NEW S, IsFiniteSet(S), \A x \in S : size[x] = also[x]
    PROVE  Weight(size, S) = Weight(also, S)
BY WeightIs, SumsAgree

LEMMA WeightPicked ==
    ASSUME NEW size, NEW S, IsFiniteSet(S)
    PROVE  Weight(size, S) = IF S = {} THEN 0
                             ELSE size[Picked(S)] + Weight(size, S \ {Picked(S)})
<1> DEFINE g == SumOf(size, S)
<1>1. g[S] = IF S = {} THEN 0 ELSE size[Picked(S)] + g[S \ {Picked(S)}]
  <2>1. IsSum(size, S, g)
    BY SumExists
  <2> HIDE DEF g
  <2> QED
    BY <2>1 DEF IsSum
<1>2. g[S \ {Picked(S)}] = SumOf(size, S \ {Picked(S)})[S \ {Picked(S)}]
  BY SumsAgree
<1> QED
  BY <1>1, <1>2, WeightIs

\* Sums of natural numbers are natural numbers, and grow with them.
LEMMA WeightNat ==
    ASSUME NEW size, NEW S, IsFiniteSet(S), \A x \in S : size[x] \in Nat
    PROVE  Weight(size, S) \in Nat
<1> DEFINE X == {s \in SUBSET S : Weight(size, s) \notin Nat}
<1> SUFFICES ASSUME X # {} PROVE FALSE
  OBVIOUS
<1>1. \A s \in X : IsFiniteSet(s)
  BY FS_Subset
<1>2. PICK s \in X : \A x \in s : s \ {x} \notin X
  BY <1>1, SmallestSet
<1>3. s # {} /\ Weight(size, s) = size[Picked(s)] + Weight(size, s \ {Picked(s)})
  <2>1. Weight(size, {}) = 0
    BY WeightPicked, FS_EmptySet
  <2> QED
    BY <1>1, <2>1, WeightPicked
<1>4. Picked(s) \in s /\ Picked(s) \in S
  BY <1>3, PickedIs
<1>5. Weight(size, s \ {Picked(s)}) \in Nat /\ size[Picked(s)] \in Nat
  BY <1>2, <1>4
<1> QED
  BY <1>3, <1>5

LEMMA WeightLess ==
    ASSUME NEW size, NEW also, NEW S, IsFiniteSet(S),
           \A x \in S : size[x] \in Nat /\ also[x] \in Nat /\ size[x] <= also[x]
    PROVE  Weight(size, S) <= Weight(also, S)
<1> DEFINE X == {s \in SUBSET S : ~(Weight(size, s) <= Weight(also, s))}
<1> SUFFICES ASSUME X # {} PROVE FALSE
  OBVIOUS
<1>1. \A s \in SUBSET S : IsFiniteSet(s) /\ Weight(size, s) \in Nat /\ Weight(also, s) \in Nat
  BY FS_Subset, WeightNat
<1>2. PICK s \in X : \A x \in s : s \ {x} \notin X
  BY <1>1, SmallestSet
<1>3. s # {}
  <2>1. Weight(size, {}) = 0 /\ Weight(also, {}) = 0
    BY WeightPicked, FS_EmptySet
  <2> QED
    BY <2>1
<1>4. /\ Weight(size, s) = size[Picked(s)] + Weight(size, s \ {Picked(s)})
      /\ Weight(also, s) = also[Picked(s)] + Weight(also, s \ {Picked(s)})
  BY <1>1, <1>3, WeightPicked
<1>5. Picked(s) \in s /\ Picked(s) \in S
  BY <1>3, PickedIs
<1>6. /\ Weight(size, s \ {Picked(s)}) <= Weight(also, s \ {Picked(s)})
      /\ Weight(size, s \ {Picked(s)}) \in Nat /\ Weight(also, s \ {Picked(s)}) \in Nat
  BY <1>1, <1>2, <1>5
<1>7. size[Picked(s)] <= also[Picked(s)] /\ size[Picked(s)] \in Nat /\ also[Picked(s)] \in Nat
  BY <1>5
<1>8. Weight(size, s) <= Weight(also, s)
  BY <1>4, <1>6, <1>7
<1> QED
  BY <1>8

\* An element may be taken out of a sum, whichever the fold takes first.
LEMMA WeightTaken ==
    ASSUME NEW size, NEW S, IsFiniteSet(S), \A x \in S : size[x] \in Nat, NEW y \in S
    PROVE  Weight(size, S) = size[y] + Weight(size, S \ {y})
<1> DEFINE Taken(s, x) == Weight(size, s) = size[x] + Weight(size, s \ {x})
           X == {s \in SUBSET S : ~\A x \in s : Taken(s, x)}
<1>1. \A s \in SUBSET S : IsFiniteSet(s) /\ Weight(size, s) \in Nat
  BY FS_Subset, WeightNat
<1>2. ASSUME X # {} PROVE FALSE
  <2>1. PICK s \in X : \A x \in s : s \ {x} \notin X
    BY <1>1, <1>2, SmallestSet
  <2>2. PICK x \in s : ~Taken(s, x)
    OBVIOUS
  <2>3. s \in SUBSET S /\ Picked(s) \in s /\ Taken(s, Picked(s))
    BY <1>1, <2>2, PickedIs, WeightPicked
  <2> DEFINE p == Picked(s)
             left == s \ {x, p}
  <2>4. /\ s \ {p} \in SUBSET S /\ s \ {x} \in SUBSET S /\ left \in SUBSET S
        /\ (s \ {p}) \ {x} = left /\ (s \ {x}) \ {p} = left
        /\ p # x /\ x \in s \ {p} /\ p \in s \ {x}
    BY <2>2, <2>3
  <2>5. s \ {p} \notin X /\ s \ {x} \notin X
    BY <2>1, <2>2, <2>3
  <2>6. Taken(s \ {p}, x) /\ Taken(s \ {x}, p)
    BY <2>4, <2>5
  <2>7. /\ Weight(size, s) = size[p] + Weight(size, s \ {p})
        /\ Weight(size, s \ {p}) = size[x] + Weight(size, left)
        /\ Weight(size, s \ {x}) = size[p] + Weight(size, left)
    BY <2>3, <2>4, <2>6
  <2>8. /\ size[p] \in Nat /\ size[x] \in Nat /\ Weight(size, left) \in Nat
    BY <1>1, <2>3, <2>4
  <2>9. Weight(size, s) = size[x] + Weight(size, s \ {x})
    BY <2>7, <2>8
  <2> QED
    BY <2>2, <2>9
<1>3. \A x \in S : Taken(S, x)
  BY <1>2
<1> QED
  BY <1>3

\* The sum over two sets apart.
LEMMA WeightApart ==
    ASSUME NEW size, NEW S, IsFiniteSet(S), \A x \in S : size[x] \in Nat, NEW T \in SUBSET S
    PROVE  Weight(size, S) = Weight(size, S \ T) + Weight(size, T)
<1> DEFINE Apart(s) == Weight(size, S) = Weight(size, S \ s) + Weight(size, s)
           X == {s \in SUBSET S : ~Apart(s)}
<1>1. \A s \in SUBSET S : IsFiniteSet(s) /\ Weight(size, s) \in Nat
  BY FS_Subset, WeightNat
<1>2. ASSUME X # {} PROVE FALSE
  <2>1. PICK s \in X : \A x \in s : s \ {x} \notin X
    BY <1>1, <1>2, SmallestSet
  <2>2. s # {}
    <3>1. Weight(size, {}) = 0 /\ S \ {} = S
      BY WeightPicked, FS_EmptySet
    <3>2. Weight(size, S) = Weight(size, S) + 0
      BY <1>1
    <3> QED
      BY <3>1, <3>2
  <2>3. PICK x \in s : TRUE
    BY <2>2
  <2>4. /\ s \in SUBSET S /\ s \ {x} \in SUBSET S /\ S \ s \in SUBSET S
        /\ x \in S \ (s \ {x}) /\ (S \ (s \ {x})) \ {x} = S \ s
        /\ S \ (s \ {x}) \in SUBSET S
    BY <2>3
  <2>5. Apart(s \ {x})
    BY <2>1, <2>3, <2>4
  <2>6. /\ Weight(size, s) = size[x] + Weight(size, s \ {x})
        /\ Weight(size, S \ (s \ {x})) = size[x] + Weight(size, S \ s)
    BY <1>1, <2>3, <2>4, WeightTaken
  <2>7. /\ size[x] \in Nat /\ Weight(size, S \ s) \in Nat /\ Weight(size, s \ {x}) \in Nat
    BY <1>1, <2>4
  <2>8. Apart(s)
    BY <2>5, <2>6, <2>7
  <2> QED
    BY <2>8
<1> QED
  BY <1>2

LEMMA WeightZero ==
    ASSUME NEW size, NEW S, IsFiniteSet(S), \A x \in S : size[x] = 0
    PROVE  Weight(size, S) = 0
<1> DEFINE X == {s \in SUBSET S : Weight(size, s) # 0}
<1> SUFFICES ASSUME X # {} PROVE FALSE
  OBVIOUS
<1>1. \A s \in X : IsFiniteSet(s)
  BY FS_Subset
<1>2. PICK s \in X : \A x \in s : s \ {x} \notin X
  BY <1>1, SmallestSet
<1>3. s # {} /\ Weight(size, s) = size[Picked(s)] + Weight(size, s \ {Picked(s)})
  <2>1. Weight(size, {}) = 0
    BY WeightPicked, FS_EmptySet
  <2> QED
    BY <1>1, <2>1, WeightPicked
<1>4. Picked(s) \in s /\ Picked(s) \in S
  BY <1>3, PickedIs
<1>5. Weight(size, s \ {Picked(s)}) = 0 /\ size[Picked(s)] = 0
  BY <1>2, <1>4
<1> QED
  BY <1>3, <1>5

-----------------------------------------------------------------------------
(* The order of the index: keys, each once.                                *)

Orderly(q) == q \in Seq(Key) /\ \A m, n \in 1 .. Len(q) : q[m] = q[n] => m = n

LEMMA ToSetIs == ASSUME NEW q \in Seq(Key) PROVE ToSet(q) = {q[i] : i \in 1 .. Len(q)}
  BY DEF ToSet

LEMMA CountIs ==
    ASSUME NEW q, Orderly(q)
    PROVE  Len(q) = Cardinality(ToSet(q)) /\ IsFiniteSet(ToSet(q)) /\ ToSet(q) \subseteq Key
<1>1. q \in Bijection(1 .. Len(q), ToSet(q))
  BY DEF Orderly, Bijection, Injection, IsInjective, Surjection, ToSet
<1>2. ExistsBijection(1 .. Len(q), ToSet(q))
  BY <1>1 DEF ExistsBijection
<1>3. IsFiniteSet(1 .. Len(q)) /\ Cardinality(1 .. Len(q)) = Len(q)
  <2> DEFINE n == Len(q)
  <2>1. n \in Nat
    BY DEF Orderly
  <2> HIDE DEF n
  <2>2. IsFiniteSet(1 .. n) /\ Cardinality(1 .. n) = IF 1 > n THEN 0 ELSE n - 1 + 1
    BY <2>1, FS_Interval
  <2>3. Cardinality(1 .. n) = n
    BY <2>1, <2>2
  <2> QED
    BY <2>2, <2>3 DEF n
<1>4. ToSet(q) \subseteq Key
  BY DEF Orderly, ToSet
<1> QED
  BY <1>2, <1>3, <1>4, FS_Bijection

\* A key that comes in front.
LEMMA FrontIs ==
    ASSUME NEW q, Orderly(q), NEW k \in Key \ ToSet(q)
    PROVE  Orderly(<<k>> \o q) /\ ToSet(<<k>> \o q) = {k} \cup ToSet(q)
<1> DEFINE p == <<k>> \o q
<1>1. /\ p \in Seq(Key) /\ Len(p) = Len(q) + 1 /\ p[1] = k
      /\ \A i \in 2 .. Len(p) : p[i] = q[i - 1] /\ i - 1 \in 1 .. Len(q)
      /\ \A i \in 1 .. Len(q) : p[i + 1] = q[i] /\ i + 1 \in 2 .. Len(p)
  BY DEF Orderly
<1>2. \A i \in 1 .. Len(q) : q[i] # k
  BY DEF ToSet, Orderly
<1> HIDE DEF p
<1>3. Len(q) \in Nat
  BY DEF Orderly
<1>4. Orderly(p)
  <2> SUFFICES ASSUME NEW m \in 1 .. Len(p), NEW n \in 1 .. Len(p), p[m] = p[n] PROVE m = n
    BY <1>1 DEF Orderly
  <2>1. CASE m = 1
    BY <1>1, <1>2, <1>3, <2>1
  <2>2. CASE n = 1
    BY <1>1, <1>2, <1>3, <2>2
  <2>3. CASE m # 1 /\ n # 1
    <3>1. q[m - 1] = q[n - 1] /\ m - 1 \in 1 .. Len(q) /\ n - 1 \in 1 .. Len(q)
      BY <1>1, <1>3, <2>3
    <3> QED
      BY <1>3, <3>1 DEF Orderly
  <2> QED
    BY <2>1, <2>2, <2>3
<1>5. ToSet(p) = {k} \cup ToSet(q)
  <2>1. ToSet(p) \subseteq {k} \cup ToSet(q)
    <3> SUFFICES ASSUME NEW i \in 1 .. Len(p), i # 1 PROVE p[i] \in ToSet(q)
      BY <1>1, ToSetIs
    <3>1. i \in 2 .. Len(p)
      BY <1>1, <1>3
    <3> QED
      BY <1>1, <3>1, ToSetIs DEF Orderly
  <2>2. k \in ToSet(p)
    BY <1>1, <1>3, ToSetIs
  <2>3. ASSUME NEW i \in 1 .. Len(q) PROVE q[i] \in ToSet(p)
    BY <1>1, <1>3, ToSetIs
  <2> QED
    BY <2>1, <2>2, <2>3, ToSetIs DEF Orderly
<1> QED
  BY <1>4, <1>5 DEF p

\* A key that is taken out.
LEMMA OutIs ==
    ASSUME NEW q, Orderly(q), NEW k \in ToSet(q)
    PROVE  Orderly(RemoveFirst(q, k)) /\ ToSet(RemoveFirst(q, k)) = ToSet(q) \ {k}
<1> DEFINE I == {i \in 1 .. Len(q) : q[i] = k}
           at == CHOOSE x \in I : \A y \in I : x <= y
           p == SubSeq(q, 1, at - 1) \o SubSeq(q, at + 1, Len(q))
<1>1. I \in SUBSET Nat /\ I # {}
  BY DEF Orderly, ToSet
<1>2. at \in I
  BY <1>1, Smallest
<1>3. RemoveFirst(q, k) = p
  BY <1>1 DEF RemoveFirst, RemoveAt, SelectInSeq, Min
<1> HIDE DEF at
<1>4. at \in 1 .. Len(q) /\ q[at] = k /\ Len(q) \in Nat
  BY <1>2 DEF Orderly
<1>5. /\ p \in Seq(Key) /\ Len(p) = Len(q) - 1
      /\ \A i \in 1 .. at - 1 : p[i] = q[i]
      /\ \A i \in at .. Len(q) - 1 : p[i] = q[i + 1]
  <2> DEFINE a == SubSeq(q, 1, at - 1)
             b == SubSeq(q, at + 1, Len(q))
  <2>1. /\ a \in Seq(Key) /\ Len(a) = at - 1 /\ \A i \in 1 .. at - 1 : a[i] = q[i]
    BY <1>4 DEF Orderly
  <2>2. /\ b \in Seq(Key) /\ Len(b) = Len(q) - at
        /\ \A i \in 1 .. Len(q) - at : b[i] = q[i + at]
    <3>1. \A i \in at + 1 .. Len(q) : q[i] \in Key
      BY <1>4 DEF Orderly
    <3> QED
      BY <1>4, <3>1, SubSeqProperties DEF Orderly
  <2> HIDE DEF a, b
  <2>3. /\ a \o b \in Seq(Key) /\ Len(a \o b) = Len(q) - 1
        /\ \A i \in 1 .. at - 1 : (a \o b)[i] = a[i]
        /\ \A i \in at .. Len(q) - 1 : (a \o b)[i] = b[i - (at - 1)]
    <3>1. a \o b \in Seq(Key) /\ Len(a \o b) = Len(a) + Len(b)
      BY <2>1, <2>2, ConcatProperties
    <3>2. \A i \in 1 .. Len(a) + Len(b) : (a \o b)[i] = IF i <= Len(a) THEN a[i] ELSE b[i - Len(a)]
      BY <2>1, <2>2, ConcatProperties
    <3>3. Len(a) + Len(b) = Len(q) - 1
      BY <1>4, <2>1, <2>2
    <3>4. \A i \in 1 .. at - 1 : (a \o b)[i] = a[i]
      BY <1>4, <2>1, <3>2, <3>3
    <3>5. \A i \in at .. Len(q) - 1 : (a \o b)[i] = b[i - (at - 1)]
      BY <1>4, <2>1, <3>2, <3>3
    <3> QED
      BY <3>1, <3>3, <3>4, <3>5
  <2>4. ASSUME NEW i \in at .. Len(q) - 1 PROVE b[i - (at - 1)] = q[i + 1]
    <3>1. i - (at - 1) \in 1 .. Len(q) - at /\ (i - (at - 1)) + at = i + 1
      BY <1>4
    <3> QED
      BY <2>2, <3>1
  <2> QED
    BY <2>1, <2>3, <2>4 DEF a, b
<1> HIDE DEF p
<1> DEFINE from(i) == IF i < at THEN i ELSE i + 1
<1>6. \A i \in 1 .. Len(p) : from(i) \in (1 .. Len(q)) \ {at} /\ p[i] = q[from(i)]
  BY <1>4, <1>5
<1>7. Orderly(p)
  <2> SUFFICES ASSUME NEW m \in 1 .. Len(p), NEW n \in 1 .. Len(p), p[m] = p[n] PROVE m = n
    BY <1>5 DEF Orderly
  <2>1. from(m) = from(n)
    BY <1>6 DEF Orderly
  <2> QED
    BY <1>4, <2>1
<1>8. ASSUME NEW i \in 1 .. Len(p) PROVE p[i] \in ToSet(q) \ {k}
  BY <1>4, <1>6, ToSetIs DEF Orderly
<1>9. ASSUME NEW j \in 1 .. Len(q), q[j] # k PROVE q[j] \in ToSet(p)
  <2>1. CASE j < at
    <3>1. j \in 1 .. Len(p) /\ p[j] = q[j]
      BY <1>4, <1>5, <2>1
    <3> QED
      BY <1>5, <3>1, ToSetIs
  <2>2. CASE j > at
    <3>1. j - 1 \in 1 .. Len(p) /\ p[j - 1] = q[j]
      BY <1>4, <1>5, <2>2
    <3> QED
      BY <1>5, <3>1, ToSetIs
  <2> QED
    BY <1>4, <1>9, <2>1, <2>2
<1>10. ToSet(p) = ToSet(q) \ {k}
  <2>1. /\ \A x \in ToSet(p) : \E i \in 1 .. Len(p) : x = p[i]
        /\ \A x \in ToSet(q) : \E i \in 1 .. Len(q) : x = q[i]
    BY <1>5, ToSetIs DEF Orderly
  <2>2. ToSet(p) \subseteq ToSet(q) \ {k}
    BY <1>8, <2>1
  <2>3. ToSet(q) \ {k} \subseteq ToSet(p)
    BY <1>9, <2>1
  <2> QED
    BY <2>2, <2>3
<1> QED
  BY <1>3, <1>7, <1>10

\* A key that is used moves to the front.
LEMMA TouchedIs ==
    ASSUME NEW q, Orderly(q), NEW k \in ToSet(q)
    PROVE  Orderly(Touched(q, k)) /\ ToSet(Touched(q, k)) = ToSet(q)
<1>1. k \in Key
  BY CountIs
<1> DEFINE p == RemoveFirst(q, k)
<1>2. Orderly(p) /\ ToSet(p) = ToSet(q) \ {k}
  BY OutIs
<1> HIDE DEF p
<1>3. Orderly(<<k>> \o p) /\ ToSet(<<k>> \o p) = {k} \cup ToSet(p)
  BY <1>1, <1>2, FrontIs
<1> QED
  BY <1>2, <1>3 DEF Touched, p

\* What is left when the last keys are evicted, and what is not.
LEMMA PrefixIs ==
    ASSUME NEW q, Orderly(q), NEW n \in 0 .. Len(q)
    PROVE  /\ Orderly(SubSeq(q, 1, n))
           /\ ToSet(SubSeq(q, 1, n)) = ToSet(q) \ ToSet(SubSeq(q, n + 1, Len(q)))
           /\ ToSet(SubSeq(q, n + 1, Len(q))) \subseteq ToSet(q)
<1> DEFINE p == SubSeq(q, 1, n)
           r == SubSeq(q, n + 1, Len(q))
<1>0. q \in Seq(Key) /\ Len(q) \in Nat /\ \A i \in 1 .. Len(q) : q[i] \in Key
  BY DEF Orderly
<1>1. p \in Seq(Key) /\ Len(p) = n /\ \A i \in 1 .. n : p[i] = q[i]
  BY <1>0, SubSeqProperties
<1>2. r \in Seq(Key) /\ Len(r) = Len(q) - n /\ \A i \in 1 .. Len(q) - n : r[i] = q[n + i]
  BY <1>0, SubSeqProperties
<1> HIDE DEF p, r
<1>3. /\ \A i \in 1 .. n : q[i] \in ToSet(p)
      /\ \A x \in ToSet(p) : \E i \in 1 .. n : x = q[i]
  <2>1. ToSet(p) = {p[i] : i \in 1 .. n}
    BY <1>1, ToSetIs
  <2> QED
    BY <1>1, <2>1
<1>4. /\ \A i \in n + 1 .. Len(q) : q[i] \in ToSet(r)
      /\ \A x \in ToSet(r) : \E i \in n + 1 .. Len(q) : x = q[i]
  <2>1. ToSet(r) = {r[i] : i \in 1 .. Len(q) - n}
    BY <1>2, ToSetIs
  <2>2. \A i \in 1 .. Len(q) - n : n + i \in n + 1 .. Len(q) /\ r[i] = q[n + i]
    BY <1>0, <1>2
  <2>3. \A i \in n + 1 .. Len(q) : i - n \in 1 .. Len(q) - n /\ q[i] = r[i - n]
    BY <1>0, <1>2
  <2>4. \A i \in n + 1 .. Len(q) : q[i] \in ToSet(r)
    BY <2>1, <2>3
  <2>5. \A x \in ToSet(r) : \E i \in n + 1 .. Len(q) : x = q[i]
    BY <2>1, <2>2
  <2> QED
    BY <2>4, <2>5
<1>5. /\ \A i \in 1 .. Len(q) : q[i] \in ToSet(q)
      /\ \A x \in ToSet(q) : \E i \in 1 .. Len(q) : x = q[i]
  BY <1>0, ToSetIs
<1>6. \A i \in 1 .. Len(q) : i \in 1 .. n \/ i \in n + 1 .. Len(q)
  BY <1>0
<1>7. (1 .. n) \subseteq 1 .. Len(q) /\ (n + 1 .. Len(q)) \subseteq 1 .. Len(q)
  BY <1>0
<1>8. \A i \in 1 .. n, m \in n + 1 .. Len(q) : q[i] # q[m]
  <2> SUFFICES ASSUME NEW i \in 1 .. n, NEW m \in n + 1 .. Len(q) PROVE q[i] # q[m]
    OBVIOUS
  <2>1. i # m /\ i \in 1 .. Len(q) /\ m \in 1 .. Len(q)
    BY <1>0
  <2> QED
    BY <2>1 DEF Orderly
<1>9. ToSet(p) \subseteq ToSet(q) \ ToSet(r)
  BY <1>3, <1>4, <1>5, <1>7, <1>8
<1>10. ToSet(q) \ ToSet(r) \subseteq ToSet(p)
  BY <1>3, <1>4, <1>5, <1>6
<1>11. ToSet(r) \subseteq ToSet(q)
  BY <1>4, <1>5, <1>7
<1>12. Orderly(p)
  <2> SUFFICES ASSUME NEW i \in 1 .. n, NEW m \in 1 .. n, p[i] = p[m] PROVE i = m
    BY <1>1 DEF Orderly
  <2>1. q[i] = q[m] /\ i \in 1 .. Len(q) /\ m \in 1 .. Len(q)
    BY <1>1, <1>7
  <2> QED
    BY <2>1 DEF Orderly
<1> QED
  BY <1>9, <1>10, <1>11, <1>12 DEF p, r

\* Some numbers up to a bound have a largest one.
LEMMA MaxIs ==
    ASSUME NEW N \in Nat, NEW S \in SUBSET (0 .. N), S # {}
    PROVE  Max(S) \in S
<1> DEFINE below == {N - m : m \in S}
<1>0. \A m \in S : m \in Nat /\ N - m \in Nat
  OBVIOUS
<1>1. below \in SUBSET Nat /\ below # {}
  BY <1>0
<1>2. PICK n \in below : \A m \in below : n <= m
  BY <1>1, Smallest
<1>3. PICK x \in S : n = N - x
  OBVIOUS
<1>4. \A y \in S : x >= y
  <2> SUFFICES ASSUME NEW y \in S PROVE x >= y
    OBVIOUS
  <2>1. n <= N - y
    BY <1>2
  <2>2. x \in Nat /\ y \in Nat
    BY <1>0
  <2> QED
    BY <1>3, <2>1, <2>2
<1> QED
  BY <1>4 DEF Max

\* The walk of the directory finds each file once.
LEMMA WalkedIs ==
    ASSUME NEW S \in SUBSET Key
    PROVE  Orderly(Walked(S)) /\ ToSet(Walked(S)) = S
<1> DEFINE Sorted(s, q) ==
               /\ q \in [1 .. Cardinality(s) -> s] /\ ToSet(q) = s
               /\ \A m, n \in DOMAIN q : m < n => q[m] > q[n]
           Has(s) == \E q : Sorted(s, q)
           X == {s \in SUBSET S : ~Has(s)}
<1>1. \A s \in SUBSET S : IsFiniteSet(s) /\ Cardinality(s) \in Nat /\ s \subseteq Nat
  BY FS_Subset, FS_CardinalityType, CacheAssumption
<1>2. Has({})
  <2>1. Cardinality({}) = 0
    BY FS_EmptySet
  <2>2. Sorted({}, [i \in 1 .. 0 |-> i])
    BY <2>1 DEF ToSet
  <2> QED
    BY <2>2
<1>3. ASSUME NEW s \in SUBSET S, NEW x \in s, \A y \in s : x <= y, NEW q, Sorted(s \ {x}, q)
      PROVE  Has(s)
  <2> DEFINE c == Cardinality(s)
             p == [i \in 1 .. c |-> IF i = c THEN x ELSE q[i]]
  <2>1. c \in Nat /\ Cardinality(s \ {x}) = c - 1 /\ c - 1 \in Nat
    <3>1. IsFiniteSet(s) /\ Cardinality(s) \in Nat /\ Cardinality(s \ {x}) \in Nat
      BY <1>1
    <3>2. Cardinality(s \ {x}) = Cardinality(s) - 1
      BY <3>1, FS_RemoveElement
    <3> QED
      BY <3>1, <3>2
  <2> HIDE DEF c
  <2>2. \A i \in 1 .. c - 1 : q[i] \in s /\ q[i] # x /\ q[i] \in Nat
    BY <1>1, <1>3, <2>1
  <2>3. p \in [1 .. c -> s] /\ p[c] = x /\ \A i \in 1 .. c - 1 : p[i] = q[i]
    BY <2>1, <2>2
  <2>4. DOMAIN q = 1 .. c - 1 /\ DOMAIN p = 1 .. c
    BY <1>3, <2>1
  <2> HIDE DEF p
  <2>5. ToSet(p) = s
    <3>1. \A y \in s \ {x} : \E i \in 1 .. c - 1 : y = q[i]
      BY <1>3, <2>4 DEF ToSet
    <3>2. \A y \in s \ {x} : \E i \in 1 .. c : y = p[i]
      BY <2>1, <2>3, <3>1
    <3>3. c \in 1 .. c
      BY <2>1
    <3> QED
      BY <2>3, <2>4, <3>2, <3>3 DEF ToSet
  <2>6. ASSUME NEW m \in 1 .. c, NEW n \in 1 .. c, m < n PROVE p[m] > p[n]
    <3>0. m \in 1 .. c - 1
      BY <2>1, <2>6
    <3>1. p[m] = q[m] /\ q[m] \in s /\ q[m] # x /\ x <= q[m] /\ q[m] \in Nat
      BY <1>3, <2>2, <2>3, <3>0
    <3>2. x \in Nat
      BY <1>1
    <3>3. CASE n = c
      BY <2>3, <3>1, <3>2, <3>3
    <3>4. CASE n # c
      <4>1. n \in 1 .. c - 1
        BY <2>1, <3>4
      <4>2. q[m] > q[n]
        BY <1>3, <2>4, <2>6, <3>0, <4>1
      <4> QED
        BY <2>3, <3>0, <4>1, <4>2
    <3> QED
      BY <3>3, <3>4
  <2>7. Sorted(s, p)
    BY <2>3, <2>4, <2>5, <2>6 DEF c
  <2> QED
    BY <2>7
<1>4. ASSUME NEW s \in SUBSET S, NEW x \in s, \A y \in s : x <= y, Has(s \ {x}) PROVE Has(s)
  BY <1>3, <1>4
<1> HIDE DEF Has
<1>5. X = {}
  <2> SUFFICES ASSUME X # {} PROVE FALSE
    OBVIOUS
  <2>1. PICK s \in X : \A x \in s : s \ {x} \notin X
    BY <1>1, SmallestSet
  <2>2. s # {} /\ s \in SUBSET Nat
    BY <1>1, <1>2
  <2>3. PICK x \in s : \A y \in s : x <= y
    BY <2>2, Smallest
  <2>4. Has(s \ {x})
    BY <2>1
  <2> QED
    BY <1>4, <2>3, <2>4
<1>6. \E q : Sorted(S, q)
  BY <1>5 DEF Has
<1>7. Sorted(S, Walked(S))
  BY <1>6 DEF Walked
<1>8. Cardinality(S) \in Nat /\ S \subseteq Nat
  BY <1>1
<1> DEFINE q == Walked(S)
<1>9. Orderly(q)
  <2>1. q \in Seq(Key) /\ Len(q) = Cardinality(S) /\ DOMAIN q = 1 .. Len(q)
    <3>1. q \in [1 .. Cardinality(S) -> Key]
      BY <1>7
    <3> HIDE DEF q
    <3> QED
      BY <1>8, <3>1
  <2>2. \A m, n \in 1 .. Len(q) : m < n => q[m] # q[n]
    <3> SUFFICES ASSUME NEW m \in 1 .. Len(q), NEW n \in 1 .. Len(q), m < n PROVE q[m] # q[n]
      OBVIOUS
    <3>1. q[m] > q[n] /\ q[m] \in Nat /\ q[n] \in Nat
      BY <1>7, <1>8, <2>1
    <3> QED
      BY <3>1
  <2>3. \A m, n \in 1 .. Len(q) : m # n => m < n \/ n < m
    BY <1>8, <2>1
  <2> HIDE DEF q
  <2> QED
    BY <2>1, <2>2, <2>3 DEF Orderly
<1> QED
  BY <1>7, <1>9

-----------------------------------------------------------------------------
(* The index and what its operations leave.                                *)

IsIndex(i) ==
    /\ i = [lru |-> i.lru, noted |-> i.noted, total |-> i.total, file |-> i.file,
            resized |-> i.resized]
    /\ Orderly(i.lru) /\ i.noted \in [Key -> Nat] /\ i.total \in Int
    /\ i.file \in [Key -> CopyType] /\ i.resized \in BOOLEAN
Counted(i) == i.total = Weight(i.noted, ToSet(i.lru))
Fits(i) == Counted(i) /\ i.total <= MaxSize

LEMMA KeysWeigh ==
    ASSUME NEW size \in [Key -> Nat], NEW S \in SUBSET Key
    PROVE  /\ IsFiniteSet(S) /\ Weight(size, S) \in Nat
           /\ \A T \in SUBSET S : Weight(size, S) = Weight(size, S \ T) + Weight(size, T)
           /\ \A k \in Key \ S : Weight(size, S \cup {k}) = size[k] + Weight(size, S)
<1>1. IsFiniteSet(S) /\ \A x \in S : size[x] \in Nat
  BY CacheAssumption, FS_Subset
<1>2. \A T \in SUBSET S : Weight(size, S) = Weight(size, S \ T) + Weight(size, T)
  BY <1>1, WeightApart
<1>3. ASSUME NEW k \in Key \ S PROVE Weight(size, S \cup {k}) = size[k] + Weight(size, S)
  <2>1. IsFiniteSet(S \cup {k}) /\ (\A x \in S \cup {k} : size[x] \in Nat) /\ (S \cup {k}) \ {k} = S
    BY <1>1, FS_AddElement
  <2> QED
    BY <2>1, WeightTaken
<1> QED
  BY <1>1, <1>2, <1>3, WeightNat

\* Evicting takes the files of the keys that it takes, and stops when the rest fits.
LEMMA EvictedIs ==
    ASSUME NEW i, IsIndex(i), NEW e, e = Evicted(i)
    PROVE  /\ IsIndex(e) /\ e.noted = i.noted /\ e.resized = i.resized
           /\ ToSet(e.lru) \subseteq ToSet(i.lru)
           /\ \A k \in Key : /\ e.file[k] \in {i.file[k], NoCopy}
                             /\ k \in ToSet(i.lru) \ ToSet(e.lru) => e.file[k] = NoCopy
           /\ Counted(i) => Fits(e)
<1> DEFINE tail(m) == ToSet(SubSeq(i.lru, m + 1, Len(i.lru)))
           S == {0} \cup {m \in 1..Len(i.lru) : i.total - Weight(i.noted, tail(m)) <= MaxSize}
           n == Max(S)
           left == SubSeq(i.lru, 1, n)
           file2 == [k \in Key |-> IF k \in tail(n) THEN NoCopy ELSE i.file[k]]
           total2 == i.total - Weight(i.noted, tail(n))
<1>1. e = [i EXCEPT !.lru = left, !.total = total2, !.file = file2]
  BY DEF Evicted
<1>2. Len(i.lru) \in Nat
  BY DEF IsIndex, Orderly
<1>3. S \in SUBSET (0 .. Len(i.lru)) /\ S # {}
  BY <1>2
<1>4. n \in S
  BY <1>2, <1>3, MaxIs
<1>5. n \in 0 .. Len(i.lru) /\ (n = 0 \/ total2 <= MaxSize)
  BY <1>3, <1>4
<1> HIDE DEF n, S
<1>6. /\ Orderly(left) /\ ToSet(left) = ToSet(i.lru) \ tail(n) /\ tail(n) \subseteq ToSet(i.lru)
      /\ ToSet(i.lru) \subseteq Key
  BY <1>5, PrefixIs, CountIs DEF IsIndex
<1>7. tail(0) = ToSet(i.lru)
  <2>1. SubSeq(i.lru, 1, Len(i.lru)) = i.lru
    BY SubSeqFull DEF IsIndex, Orderly
  <2>2. 0 + 1 = 1
    OBVIOUS
  <2> QED
    BY <2>1, <2>2
<1>8. n = 0 => tail(n) = ToSet(i.lru)
  BY <1>7
<1> DEFINE last == tail(n)
<1>9. last \subseteq ToSet(i.lru) /\ Weight(i.noted, last) \in Nat
  BY <1>6, KeysWeigh DEF IsIndex
<1>10. /\ total2 = i.total - Weight(i.noted, last)
       /\ file2 = [k \in Key |-> IF k \in last THEN NoCopy ELSE i.file[k]]
       /\ ToSet(left) = ToSet(i.lru) \ last /\ Orderly(left)
  BY <1>6
<1> HIDE DEF last, left, total2, file2
<1>11. e = [lru |-> left, noted |-> i.noted, total |-> total2, file |-> file2, resized |-> i.resized]
  <2>1. i = [lru |-> i.lru, noted |-> i.noted, total |-> i.total, file |-> i.file,
             resized |-> i.resized]
    BY DEF IsIndex
  <2> QED
    BY <1>1, <2>1
<1>12. total2 \in Int /\ file2 \in [Key -> CopyType]
  BY <1>9, <1>10, CacheConstants DEF IsIndex
<1>13. IsIndex(e)
  BY <1>10, <1>11, <1>12 DEF IsIndex
<1>14. ASSUME Counted(i) PROVE Fits(e)
  <2>1. i.total = Weight(i.noted, ToSet(i.lru) \ last) + Weight(i.noted, last)
    BY <1>6, <1>9, <1>14, KeysWeigh DEF Counted, IsIndex
  <2>2. Weight(i.noted, ToSet(i.lru) \ last) \in Nat
    <3>1. ToSet(i.lru) \ last \in SUBSET Key
      BY <1>6
    <3> QED
      BY <3>1, KeysWeigh DEF IsIndex
  <2>3. total2 = Weight(i.noted, ToSet(left))
    BY <1>9, <1>10, <2>1, <2>2
  <2>4. n = 0 => total2 = 0
    <3> SUFFICES ASSUME n = 0 PROVE total2 = 0
      OBVIOUS
    <3>1. last = ToSet(i.lru)
      BY <1>8 DEF last
    <3>2. i.total = Weight(i.noted, last)
      BY <1>14, <3>1 DEF Counted
    <3> QED
      BY <1>9, <1>10, <3>2
  <2>5. total2 <= MaxSize
    BY <1>5, <2>4, CacheAssumption
  <2> QED
    BY <1>11, <2>3, <2>5 DEF Fits, Counted
<1> QED
  BY <1>10, <1>11, <1>13, <1>14

\* A key that is inserted has its new size; if that was not its size, this is noted.
LEMMA InsertedIs ==
    ASSUME NEW i, IsIndex(i), NEW k \in Key, NEW size \in Nat, NEW e, e = Inserted(i, k, size)
    PROVE  /\ IsIndex(e) /\ (i.resized => e.resized)
           /\ \A x \in Key : /\ e.file[x] \in {i.file[x], NoCopy}
                             /\ x # k => /\ e.noted[x] = i.noted[x]
                                         /\ x \in ToSet(i.lru) =>
                                               x \in ToSet(e.lru) \/ e.file[x] = NoCopy
           /\ e.noted[k] = size /\ (k \in ToSet(e.lru) \/ e.file[k] = NoCopy)
           /\ ~e.resized /\ i.file[k].v # 0 => SizeOf(i.file[k].v) = size
           /\ ~e.resized /\ Fits(i) => Fits(e)
<1> DEFINE there == k \in ToSet(i.lru)
           was == (IF there THEN {i.noted[k]} ELSE {})
                  \cup {SizeOf(v) : v \in {i.file[k].v} \ {0}}
           noted2 == [i.noted EXCEPT ![k] = size]
           other == was \ {size} # {}
           resized2 == i.resized \/ other
           j == [i EXCEPT !.noted[k] = size, !.resized = @ \/ other]
           moved == [j EXCEPT !.lru = Touched(@, k)]
           added == [j EXCEPT !.lru = <<k>> \o @, !.total = @ + size]
<1>1. e = IF there THEN moved ELSE Evicted(added)
  BY DEF Inserted
<1>2. i = [lru |-> i.lru, noted |-> i.noted, total |-> i.total, file |-> i.file,
           resized |-> i.resized]
  BY DEF IsIndex
<1>5. /\ ~resized2 /\ there => i.noted[k] = size
      /\ ~resized2 /\ i.file[k].v # 0 => SizeOf(i.file[k].v) = size
  OBVIOUS
<1>4. /\ noted2 \in [Key -> Nat] /\ noted2[k] = size
      /\ \A x \in Key : x # k => noted2[x] = i.noted[x]
      /\ resized2 \in BOOLEAN /\ (i.resized => resized2)
  BY DEF IsIndex
<1> HIDE DEF other
<1>3. j = [lru |-> i.lru, noted |-> noted2, total |-> i.total, file |-> i.file,
           resized |-> resized2]
  <2>1. DOMAIN i = {"lru", "noted", "total", "file", "resized"}
    BY <1>2
  <2>2. j = [i EXCEPT !.noted = noted2, !.resized = resized2]
    BY <2>1
  <2> HIDE DEF j, noted2, resized2
  <2> QED
    BY <1>2, <2>2
<1> HIDE DEF j, noted2, resized2
<1>6. /\ moved = [lru |-> Touched(i.lru, k), noted |-> noted2, total |-> i.total,
                  file |-> i.file, resized |-> resized2]
      /\ added = [lru |-> <<k>> \o i.lru, noted |-> noted2, total |-> i.total + size,
                  file |-> i.file, resized |-> resized2]
  <2>1. /\ j.lru = i.lru /\ j.total = i.total
        /\ DOMAIN j = {"lru", "noted", "total", "file", "resized"}
    BY <1>3
  <2> DEFINE q == Touched(i.lru, k)
             p == <<k>> \o i.lru
  <2>2. moved = [j EXCEPT !.lru = q] /\ added = [j EXCEPT !.lru = p, !.total = i.total + size]
    BY <2>1
  <2> HIDE DEF q, p, moved, added
  <2>3. /\ moved = [lru |-> q, noted |-> noted2, total |-> i.total,
                    file |-> i.file, resized |-> resized2]
        /\ added = [lru |-> p, noted |-> noted2, total |-> i.total + size,
                    file |-> i.file, resized |-> resized2]
    BY <1>3, <2>2
  <2> QED
    BY <2>3 DEF q, p
<1> HIDE DEF moved, added
<1>7. CASE there
  <2>1. Orderly(e.lru) /\ ToSet(e.lru) = ToSet(i.lru)
    BY <1>1, <1>6, <1>7, TouchedIs DEF IsIndex
  <2>2. IsIndex(e)
    BY <1>1, <1>4, <1>6, <1>7, <2>1 DEF IsIndex
  <2>3. ASSUME ~e.resized, Fits(i) PROVE Fits(e)
    <3>1. noted2 = i.noted
      BY <1>1, <1>4, <1>5, <1>6, <1>7, <2>3 DEF IsIndex
    <3> QED
      BY <1>1, <1>6, <1>7, <2>1, <2>3, <3>1 DEF Fits, Counted
  <2> QED
    BY <1>1, <1>4, <1>5, <1>6, <1>7, <2>1, <2>2, <2>3
<1>8. CASE ~there
  <2>1. Orderly(<<k>> \o i.lru) /\ ToSet(<<k>> \o i.lru) = {k} \cup ToSet(i.lru)
    BY <1>8, FrontIs DEF IsIndex
  <2>2. IsIndex(added)
    BY <1>4, <1>6, <2>1 DEF IsIndex
  <2>3. e = Evicted(added)
    BY <1>1, <1>8
  <2>4. /\ IsIndex(e) /\ e.noted = noted2 /\ e.resized = resized2
        /\ \A x \in Key : /\ e.file[x] \in {i.file[x], NoCopy}
                          /\ x \in ({k} \cup ToSet(i.lru)) \ ToSet(e.lru) => e.file[x] = NoCopy
        /\ Counted(added) => Fits(e)
    <3>1. /\ added.noted = noted2 /\ added.resized = resized2 /\ added.file = i.file
          /\ ToSet(added.lru) = {k} \cup ToSet(i.lru)
      BY <1>6, <2>1
    <3>2. /\ IsIndex(e) /\ e.noted = added.noted /\ e.resized = added.resized
          /\ \A x \in Key : /\ e.file[x] \in {added.file[x], NoCopy}
                            /\ x \in ToSet(added.lru) \ ToSet(e.lru) => e.file[x] = NoCopy
          /\ Counted(added) => Fits(e)
      BY <2>2, <2>3, EvictedIs
    <3> QED
      BY <3>1, <3>2
  <2>5. ASSUME Fits(i) PROVE Counted(added)
    <3>1. ToSet(i.lru) \subseteq Key /\ k \notin ToSet(i.lru)
      BY <1>8, CountIs DEF IsIndex
    <3>2. Weight(noted2, ToSet(i.lru)) = Weight(i.noted, ToSet(i.lru))
      BY <1>4, <3>1, KeysWeigh, WeightSame DEF IsIndex
    <3>3. Weight(noted2, ToSet(i.lru) \cup {k}) = noted2[k] + Weight(noted2, ToSet(i.lru))
      BY <1>4, <3>1, KeysWeigh
    <3>4. Weight(i.noted, ToSet(i.lru)) \in Nat /\ i.total = Weight(i.noted, ToSet(i.lru))
      BY <2>5, <3>1, KeysWeigh DEF IsIndex, Fits, Counted
    <3>5. ToSet(added.lru) = ToSet(i.lru) \cup {k}
      BY <1>6, <2>1
    <3> QED
      <4>1. added.noted = noted2 /\ added.total = i.total + size
        BY <1>6
      <4>2. Weight(noted2, ToSet(i.lru) \cup {k}) = size + Weight(i.noted, ToSet(i.lru))
        BY <1>4, <3>2, <3>3
      <4>3. i.total + size = size + Weight(i.noted, ToSet(i.lru))
        BY <3>4
      <4> QED
        BY <3>5, <4>1, <4>2, <4>3 DEF Counted
  <2> QED
    BY <1>4, <1>5, <2>4, <2>5
<1> QED
  BY <1>7, <1>8

\* A key that is removed leaves its file.
LEMMA RemovedIs ==
    ASSUME NEW i, IsIndex(i), NEW k, NEW e, e = Removed(i, k)
    PROVE  /\ IsIndex(e) /\ e.noted = i.noted /\ e.file = i.file /\ e.resized = i.resized
           /\ ToSet(e.lru) = ToSet(i.lru) \ {k}
           /\ Fits(i) => Fits(e)
<1>1. i = [lru |-> i.lru, noted |-> i.noted, total |-> i.total, file |-> i.file,
           resized |-> i.resized]
  BY DEF IsIndex
<1>2. CASE k \notin ToSet(i.lru)
  BY <1>2 DEF Removed
<1>3. CASE k \in ToSet(i.lru)
  <2> DEFINE q == RemoveFirst(i.lru, k)
             S == ToSet(i.lru)
  <2>1. e = [i EXCEPT !.lru = q, !.total = @ - i.noted[k]]
    BY <1>3 DEF Removed
  <2>2. e = [lru |-> q, noted |-> i.noted, total |-> i.total - i.noted[k], file |-> i.file,
             resized |-> i.resized]
    BY <1>1, <2>1
  <2>3. Orderly(q) /\ ToSet(q) = S \ {k}
    BY <1>3, OutIs DEF IsIndex
  <2>4. S \subseteq Key /\ i.noted[k] \in Nat /\ k \in Key
    BY <1>3, CountIs DEF IsIndex
  <2> HIDE DEF q, S
  <2>5. IsIndex(e)
    BY <2>2, <2>3, <2>4 DEF IsIndex
  <2>6. ASSUME Fits(i) PROVE Fits(e)
    <3>1. S \ {k} \in SUBSET Key /\ k \in Key \ (S \ {k}) /\ (S \ {k}) \cup {k} = S
      BY <1>3, <2>4 DEF S
    <3>2. /\ Weight(i.noted, S) = i.noted[k] + Weight(i.noted, S \ {k})
          /\ Weight(i.noted, S \ {k}) \in Nat
      <4>1. /\ Weight(i.noted, (S \ {k}) \cup {k}) = i.noted[k] + Weight(i.noted, S \ {k})
            /\ Weight(i.noted, S \ {k}) \in Nat
        BY <3>1, KeysWeigh DEF IsIndex
      <4> QED
        BY <3>1, <4>1
    <3>3. i.total = Weight(i.noted, S) /\ i.total <= MaxSize /\ MaxSize \in Nat
      BY <2>6, CacheAssumption DEF Fits, Counted, S
    <3> QED
      <4>1. e.noted = i.noted /\ e.total = i.total - i.noted[k] /\ ToSet(e.lru) = S \ {k}
        BY <2>2, <2>3
      <4>2. i.total - i.noted[k] = Weight(i.noted, S \ {k}) /\ i.total - i.noted[k] <= MaxSize
        BY <2>4, <3>2, <3>3
      <4> QED
        BY <4>1, <4>2 DEF Fits, Counted
  <2> QED
    BY <2>2, <2>3, <2>5, <2>6 DEF S
<1> QED
  BY <1>2, <1>3

\* A new index has every file that is left, with its size.
LEMMA RebuiltIs ==
    ASSUME IsIndex(Index), NEW e, e = Rebuilt
    PROVE  /\ IsIndex(e) /\ e.resized = resized /\ Fits(e)
           /\ \A k \in Key : /\ e.file[k] \in {file[k], NoCopy}
                             /\ e.file[k].v # 0 =>
                                   k \in ToSet(e.lru) /\ e.noted[k] = SizeOf(e.file[k].v)
<1> DEFINE found == {k \in Key : file[k] # NoCopy}
           size == [k \in Key |-> IF k \in found THEN SizeOf(file[k].v) ELSE noted[k]]
           i == [Index EXCEPT !.lru = Walked(found), !.noted = size,
                              !.total = Weight(size, found)]
<1>1. e = Evicted(i)
  BY DEF Rebuilt
<1>2. /\ file \in [Key -> CopyType] /\ noted \in [Key -> Nat] /\ resized \in BOOLEAN
  BY DEF IsIndex, Index
<1>3. found \in SUBSET Key /\ size \in [Key -> Nat]
  BY <1>2, CacheConstants DEF CopyType
<1>4. \A k \in found : size[k] = SizeOf(file[k].v)
  OBVIOUS
<1>5. Weight(size, found) \in Nat
  BY <1>3, KeysWeigh
<1>6. Orderly(Walked(found)) /\ ToSet(Walked(found)) = found
  BY <1>3, WalkedIs
<1>7. \A k \in Key \ found : file[k] = NoCopy
  OBVIOUS
<1> HIDE DEF found, size
<1>8. i = [lru |-> Walked(found), noted |-> size, total |-> Weight(size, found), file |-> file,
           resized |-> resized]
  <2> DEFINE q == Walked(found)
             sum == Weight(size, found)
  <2>1. i = [Index EXCEPT !.lru = q, !.noted = size, !.total = sum]
    OBVIOUS
  <2> HIDE DEF q, sum, i
  <2>2. i = [lru |-> q, noted |-> size, total |-> sum, file |-> file, resized |-> resized]
    BY <2>1 DEF Index
  <2> QED
    BY <2>2 DEF q, sum
<1> HIDE DEF i
<1>9. IsIndex(i) /\ Counted(i) /\ i.file = file /\ i.noted = size /\ i.resized = resized
      /\ ToSet(i.lru) = found
  BY <1>2, <1>3, <1>5, <1>6, <1>8 DEF IsIndex, Counted
<1>10. /\ IsIndex(e) /\ e.noted = size /\ e.resized = resized /\ Fits(e)
       /\ \A k \in Key : /\ e.file[k] \in {file[k], NoCopy}
                         /\ k \in found \ ToSet(e.lru) => e.file[k] = NoCopy
  BY <1>1, <1>9, EvictedIs
<1>11. ASSUME NEW k \in Key, e.file[k].v # 0
       PROVE  k \in ToSet(e.lru) /\ e.noted[k] = SizeOf(e.file[k].v)
  <2>1. e.file[k] # NoCopy
    BY <1>11 DEF NoCopy
  <2>2. e.file[k] = file[k] /\ k \in found
    BY <1>7, <1>10, <2>1
  <2> QED
    BY <1>4, <1>10, <2>1, <2>2
<1> QED
  BY <1>10, <1>11

-----------------------------------------------------------------------------
(* The files that the index does not know of. The mutex of Put comes with  *)
(* one goroutine inside; a hit that finds its file gone drops the key and  *)
(* unlocks a mutex that it does not hold, which ends the process or leaves *)
(* one goroutine too many inside, until the process ends.                  *)

Inside(t, op, step) == tasks[t].op = op /\ tasks[t].step = step
Filling == {t \in Task : Inside(t, "put", "fill")}
Unlocking == \E t \in Task : Inside(t, "open", "unlock")
Intruded == Filling # {} /\ (~locked \/ \E s, t \in Filling : s # t)

\* A call is about to insert the key, or to erase its file.
Owed(k) == \E t \in Task : /\ tasks[t].key = k
                           /\ Inside(t, "open", "insert") \/ Inside(t, "delete", "erase")
Known(k) == k \in Indexed /\ noted[k] = SizeOf(file[k].v)
Filed == ~resized => \A k \in Key : file[k].v # 0 => Known(k) \/ Owed(k)

IndexTyped ==
    /\ Orderly(lru) /\ noted \in [Key -> Nat] /\ total \in Int
    /\ file \in [Key -> CopyType] /\ resized \in BOOLEAN
InBudget == ~resized => total = Weight(noted, Indexed) /\ total <= MaxSize
Settled == exited \/ Unlocking \/ Intruded \/ Filed
IndexInv ==
    /\ IndexTyped /\ InBudget /\ (locked => Filling # {}) /\ Settled
    /\ made <= MaxCalls /\ starts <= MaxStarts /\ tainted \subseteq Key
    /\ made \in Nat /\ starts \in Nat

\* The index as a record and as variables.
LEMMA IndexIs ==
    /\ IndexTyped <=> IsIndex(Index)
    /\ IndexTyped => (Fits(Index) <=> total = Weight(noted, Indexed) /\ total <= MaxSize)
BY DEF IndexTyped, IsIndex, Index, Fits, Counted, Indexed

LEMMA BecomeIs ==
    ASSUME NEW e, IsIndex(e), Become(e)
    PROVE  /\ IndexTyped' /\ lru' = e.lru /\ noted' = e.noted /\ file' = e.file
           /\ resized' = e.resized /\ Indexed' = ToSet(e.lru)
           /\ (~e.resized => Fits(e)) => InBudget'
BY DEF IsIndex, Become, IndexTyped, Indexed, InBudget, Fits, Counted

\* What a step leaves of a call that is not at one of the steps that matter.
LEMMA StepKeeps ==
    ASSUME NEW t \in Task, \A s \in Task : s # t => tasks'[s] = tasks[s],
           ~Inside(t, "put", "fill"), ~Inside(t, "put", "fill")'
    PROVE  /\ Filling' = Filling
           /\ ~Inside(t, "open", "unlock") /\ Unlocking => Unlocking'
           /\ locked' = locked /\ Intruded => Intruded'
           /\ \A k : Owed(k) => \/ Owed(k)'
                                \/ /\ tasks[t].key = k
                                   /\ Inside(t, "open", "insert") \/ Inside(t, "delete", "erase")
<1>1. \A s \in Task : s # t => \A op, step : Inside(s, op, step)' <=> Inside(s, op, step)
  BY DEF Inside
<1>2. Filling' = Filling
  BY <1>1 DEF Filling
<1>3. ~Inside(t, "open", "unlock") /\ Unlocking => Unlocking'
  BY <1>1 DEF Unlocking
<1>4. locked' = locked /\ Intruded => Intruded'
  BY <1>2 DEF Intruded
<1>5. \A k : Owed(k) => \/ Owed(k)'
                        \/ /\ tasks[t].key = k
                           /\ Inside(t, "open", "insert") \/ Inside(t, "delete", "erase")
  BY <1>1 DEF Owed
<1> QED
  BY <1>2, <1>3, <1>4, <1>5

\* Steps that leave files and sizes alone.
LEMMA LookKeeps ==
    ASSUME IndexInv, NEW t \in Task, \A s \in Task : s # t => tasks'[s] = tasks[s],
           tasks[t].step \notin {"insert", "erase", "fill", "unlock"}, tasks'[t].step # "fill",
           UNCHANGED <<noted, total, file, locked, exited, resized>>,
           Orderly(lru'), ToSet(lru') = ToSet(lru),
           UNCHANGED made \/ (made' = made + 1 /\ made < MaxCalls),
           tainted' \subseteq Key, starts' = starts
    PROVE  IndexInv'
<1>1. /\ Filling' = Filling /\ (Unlocking => Unlocking') /\ (Intruded => Intruded')
      /\ \A k : Owed(k) => Owed(k)'
  BY StepKeeps DEF Inside
<1>2. IndexTyped' /\ InBudget' /\ (locked => Filling # {})'
  BY <1>1 DEF IndexInv, IndexTyped, InBudget, Indexed
<1>3. Filed => Filed'
  BY <1>1 DEF Filed, Known, Indexed
<1>4. Settled'
  BY <1>1, <1>3 DEF IndexInv, Settled
<1>5. /\ made' <= MaxCalls /\ starts' <= MaxStarts /\ tainted' \subseteq Key
      /\ made' \in Nat /\ starts' \in Nat
  <2>1. /\ made <= MaxCalls /\ starts <= MaxStarts
        /\ made \in Nat /\ starts \in Nat /\ MaxCalls \in Nat
    BY CacheAssumption DEF IndexInv
  <2>2. CASE UNCHANGED made
    BY <2>1, <2>2
  <2>3. CASE made' = made + 1 /\ made < MaxCalls
    BY <2>1, <2>3
  <2> QED
    BY <2>2, <2>3
<1> QED
  BY <1>2, <1>4, <1>5 DEF IndexInv

\* A call that goes on, whatever else it learns.
LEMMA GoesOn ==
    ASSUME NEW t \in Task, tasks \in [Task -> TaskType], tasks[t] \in CallType
    PROVE  /\ Return(t) => /\ tasks'[t].step = "none" /\ tasks'[t].op = "none"
                           /\ \A s \in Task : s # t => tasks'[s] = tasks[s]
           /\ \A step, v, copy, size :
                 \/ Then(t, step)
                 \/ tasks' = [tasks EXCEPT ![t].step = step, ![t].v = v]
                 \/ tasks' = [tasks EXCEPT ![t].step = step, ![t].copy = copy]
                 \/ tasks' = [tasks EXCEPT ![t].step = step, ![t].size = size]
                 => /\ tasks'[t].step = step /\ tasks'[t].op = tasks[t].op
                    /\ tasks'[t].key = tasks[t].key
                    /\ \A s \in Task : s # t => tasks'[s] = tasks[s]
<1>1. DOMAIN tasks = Task /\ DOMAIN tasks[t] = {"op", "key", "step", "v", "size", "copy"}
  BY DEF CallType
<1>2. Return(t) => /\ tasks'[t] = NoTask
                   /\ \A s \in Task : s # t => tasks'[s] = tasks[s]
  BY <1>1 DEF Return
<1>3. NoTask.step = "none" /\ NoTask.op = "none"
  BY DEF NoTask
<1> QED
  BY <1>1, <1>2, <1>3 DEF Then

LEMMA LooksKeep ==
    ASSUME CacheInv, IndexInv, NEW t \in Task,
           \/ OpenLook(t) \/ OpenHit(t) \/ OpenMiss(t) \/ OpenCopy(t) \/ OpenReopen(t)
           \/ PutWrite(t) \/ PutFetch(t) \/ PutStat(t) \/ DeleteDestroy(t)
    PROVE  IndexInv'
<1>0. ASSUME UNCHANGED tainted \/ (Skip(t) /\ \E step : Doing(t, "put", step))
      PROVE  tainted' \subseteq Key
  <2>1. CASE Skip(t) /\ \E step : Doing(t, "put", step)
    <3>1. tasks[t].key \in Key
      BY <2>1, Doer
    <3> QED
      BY <2>1, <3>1 DEF Skip, IndexInv
  <2> QED
    BY <1>0, <2>1 DEF IndexInv
<1>1. /\ UNCHANGED <<noted, total, file, locked, exited, resized, made, starts>>
      /\ tainted' \subseteq Key
      /\ lru' = lru \/ (lru' = Touched(lru, tasks[t].key) /\ tasks[t].key \in Indexed)
  BY <1>0 DEF OpenLook, OpenHit, OpenMiss, OpenCopy, OpenReopen, PutWrite, PutFetch, PutStat,
         DeleteDestroy, index, notes, counts
<1> DEFINE Quietly == /\ tasks[t].step \notin {"insert", "erase", "fill", "unlock"}
                      /\ tasks'[t].step # "fill" /\ \A s \in Task : s # t => tasks'[s] = tasks[s]
<1>2. ASSUME NEW op, NEW step, Doing(t, op, step), op # "none",
             step \notin {"insert", "erase", "fill", "unlock"},
             \/ Return(t)
             \/ \E to, v, copy, size :
                   /\ to # "fill"
                   /\ \/ Then(t, to)
                      \/ tasks' = [tasks EXCEPT ![t].step = to, ![t].v = v]
                      \/ tasks' = [tasks EXCEPT ![t].step = to, ![t].copy = copy]
                      \/ tasks' = [tasks EXCEPT ![t].step = to, ![t].size = size]
      PROVE  Quietly
  <2>1. tasks[t] \in CallType /\ tasks \in [Task -> TaskType] /\ tasks[t].step = step
    BY <1>2, Doer
  <2>2. CASE Return(t)
    BY <1>2, <2>1, <2>2, GoesOn
  <2>3. ASSUME NEW to, NEW v, NEW copy, NEW size, to # "fill",
               \/ Then(t, to)
               \/ tasks' = [tasks EXCEPT ![t].step = to, ![t].v = v]
               \/ tasks' = [tasks EXCEPT ![t].step = to, ![t].copy = copy]
               \/ tasks' = [tasks EXCEPT ![t].step = to, ![t].size = size]
        PROVE  Quietly
    BY <1>2, <2>1, <2>3, GoesOn
  <2> QED
    BY <1>2, <2>2, <2>3
<1> HIDE DEF Quietly
<1>3. OpenLook(t) => Quietly
  BY <1>2 DEF OpenLook
<1>4. OpenHit(t) => Quietly
  BY <1>2 DEF OpenHit
<1>5. OpenMiss(t) => Quietly
  BY <1>2 DEF OpenMiss
<1>6. OpenCopy(t) => Quietly
  BY <1>2 DEF OpenCopy
<1>7. OpenReopen(t) => Quietly
  BY <1>2 DEF OpenReopen
<1>8. PutWrite(t) => Quietly
  BY <1>2 DEF PutWrite, Skip
<1>9. PutFetch(t) => Quietly
  BY <1>2 DEF PutFetch, Skip
<1>10. PutStat(t) => Quietly
  BY <1>2 DEF PutStat
<1>11. DeleteDestroy(t) => Quietly
  BY <1>2 DEF DeleteDestroy
<1>12. Quietly
  BY <1>3, <1>4, <1>5, <1>6, <1>7, <1>8, <1>9, <1>10, <1>11
<1>13. Orderly(lru') /\ ToSet(lru') = ToSet(lru)
  BY <1>1, TouchedIs DEF IndexInv, IndexTyped, Indexed
<1> QED
  BY <1>1, <1>12, <1>13, LookKeeps DEF Quietly

\* A call that begins, and Stat.
LEMMA CallBegins ==
    ASSUME CacheInv, IndexInv, NEW t \in Task, NEW op, NEW k \in Key, NEW v, Call(t, op, k, v)
    PROVE  IndexInv'
<1>1. tasks[t].step = "none" /\ tasks[t] = NoTask
  BY DEF Call, NoTask
<1>2. tasks'[t].step = "start" /\ \A s \in Task : s # t => tasks'[s] = tasks[s]
  <2>1. DOMAIN tasks = Task
    BY DEF CacheInv, CacheTyped
  <2> QED
    BY <2>1 DEF Call, NoTask
<1>3. tainted' \subseteq Key /\ made' = made + 1 /\ made < MaxCalls
  <2>1. made + starts < MaxCalls /\ made \in Nat /\ starts \in Nat /\ MaxCalls \in Nat
    BY CacheAssumption DEF Call, IndexInv
  <2>2. made < MaxCalls
    BY <2>1
  <2> QED
    BY <2>2 DEF Call, IndexInv
<1>4. UNCHANGED <<noted, total, file, locked, exited, resized, starts, lru>>
  BY DEF Call, index
<1> QED
  BY <1>1, <1>2, <1>3, <1>4, LookKeeps DEF IndexInv, IndexTyped

LEMMA StatKeeps ==
    ASSUME IndexInv, NEW k \in Key, Stat(k)
    PROVE  IndexInv'
<1>1. /\ lru' = Touched(lru, k) /\ k \in Indexed
      /\ UNCHANGED <<noted, total, file, locked, exited, resized, made, starts, tainted, tasks>>
  BY DEF Stat, counts, notes
<1>2. Orderly(lru') /\ ToSet(lru') = ToSet(lru)
  BY <1>1, TouchedIs DEF IndexInv, IndexTyped, Indexed
<1> QED
  BY <1>1, <1>2 DEF IndexInv, IndexTyped, InBudget, Indexed, Settled, Unlocking, Intruded, Filling,
     Inside, Filed, Known, Owed

-----------------------------------------------------------------------------
(* The steps that change files, sizes or the mutex.                         *)

\* What all of them leave.
LEMMA Settles ==
    ASSUME IndexInv, IndexTyped', InBudget', (locked => Filling # {})', Settled',
           UNCHANGED <<counts, tainted>>
    PROVE  IndexInv'
BY DEF IndexInv, counts

LEMMA OpenDropKeeps == ASSUME CacheInv, IndexInv, NEW t \in Task, OpenDrop(t) PROVE IndexInv'
<1> DEFINE e == Removed(Index, tasks[t].key)
<1>1. /\ tasks[t] \in CallType /\ tasks[t].op = "open" /\ tasks[t].step = "drop"
      /\ tasks \in [Task -> TaskType]
  BY Doer DEF OpenDrop
<1>2. /\ tasks'[t].op = "open" /\ tasks'[t].step = "unlock"
      /\ \A s \in Task : s # t => tasks'[s] = tasks[s]
  BY <1>1, GoesOn DEF OpenDrop
<1>3. Become(e) /\ UNCHANGED <<locked, counts, tainted>>
  BY DEF OpenDrop
<1>4. IsIndex(Index) /\ (~resized => Fits(Index)) /\ Index.resized = resized
  BY IndexIs DEF IndexInv, InBudget, Index
<1>5. IsIndex(e) /\ e.resized = resized /\ (~e.resized => Fits(e))
  BY <1>4, RemovedIs
<1> HIDE DEF e
<1>6. IndexTyped' /\ InBudget'
  BY <1>3, <1>5, BecomeIs
<1>7. Filling' = Filling
  BY <1>1, <1>2, StepKeeps DEF Inside
<1>8. Settled'
  BY <1>2 DEF Settled, Unlocking, Inside
<1> QED
  BY <1>3, <1>6, <1>7, <1>8, Settles DEF IndexInv

LEMMA OpenUnlockKeeps == ASSUME CacheInv, IndexInv, NEW t \in Task, OpenUnlock(t) PROVE IndexInv'
<1>1. /\ tasks[t] \in CallType /\ tasks[t].op = "open" /\ tasks[t].step = "unlock"
      /\ tasks \in [Task -> TaskType]
  BY Doer DEF OpenUnlock
<1>2. /\ tasks'[t].op = "open" /\ tasks'[t].step = "miss"
      /\ \A s \in Task : s # t => tasks'[s] = tasks[s]
  BY <1>1, GoesOn DEF OpenUnlock
<1>3. /\ UNCHANGED <<lru, noted, total, file, resized, counts, tainted>>
      /\ ~locked' /\ (~locked => exited')
  BY DEF OpenUnlock, Unlock, index, notes
<1>4. IndexTyped' /\ InBudget'
  BY <1>3 DEF IndexInv, IndexTyped, InBudget, Indexed
<1>5. Filling' = Filling
  BY <1>1, <1>2, StepKeeps DEF Inside
<1>6. Settled'
  BY <1>3, <1>5 DEF IndexInv, Settled, Intruded
<1> QED
  BY <1>3, <1>4, <1>6, Settles

LEMMA OpenRenameKeeps == ASSUME CacheInv, IndexInv, NEW t \in Task, OpenRename(t) PROVE IndexInv'
<1>0. tasks[t].key \in Key
  BY Doer DEF OpenRename
<1> PICK k \in Key : k = tasks[t].key
  BY <1>0
<1>1. /\ tasks[t] \in CallType /\ tasks[t].op = "open" /\ tasks[t].step = "rename"
      /\ tasks \in [Task -> TaskType] /\ file \in [Key -> CopyType] /\ tasks[t].copy \in CopyType
  BY Doer DEF OpenRename
<1>2. /\ tasks'[t].op = "open" /\ tasks'[t].step = "insert" /\ tasks'[t].key = k
      /\ \A s \in Task : s # t => tasks'[s] = tasks[s]
  BY <1>1, GoesOn DEF OpenRename
<1>3. /\ UNCHANGED <<lru, noted, total, locked, exited, resized, counts, tainted>>
      /\ file' = [file EXCEPT ![k] = tasks[t].copy]
  BY DEF OpenRename, index, notes
<1>4. IndexTyped' /\ InBudget'
  BY <1>1, <1>3 DEF IndexInv, IndexTyped, InBudget, Indexed
<1>5. /\ Filling' = Filling /\ (Unlocking => Unlocking') /\ (Intruded => Intruded')
      /\ \A x : Owed(x) => Owed(x)'
  BY <1>1, <1>2, <1>3, StepKeeps DEF Inside
<1>6. Owed(k)'
  BY <1>2 DEF Owed, Inside
<1>7. \A x \in Key : x # k => file'[x] = file[x] /\ (Known(x) => Known(x)')
  BY <1>1, <1>3 DEF Known, Indexed
<1>8. Filed => Filed'
  <2> SUFFICES ASSUME Filed, ~resized', NEW x \in Key, file'[x].v # 0
               PROVE  Known(x)' \/ Owed(x)'
    BY DEF Filed
  <2> QED
    BY <1>3, <1>5, <1>6, <1>7 DEF Filed
<1>9. Settled'
  BY <1>3, <1>5, <1>8 DEF IndexInv, Settled
<1> QED
  BY <1>3, <1>4, <1>5, <1>9, Settles DEF IndexInv

\* An insertion into the index i, which is the index but for the file of the key.
LEMMA InsertFiles ==
    ASSUME IndexInv, NEW k \in Key, NEW size \in Nat,
           NEW i, IsIndex(i), i.lru = lru, i.noted = noted, i.total = total,
           i.resized = resized, \A x \in Key : x # k => i.file[x] = file[x],
           Become(Inserted(i, k, size))
    PROVE  /\ IndexTyped' /\ InBudget' /\ (resized => resized')
           /\ ~resized' /\ file'[k].v # 0 => Known(k)'
           /\ \A x \in Key : x # k /\ file'[x].v # 0 =>
                 file'[x] = file[x] /\ (Known(x) => Known(x)')
<1> DEFINE e == Inserted(i, k, size)
<1>0. NoCopy.v = 0
  BY DEF NoCopy
<1>1. /\ IsIndex(e) /\ (i.resized => e.resized)
      /\ \A x \in Key : /\ e.file[x] \in {i.file[x], NoCopy}
                        /\ x # k => /\ e.noted[x] = i.noted[x]
                                    /\ x \in ToSet(i.lru) =>
                                          x \in ToSet(e.lru) \/ e.file[x] = NoCopy
      /\ e.noted[k] = size /\ (k \in ToSet(e.lru) \/ e.file[k] = NoCopy)
      /\ ~e.resized /\ i.file[k].v # 0 => SizeOf(i.file[k].v) = size
      /\ ~e.resized /\ Fits(i) => Fits(e)
  BY InsertedIs
<1> HIDE DEF e
<1>2. ~resized => Fits(i)
  BY DEF IndexInv, InBudget, Fits, Counted, Indexed
<1>3. /\ IndexTyped' /\ lru' = e.lru /\ noted' = e.noted /\ file' = e.file
      /\ resized' = e.resized /\ Indexed' = ToSet(e.lru)
      /\ (~e.resized => Fits(e)) => InBudget'
  BY <1>1, BecomeIs DEF e
<1>4. InBudget' /\ (resized => resized')
  BY <1>1, <1>2, <1>3
<1>5. ASSUME ~resized', file'[k].v # 0 PROVE Known(k)'
  BY <1>0, <1>1, <1>3, <1>5 DEF Known
<1>6. ASSUME NEW x \in Key, x # k, file'[x].v # 0
      PROVE  file'[x] = file[x] /\ (Known(x) => Known(x)')
  BY <1>0, <1>1, <1>3, <1>6 DEF Known, Indexed
<1> QED
  BY <1>3, <1>4, <1>5, <1>6

LEMMA OpenInsertKeeps == ASSUME CacheInv, IndexInv, NEW t \in Task, OpenInsert(t) PROVE IndexInv'
<1>0. tasks[t].key \in Key
  BY Doer DEF OpenInsert
<1> PICK k \in Key : k = tasks[t].key
  BY <1>0
<1> DEFINE size == SizeOf(tasks[t].v)
<1>1. /\ tasks[t] \in CallType /\ tasks[t].op = "open" /\ tasks[t].step = "insert"
      /\ tasks \in [Task -> TaskType] /\ k \in Key /\ size \in Nat
  BY Doer, CacheConstants DEF OpenInsert
<1>2. /\ tasks'[t].op = "open" /\ tasks'[t].step = "reopen"
      /\ \A s \in Task : s # t => tasks'[s] = tasks[s]
  BY <1>1, GoesOn DEF OpenInsert
<1>3. Become(Inserted(Index, k, size)) /\ UNCHANGED <<locked, exited, counts, tainted>>
  BY DEF OpenInsert
<1>4. /\ IsIndex(Index) /\ Index.lru = lru /\ Index.noted = noted /\ Index.total = total
      /\ Index.resized = resized /\ Index.file = file
  BY IndexIs DEF IndexInv, Index
<1> HIDE DEF size
<1>5. /\ IndexTyped' /\ InBudget' /\ (resized => resized')
      /\ ~resized' /\ file'[k].v # 0 => Known(k)'
      /\ \A x \in Key : x # k /\ file'[x].v # 0 =>
            file'[x] = file[x] /\ (Known(x) => Known(x)')
  BY <1>1, <1>3, <1>4, InsertFiles
<1>6. /\ Filling' = Filling /\ (Unlocking => Unlocking') /\ (Intruded => Intruded')
      /\ \A x : x # k /\ Owed(x) => Owed(x)'
  BY <1>1, <1>2, <1>3, StepKeeps DEF Inside
<1>7. Filed => Filed'
  <2> SUFFICES ASSUME Filed, ~resized', NEW x \in Key, file'[x].v # 0
               PROVE  Known(x)' \/ Owed(x)'
    BY DEF Filed
  <2> QED
    BY <1>5, <1>6 DEF Filed
<1>8. Settled'
  BY <1>3, <1>6, <1>7 DEF IndexInv, Settled
<1> QED
  BY <1>3, <1>5, <1>6, <1>8, Settles DEF IndexInv

\* Put comes inside: it is the one there, or one too many.
LEMMA PutLockKeeps == ASSUME CacheInv, IndexInv, NEW t \in Task, PutLock(t) PROVE IndexInv'
<1>0. tasks[t].key \in Key
  BY Doer DEF PutLock
<1> PICK k \in Key : k = tasks[t].key
  BY <1>0
<1>1. /\ tasks[t] \in CallType /\ tasks[t].op = "put" /\ tasks[t].step = "lock"
      /\ tasks \in [Task -> TaskType] /\ file \in [Key -> CopyType]
  BY Doer DEF PutLock
<1>2. CASE Skip(t) /\ UNCHANGED <<file, locked>>
  <2>1. /\ tasks'[t].step = "none" /\ \A s \in Task : s # t => tasks'[s] = tasks[s]
    BY <1>1, <1>2, GoesOn DEF Skip
  <2>2. tainted' \subseteq Key
    BY <1>2 DEF Skip, IndexInv
  <2>3. UNCHANGED <<lru, noted, total, file, locked, exited, resized, made, starts>>
    BY <1>2 DEF PutLock, index, counts
  <2>4. Orderly(lru') /\ ToSet(lru') = ToSet(lru)
    BY <2>3 DEF IndexInv, IndexTyped
  <2> QED
    BY <1>1, <2>1, <2>2, <2>3, <2>4, LookKeeps
<1>3. CASE /\ locked' = TRUE /\ file' = [file EXCEPT ![tasks[t].key] = Truncated]
           /\ Then(t, "fill") /\ UNCHANGED tainted
  <2>2. /\ tasks'[t].op = "put" /\ tasks'[t].step = "fill" /\ tasks'[t].key = k
        /\ \A s \in Task : s # t => tasks'[s] = tasks[s]
    BY <1>1, <1>3, GoesOn
  <2>3. /\ UNCHANGED <<lru, noted, total, exited, resized, counts, tainted>>
        /\ file' = [file EXCEPT ![k] = Truncated] /\ ~locked /\ locked'
    BY <1>3 DEF PutLock, index, notes, counts
  <2>4. IndexTyped' /\ InBudget'
    BY <1>1, <2>3, CacheConstants DEF IndexInv, IndexTyped, InBudget, Indexed
  <2>5. t \in Filling' /\ t \notin Filling /\ Filling \subseteq Filling'
    BY <1>1, <2>2 DEF Filling, Inside
  <2>6. /\ Unlocking => Unlocking'
        /\ \A x : Owed(x) => Owed(x)'
    BY <1>1, <2>2 DEF Unlocking, Owed, Inside
  <2>7. Intruded => Intruded'
    BY <2>5 DEF Intruded
  <2>8. \A x \in Key : file'[x].v # 0 => file'[x] = file[x] /\ (Known(x) => Known(x)')
    BY <1>1, <2>3 DEF Known, Indexed, Truncated
  <2>9. Filed => Filed'
    BY <2>3, <2>6, <2>8 DEF Filed
  <2>10. Settled'
    BY <2>3, <2>6, <2>7, <2>9 DEF IndexInv, Settled
  <2> QED
    BY <2>3, <2>4, <2>5, <2>10, Settles
<1> QED
  BY <1>2, <1>3 DEF PutLock

\* Put leaves: with its key in the index, or without the file.
LEMMA PutFillKeeps == ASSUME CacheInv, IndexInv, NEW t \in Task, PutFill(t) PROVE IndexInv'
<1>0. tasks[t].key \in Key
  BY Doer DEF PutFill
<1> PICK k \in Key : k = tasks[t].key
  BY <1>0
<1>a. PICK copy \in {NoCopy, Read(t)} :
        Become(IF copy = NoCopy THEN [Index EXCEPT !.file[k] = copy]
               ELSE Inserted([Index EXCEPT !.file[k] = copy], k, tasks[t].size))
  BY DEF PutFill
<1> DEFINE filled == [Index EXCEPT !.file[k] = copy]
<1>1. /\ tasks[t] \in CallType /\ tasks[t].op = "put" /\ tasks[t].step = "fill"
      /\ tasks \in [Task -> TaskType] /\ file \in [Key -> CopyType] /\ k \in Key
      /\ copy \in CopyType /\ tasks[t].size \in Nat
  BY Doer, ReadIs, CacheConstants DEF PutFill, CallType
<1>2. /\ tasks'[t].op = "none" /\ tasks'[t].step = "none"
      /\ \A s \in Task : s # t => tasks'[s] = tasks[s]
  BY <1>1, GoesOn DEF PutFill
<1>3. /\ Become(IF copy = NoCopy THEN filled ELSE Inserted(filled, k, tasks[t].size))
      /\ UNCHANGED <<counts, tainted>> /\ ~exited /\ ~locked' /\ (~locked => exited')
  BY <1>a DEF PutFill, Unlock, Doing
<1>4. /\ IsIndex(Index) /\ Index.lru = lru /\ Index.noted = noted /\ Index.total = total
      /\ Index.resized = resized /\ Index.file = file
  BY IndexIs DEF IndexInv, Index
<1>5. filled = [lru |-> lru, noted |-> noted, total |-> total,
                file |-> [file EXCEPT ![k] = copy], resized |-> resized]
  BY DEF Index
<1> HIDE DEF filled
<1>6. /\ IsIndex(filled) /\ filled.lru = lru /\ filled.noted = noted /\ filled.total = total
      /\ filled.resized = resized /\ filled.file = [file EXCEPT ![k] = copy]
      /\ \A x \in Key : x # k => filled.file[x] = file[x]
  BY <1>1, <1>4, <1>5 DEF IsIndex
<1>7. /\ IndexTyped' /\ InBudget' /\ (resized => resized')
      /\ ~resized' /\ file'[k].v # 0 => Known(k)'
      /\ \A x \in Key : x # k /\ file'[x].v # 0 =>
            file'[x] = file[x] /\ (Known(x) => Known(x)')
  <2>1. CASE copy = NoCopy
    <3>1. ~resized => Fits(filled)
      BY <1>6 DEF IndexInv, InBudget, Fits, Counted, Indexed
    <3>2. /\ IndexTyped' /\ lru' = filled.lru /\ noted' = filled.noted /\ file' = filled.file
          /\ resized' = filled.resized /\ Indexed' = ToSet(filled.lru)
          /\ (~filled.resized => Fits(filled)) => InBudget'
      BY <1>3, <1>6, <2>1, BecomeIs
    <3>3. file'[k].v = 0
      BY <1>1, <1>6, <2>1, <3>2 DEF NoCopy
    <3>4. \A x \in Key : x # k => file'[x] = file[x] /\ (Known(x) => Known(x)')
      BY <1>6, <3>2 DEF Known, Indexed
    <3> QED
      BY <1>6, <3>1, <3>2, <3>3, <3>4
  <2>2. CASE copy # NoCopy
    <3>1. Become(Inserted(filled, k, tasks[t].size))
      BY <1>3, <2>2
    <3> QED
      BY <1>1, <1>6, <3>1, InsertFiles
  <2> QED
    BY <2>1, <2>2
<1>8. /\ Filling' = Filling \ {t} /\ (Unlocking => Unlocking')
      /\ \A x : Owed(x) => Owed(x)'
  BY <1>1, <1>2 DEF Filling, Unlocking, Owed, Inside
<1>9. Intruded /\ locked => Intruded'
  BY <1>3, <1>8 DEF Intruded
<1>10. Filed => Filed'
  <2> SUFFICES ASSUME Filed, ~resized', NEW x \in Key, file'[x].v # 0
               PROVE  Known(x)' \/ Owed(x)'
    BY DEF Filed
  <2> QED
    BY <1>7, <1>8 DEF Filed
<1>11. Settled'
  BY <1>3, <1>8, <1>9, <1>10 DEF IndexInv, Settled
<1> QED
  BY <1>3, <1>7, <1>11, Settles

\* Delete drops the key and owes the file, which it then erases.
LEMMA DeleteForgetKeeps ==
    ASSUME CacheInv, IndexInv, NEW t \in Task, DeleteForget(t) PROVE IndexInv'
<1>0. tasks[t].key \in Key
  BY Doer DEF DeleteForget
<1> PICK k \in Key : k = tasks[t].key
  BY <1>0
<1> DEFINE e == Removed(Index, k)
<1>1. /\ tasks[t] \in CallType /\ tasks[t].op = "delete" /\ tasks[t].step = "start"
      /\ tasks \in [Task -> TaskType]
  BY Doer DEF DeleteForget
<1>2. /\ tasks'[t].op = "delete" /\ tasks'[t].step = "erase" /\ tasks'[t].key = k
      /\ \A s \in Task : s # t => tasks'[s] = tasks[s]
  BY <1>1, GoesOn DEF DeleteForget
<1>3. Become(e) /\ UNCHANGED <<locked, exited, counts, tainted>>
  BY DEF DeleteForget
<1>4. /\ IsIndex(Index) /\ (~resized => Fits(Index)) /\ Index.resized = resized
      /\ Index.lru = lru /\ Index.noted = noted /\ Index.file = file
  BY IndexIs DEF IndexInv, InBudget, Index
<1>5. /\ IsIndex(e) /\ e.noted = noted /\ e.file = file /\ e.resized = resized
      /\ ToSet(e.lru) = ToSet(lru) \ {k}
      /\ ~e.resized => Fits(e)
  <2>1. /\ IsIndex(e) /\ e.noted = Index.noted /\ e.file = Index.file
        /\ e.resized = Index.resized /\ ToSet(e.lru) = ToSet(Index.lru) \ {k}
        /\ Fits(Index) => Fits(e)
    BY <1>4, RemovedIs
  <2> HIDE DEF e
  <2> QED
    BY <1>4, <2>1
<1> HIDE DEF e
<1>6. /\ IndexTyped' /\ InBudget' /\ UNCHANGED <<noted, file, resized>>
      /\ Indexed' = ToSet(lru) \ {k}
  BY <1>3, <1>5, BecomeIs
<1>7. /\ Filling' = Filling /\ (Unlocking => Unlocking') /\ (Intruded => Intruded')
      /\ \A x : Owed(x) => Owed(x)'
  BY <1>1, <1>2, <1>3, StepKeeps DEF Inside
<1>8. Owed(k)'
  BY <1>2 DEF Owed, Inside
<1>9. \A x \in Key : x # k /\ Known(x) => Known(x)'
  BY <1>6 DEF Known, Indexed
<1>10. Filed => Filed'
  <2> SUFFICES ASSUME Filed, ~resized', NEW x \in Key, file'[x].v # 0
               PROVE  Known(x)' \/ Owed(x)'
    BY DEF Filed
  <2> QED
    BY <1>6, <1>7, <1>8, <1>9 DEF Filed
<1>11. Settled'
  BY <1>3, <1>7, <1>10 DEF IndexInv, Settled
<1> QED
  BY <1>3, <1>6, <1>7, <1>11, Settles DEF IndexInv

LEMMA DeleteEraseKeeps ==
    ASSUME CacheInv, IndexInv, NEW t \in Task, DeleteErase(t) PROVE IndexInv'
<1>0. tasks[t].key \in Key
  BY Doer DEF DeleteErase
<1> PICK k \in Key : k = tasks[t].key
  BY <1>0
<1>1. /\ tasks[t] \in CallType /\ tasks[t].op = "delete" /\ tasks[t].step = "erase"
      /\ tasks \in [Task -> TaskType] /\ file \in [Key -> CopyType]
  BY Doer DEF DeleteErase
<1>2. /\ tasks'[t].op = "delete" /\ tasks'[t].step = "destroy"
      /\ \A s \in Task : s # t => tasks'[s] = tasks[s]
  BY <1>1, GoesOn DEF DeleteErase
<1>3. /\ UNCHANGED <<lru, noted, total, locked, exited, resized, counts, tainted>>
      /\ file' = [file EXCEPT ![k] = NoCopy]
  BY DEF DeleteErase, index, notes
<1>4. IndexTyped' /\ InBudget'
  BY <1>1, <1>3, CacheConstants DEF IndexInv, IndexTyped, InBudget, Indexed
<1>5. /\ Filling' = Filling /\ (Unlocking => Unlocking') /\ (Intruded => Intruded')
      /\ \A x : x # k /\ Owed(x) => Owed(x)'
  BY <1>1, <1>2, <1>3, StepKeeps DEF Inside
<1>6. \A x \in Key : file'[x].v # 0 => x # k /\ file'[x] = file[x] /\ (Known(x) => Known(x)')
  BY <1>1, <1>3 DEF Known, Indexed, NoCopy
<1>7. Filed => Filed'
  BY <1>3, <1>5, <1>6 DEF Filed
<1>8. Settled'
  BY <1>3, <1>5, <1>7 DEF IndexInv, Settled
<1> QED
  BY <1>3, <1>4, <1>5, <1>8, Settles DEF IndexInv

\* A new process has every file that it finds in its index.
LEMMA RestartSettles == ASSUME CacheInv, IndexInv, Restart PROVE IndexInv'
<1> DEFINE e == Rebuilt
<1>1. IsIndex(Index)
  BY IndexIs DEF IndexInv
<1>2. /\ IsIndex(e) /\ e.resized = resized /\ Fits(e)
      /\ \A k \in Key : e.file[k].v # 0 => k \in ToSet(e.lru) /\ e.noted[k] = SizeOf(e.file[k].v)
  BY <1>1, RebuiltIs
<1>3. Become(e) /\ tasks' = [t \in Task |-> NoTask] /\ ~locked' /\ made' = made
  BY DEF Restart
<1> HIDE DEF e
<1>4. /\ IndexTyped' /\ noted' = e.noted /\ file' = e.file /\ Indexed' = ToSet(e.lru) /\ InBudget'
  BY <1>2, <1>3, BecomeIs
<1>5. Filed'
  BY <1>2, <1>4 DEF Filed, Known
<1>6. starts' \in Nat /\ starts' <= MaxStarts
  BY CacheAssumption DEF Restart, IndexInv
<1>7. tainted' \subseteq Key
  <2>1. ASSUME NEW t \in Task, Changes(t) PROVE tasks[t].key \in Key
    <3>1. tasks[t] \in CallType
      BY <2>1, CacheConstants DEF CacheInv, CacheTyped, TaskType, Changes
    <3> QED
      BY <3>1 DEF CallType
  <2> QED
    BY <2>1 DEF Restart, IndexInv
<1> QED
  BY <1>3, <1>4, <1>5, <1>6, <1>7 DEF IndexInv, Settled

LEMMA IndexInitHolds == CacheInit => IndexInv
<1> SUFFICES ASSUME CacheInit PROVE IndexInv
  OBVIOUS
<1>1. /\ file = [k \in Key |-> NoCopy] /\ lru = <<>> /\ noted = [k \in Key |-> 0] /\ total = 0
      /\ ~locked /\ resized = FALSE /\ made = 0 /\ starts = 0 /\ tainted = {}
  BY DEF CacheInit
<1>2. Orderly(lru) /\ Indexed = {}
  BY <1>1 DEF Orderly, Indexed, ToSet
<1>3. IndexTyped
  <2>1. file \in [Key -> CopyType] /\ noted \in [Key -> Nat] /\ total \in Int
    BY <1>1, CacheConstants
  <2> QED
    BY <1>1, <1>2, <2>1 DEF IndexTyped
<1>4. Weight(noted, Indexed) = 0
  BY <1>2, WeightZero, FS_EmptySet
<1>5. InBudget
  BY <1>1, <1>4, CacheAssumption DEF InBudget
<1>6. Filed
  BY <1>1 DEF Filed, NoCopy
<1> QED
  BY <1>1, <1>3, <1>5, <1>6, CacheAssumption DEF IndexInv, Settled

LEMMA IndexNextKeeps == CacheInv /\ IndexInv /\ [CacheNext]_cacheVars => IndexInv'
<1> SUFFICES ASSUME CacheInv, IndexInv, [CacheNext]_cacheVars PROVE IndexInv'
  OBVIOUS
<1>1. CASE UNCHANGED cacheVars
  BY <1>1 DEF cacheVars, index, counts, notes, IndexInv, IndexTyped, InBudget, Indexed, Settled,
     Unlocking, Intruded, Filling, Inside, Filed, Known, Owed
<1>2. ASSUME NEW t \in Task, OpenStep(t) PROVE IndexInv'
  BY <1>2, LooksKeep, OpenDropKeeps, OpenUnlockKeeps, OpenRenameKeeps, OpenInsertKeeps
  DEF OpenStep
<1>3. ASSUME NEW t \in Task, PutStep(t) PROVE IndexInv'
  BY <1>3, LooksKeep, PutLockKeeps, PutFillKeeps DEF PutStep
<1>4. ASSUME NEW t \in Task, DeleteStep(t) PROVE IndexInv'
  BY <1>4, LooksKeep, DeleteForgetKeeps, DeleteEraseKeeps DEF DeleteStep
<1>5. ASSUME NEW t \in Task, NEW k \in Key,
             \/ Call(t, "open", k, 0) \/ Call(t, "delete", k, 0)
             \/ \E v \in Version : Call(t, "put", k, v)
      PROVE  IndexInv'
  BY <1>5, CallBegins
<1> QED
  BY <1>1, <1>2, <1>3, <1>4, <1>5, StatKeeps, RestartSettles DEF CacheNext

\* When no call is under way the index knows every file, so that the files weigh
\* no more than the total.
LEMMA IdleFits == ASSUME IndexInv PROVE WithinBudget
<1> SUFFICES ASSUME Idle, ~resized
             PROVE  Weight([k \in Key |-> SizeOf(file[k].v)], Key) <= MaxSize
  BY DEF WithinBudget
<1> DEFINE sizes == [k \in Key |-> SizeOf(file[k].v)]
<1>1. /\ Filling = {} /\ ~Unlocking /\ \A k \in Key : ~Owed(k)
  BY DEF Idle, NoTask, Filling, Unlocking, Owed, Inside
<1>2. \A k \in Key : file[k].v # 0 => Known(k)
  BY <1>1 DEF IndexInv, Settled, Intruded, Filed, Idle
<1>3. /\ file \in [Key -> CopyType] /\ noted \in [Key -> Nat] /\ Indexed \subseteq Key
      /\ total = Weight(noted, Indexed) /\ total <= MaxSize
  BY CountIs DEF IndexInv, IndexTyped, InBudget, Indexed
<1>4. sizes \in [Key -> Nat]
  BY <1>3, CacheConstants DEF CopyType
<1>5. \A k \in Key : file[k].v = 0 => sizes[k] = 0
  BY DEF SizeOf
<1>6. \A k \in Indexed : sizes[k] <= noted[k]
  BY <1>2, <1>3, <1>5 DEF Known
<1>7. \A k \in Key \ Indexed : sizes[k] = 0
  BY <1>2, <1>5 DEF Known
<1> HIDE DEF sizes
<1>8. Weight(sizes, Key) = Weight(sizes, Key \ Indexed) + Weight(sizes, Indexed)
  BY <1>3, <1>4, KeysWeigh
<1>9. IsFiniteSet(Indexed) /\ IsFiniteSet(Key \ Indexed)
  BY <1>3, CacheAssumption, FS_Subset
<1>10. Weight(sizes, Key \ Indexed) = 0
  BY <1>7, <1>9, WeightZero
<1>11. Weight(sizes, Indexed) <= Weight(noted, Indexed)
  <2>1. \A k \in Indexed : sizes[k] \in Nat /\ noted[k] \in Nat /\ sizes[k] <= noted[k]
    BY <1>3, <1>4, <1>6
  <2> QED
    BY <1>9, <2>1, WeightLess
<1>12. Weight(sizes, Indexed) \in Nat /\ Weight(noted, Indexed) \in Nat
  BY <1>3, <1>4, KeysWeigh
<1>13. Weight(sizes, Key) <= MaxSize
  BY <1>3, <1>8, <1>10, <1>11, <1>12, CacheAssumption
<1> QED
  BY <1>13 DEF sizes

LEMMA CacheTypes == ASSUME CacheInv, IndexInv PROVE CacheTypeOK
<1>1. Indexed \subseteq Key /\ Len(lru) = Cardinality(Indexed)
  BY CountIs DEF IndexInv, IndexTyped, Indexed
<1> QED
  BY <1>1 DEF CacheInv, CacheTyped, IndexInv, IndexTyped, CacheTypeOK, CopyType

-----------------------------------------------------------------------------
(* The theorems.                                                            *)

\* A step of the server is one of each part, or none of it.
LEMMA PartSteps == [Next]_vars => [UploadsNext]_uploadsVars /\ [CacheNext]_cacheVars
  BY DEF Next, InUploads, InCache, vars

LEMMA ServerInit == Init => UploadsInv /\ CacheInv /\ IndexInv
  BY InitInv, CacheInitHolds, IndexInitHolds DEF Init, UploadsInv

\* The tables, the files, the requests and the client are what they can be.
THEOREM SpecUploadsTypeOK == Spec => []UploadsTypeOK
<1>1. UploadsInv => UploadsTypeOK
  BY DEF UploadsInv, Typed, UploadsTypeOK, ReqType, ReqStep, ClientType
<1>2. UploadsInv /\ [Next]_vars => UploadsInv'
  BY UploadsNextKeeps, PartSteps
<1> QED BY <1>1, <1>2, ServerInit, PTL DEF Spec

\* A file whose last PATCH is answered well is stored whole and its probe is
\* queued, or the entry has been deleted; however requests that outlived their
\* client, retries, restarts, failing statements and the sweep meet: unless a
\* HEAD found it whole, or its spool was removed or made anew (DoneIsStored).
THEOREM SpecDoneIsStored == Spec => []DoneIsStored
<1>1. UploadsInv => DoneIsStored
  BY DEF UploadsInv, StoredInv, DoneGood, DoneIsStored
<1>2. UploadsInv /\ [Next]_vars => UploadsInv'
  BY UploadsNextKeeps, PartSteps
<1> QED BY <1>1, <1>2, ServerInit, PTL DEF Spec

\* Only a key of which a put or a deletion met another call, or a restart, or of which
\* an error cut a put short, may be served stale, for any number of objects, goroutines, calls and restarts, of any
\* sizes and with any budget (StaleNeedsOverlap).
THEOREM SpecStaleNeedsOverlap == Spec => []StaleNeedsOverlap
<1>1. CacheInv => StaleNeedsOverlap
  <2> SUFFICES ASSUME CacheInv, Idle, NEW k \in Key \ tainted
               PROVE  Served(k)
    BY DEF StaleNeedsOverlap, Served, Fresh
  <2>1. \A t \in Task : ~Changes(t)
    BY CacheConstants DEF Idle, Changes
  <2> QED
    BY <2>1 DEF CacheInv, Clean
<1>2. CacheInv /\ [Next]_vars => CacheInv'
  BY CacheNextKeeps, PartSteps
<1> QED BY <1>1, <1>2, ServerInit, PTL DEF Spec

\* So are the backend, the files, the index, which has each key once, and the counts
\* of the cache.
THEOREM SpecServerTypeOK == Spec => []ServerTypeOK
<1>1. UploadsInv /\ CacheInv /\ IndexInv => ServerTypeOK
  <2>1. UploadsInv => UploadsTypeOK
    BY DEF UploadsInv, Typed, UploadsTypeOK, ReqType, ReqStep, ClientType
  <2> QED
    BY <2>1, CacheTypes DEF ServerTypeOK
<1>2. UploadsInv /\ CacheInv /\ IndexInv /\ [Next]_vars => (UploadsInv /\ CacheInv /\ IndexInv)'
  BY UploadsNextKeeps, CacheNextKeeps, IndexNextKeeps, PartSteps
<1> QED BY <1>1, <1>2, ServerInit, PTL DEF Spec

\* When no call is under way the files of the cache fit its budget, for any number
\* of objects, goroutines, calls and restarts, of any sizes and with any budget, as
\* long as no object was replaced by one of another size (WithinBudget).
THEOREM SpecWithinBudget == Spec => []WithinBudget
<1>1. IndexInv => WithinBudget
  BY IdleFits
<1>2. CacheInv /\ IndexInv /\ [Next]_vars => (CacheInv /\ IndexInv)'
  BY CacheNextKeeps, IndexNextKeeps, PartSteps
<1> QED BY <1>1, <1>2, ServerInit, PTL DEF Spec
=============================================================================
