---------------------------- MODULE SettingsPage ---------------------------
(***************************************************************************)
(* The page of the settings (web/app/admin/settings/page.tsx). It loads    *)
(* all settings once, edits them in place and saves them by group; a       *)
(* switch is saved at once. Every save loads all settings again.           *)
(*                                                                         *)
(* A group holds a field and a switch; a second group holds another field. *)
(***************************************************************************)
EXTENDS Naturals, FiniteSets

CONSTANTS
    Value,      \* what a field may hold
    MaxFlows    \* bound: saves of one visit
ASSUME SettingsAssumption == 0 \notin Value     \* 0 marks what is not loaded

VARIABLES
    stored,     \* the server's settings
    data,       \* the settings as loaded and edited here
    flows,      \* saves in flight
    saving,     \* a group is being saved
    tab,
    begunFlows,
    saveFails,
    switched    \* history: what the last switch that took effect was set to
settingsVars == <<stored, data, flows, saving, tab, begunFlows, saveFails, switched>>

Settings == [field : Value, on : BOOLEAN, other : Value]
NotLoaded == [field |-> 0, on |-> FALSE, other |-> 0]
Group == {"first", "second"}

Flow(kind, keys, body) ==
    [kind |-> kind, keys |-> keys, body |-> body, phase |-> "patch", fresh |-> NotLoaded,
     nr |-> begunFlows]
Start(f) ==
    /\ begunFlows < MaxFlows /\ begunFlows' = begunFlows + 1
    /\ flows' = flows \cup {f}
Step(f, g) == flows' = (flows \ {f}) \cup {g}

\* The fields of the group in sight.
EditField(v) ==
    /\ data # NotLoaded
    /\ data' = IF tab = "first" THEN [data EXCEPT !.field = v] ELSE [data EXCEPT !.other = v]
    /\ UNCHANGED <<stored, flows, saving, tab, begunFlows, saveFails, switched>>
OpenGroup ==
    /\ data # NotLoaded
    /\ tab' \in Group \ {tab}
    /\ UNCHANGED <<stored, data, flows, saving, begunFlows, saveFails, switched>>

\* The keys of a group that its save sends: booleans go by their switch alone.
AllKeys == IF tab = "first" THEN {"field", "on"} ELSE {"other"}
SentKeys == IF tab = "first" THEN {"field"} ELSE {"other"}
SaveGroup ==
    /\ data # NotLoaded /\ ~saving
    /\ saving' = TRUE
    /\ Start(Flow("group", SentKeys, data))
    /\ UNCHANGED <<stored, data, tab, saveFails, switched>>

SetBool ==
    /\ data # NotLoaded /\ tab = "first"
    /\ Start(Flow("switch", {"on"}, [data EXCEPT !.on = ~@]))
    /\ UNCHANGED <<stored, data, saving, tab, saveFails, switched>>

\* The server: PATCH, then the GET that the page sends when it is answered.
Patch(f) ==
    /\ f.phase = "patch"
    /\ stored' = [k \in DOMAIN stored |-> IF k \in f.keys THEN f.body[k] ELSE stored[k]]
    /\ switched' = IF f.kind = "switch" THEN f.body.on ELSE switched
    /\ Step(f, [f EXCEPT !.phase = "get"])
    /\ UNCHANGED <<data, saving, tab, begunFlows, saveFails>>
Get(f) ==
    /\ f.phase = "get" /\ f.fresh = NotLoaded
    /\ Step(f, [f EXCEPT !.fresh = stored])
    /\ UNCHANGED <<stored, data, saving, tab, begunFlows, saveFails, switched>>

\* The answers of two saves may come in any order, and edits made meanwhile go.
SetData(f) ==
    /\ f.fresh # NotLoaded
    /\ data' = f.fresh
    /\ saving' = (saving /\ f.kind # "group")
    /\ flows' = flows \ {f}
    /\ UNCHANGED <<stored, tab, begunFlows, saveFails, switched>>
FlowFails(f) ==
    /\ saveFails
    /\ saving' = (saving /\ f.kind # "group")
    /\ flows' = flows \ {f}
    /\ UNCHANGED <<stored, data, tab, begunFlows, saveFails, switched>>

\* The effect that loads the settings, as a flow that starts with its GET.
SettingsInit ==
    /\ stored \in {[field |-> v, on |-> TRUE, other |-> v] : v \in Value}
    /\ data = NotLoaded /\ saving = FALSE /\ tab = "first"
    /\ flows = {[kind |-> "load", keys |-> {}, body |-> NotLoaded, phase |-> "get",
                 fresh |-> NotLoaded, nr |-> 0]}
    /\ begunFlows = 0 /\ saveFails \in BOOLEAN
    /\ switched = stored.on

SettingsNext ==
    \/ \E v \in Value : EditField(v)
    \/ OpenGroup \/ SaveGroup \/ SetBool
    \/ \E f \in flows : Patch(f) \/ Get(f) \/ SetData(f) \/ FlowFails(f)
SettingsSpec == SettingsInit /\ [][SettingsNext]_settingsVars

-----------------------------------------------------------------------------

\* No save of a group undoes a switch, though it sends a copy of the settings
\* that may be older than the switch (settings/page.tsx, saveGroup).
SwitchNotUndone == stored.on = switched
=============================================================================
