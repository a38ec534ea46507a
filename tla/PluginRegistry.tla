---------------------------- MODULE PluginRegistry ----------------------------
(***************************************************************************)
(* The plugin registry (src/plugins/registry.ts), as the two sweeps of one *)
(* session see it: startAll() and endAll(), which walk the live Map and    *)
(* await the hook of each plugin, while the program registers and          *)
(* unregisters plugins.                                                    *)
(*                                                                         *)
(* The Map is its list of entries in insertion order.  A removed entry     *)
(* leaves a hole, so that an iterator keeps its place; a key that comes    *)
(* back comes at the end.  A plugin is its key: one registered under the   *)
(* key of another takes its place.                                         *)
(***************************************************************************)
EXTENDS Integers, Sequences

CONSTANTS
    PluginKeys,     \* `${kind}:${id}`
    Gone,           \* the hole a removed entry leaves
    Registries,     \* the registry when the session begins
    MaxEntries      \* bound: entries, holes included

ASSUME PluginAssumption ==
    /\ Gone \notin PluginKeys
    /\ \A r \in Registries :
         /\ r \in Seq(PluginKeys)
         /\ \A i, j \in DOMAIN r : r[i] = r[j] => i = j

VARIABLES
    entries,    \* PluginRegistry.plugins
    starts,     \* the startAll() of the session
    ends        \* ... and its endAll()

pluginVars == <<entries, starts, ends>>

Registered == {entries[i] : i \in DOMAIN entries} \ {Gone}

\* A sweep: the entry it is at, and the history of the hooks it has called and
\* of the keys that have been in the registry since it began.
Sweep == [state  : {"idle", "waiting", "done", "rejected"},
          at     : Nat,
          called : [PluginKeys -> Nat],
          stayed : SUBSET PluginKeys]

NotBegun == [state |-> "idle", at |-> 0, called |-> [k \in PluginKeys |-> 0],
             stayed |-> {}]

\* Mutant: the place is a count of the plugins, not of the entries.
VisitByCount(sweep) ==
    LET live == SelectSeq(entries, LAMBDA k : k # Gone)
        next == sweep.at + 1
    IN  IF next > Len(live) THEN [sweep EXCEPT !.state = "done"]
        ELSE [sweep EXCEPT !.state = "waiting", !.at = next, !.called[live[next]] = @ + 1]

\* The loop goes on: it calls the hook of the next entry and awaits it.
Visit(sweep) ==
    LET live == {i \in DOMAIN entries : i > sweep.at /\ entries[i] # Gone}
        next == CHOOSE i \in live : \A j \in live : i <= j
    IN  IF live = {} THEN [sweep EXCEPT !.state = "done"]
        ELSE [sweep EXCEPT !.state = "waiting", !.at = next,
                           !.called[entries[next]] = @ + 1]

\* startAll() and endAll(), up to their first await.
Begun == Visit([NotBegun EXCEPT !.stayed = Registered])

\* A hook of startAll() throws, or its promise rejects: the plugins behind it
\* are not called.
Rejected(sweep) == [sweep EXCEPT !.state = "rejected"]

Register(k) ==
    /\ k \in Registered \/ Len(entries) < MaxEntries
    /\ entries' = IF k \in Registered THEN entries ELSE Append(entries, k)
    /\ UNCHANGED <<starts, ends>>

\* Mutant: the entries behind the one that goes move up, as in a list.
UnregisterMovesUp(k) ==
    LET without(sweep) == [sweep EXCEPT !.stayed = @ \ {k}]
    IN  /\ entries' = SelectSeq(entries, LAMBDA e : e # k)
        /\ starts' = without(starts) /\ ends' = without(ends)

Unregister(k) ==
    LET without(sweep) == [sweep EXCEPT !.stayed = @ \ {k}]
    IN  /\ entries' = [i \in DOMAIN entries |-> IF entries[i] = k THEN Gone ELSE entries[i]]
        /\ starts' = without(starts) /\ ends' = without(ends)

\* The hook that endAll() of the closed session waits for settles.  One that
\* rejects ends the process, for nobody handles the promise of endAll(): such
\* a behaviour has no further step.
EndHookSettles ==
    /\ ends.state = "waiting"
    /\ ends' = Visit(ends)
    /\ UNCHANGED <<entries, starts>>

-----------------------------------------------------------------------------
(* Properties *)

PluginTypeOK ==
    /\ entries \in Seq(PluginKeys \cup {Gone})
    /\ starts \in Sweep /\ ends \in Sweep

\* However the registry changes under it, a sweep calls a plugin that stays in
\* it once, and when it ends well it has called every one of them
\* (registry.ts 46-56).
SweepsComplete ==
    \A sweep \in {starts, ends} : \A k \in sweep.stayed :
        /\ sweep.called[k] <= 1
        /\ sweep.state = "done" => sweep.called[k] = 1

\* Nothing ties the end of a session to its start: endAll() runs whether
\* startAll() went through, was rejected or still waits.  What the live Map
\* makes of that: of the plugins that stay, those between the places of the two
\* sweeps have been ended and not started, and no others, whatever comes and
\* goes meanwhile (registry.ts 46-56, gateway.ts 127-131, 164-168).
EndsWithoutStart ==
    \A i \in DOMAIN entries : entries[i] \in starts.stayed \cap ends.stayed =>
        (ends.called[entries[i]] > starts.called[entries[i]]
           <=> starts.at < i /\ i <= ends.at)

=============================================================================
