-------------------------- MODULE SessionStartProofs --------------------------
(***************************************************************************)
(* Proofs about SessionStart, for every set of plugins and registry, every *)
(* provider, every frame size and everything a provider may send: types,   *)
(* the sweeps of the plugin registry, the load of the connection and the   *)
(* story the client is told.                                               *)
(*                                                                         *)
(* What makes a sweep provable is Placed: a plugin that stays keeps its    *)
(* entry, holes and all, and its hook has been called exactly if that      *)
(* entry is behind the sweep.                                              *)
(***************************************************************************)
EXTENDS SessionStart, FiniteSetTheorems, WellFoundedInduction, TLAPS

\* No plugin is registered twice.
Distinct(list) ==
    \A i, j \in DOMAIN list : list[i] = list[j] /\ list[i] # Gone => i = j

Placed(list, sweep) ==
    \A k \in sweep.stayed : \E i \in DOMAIN list :
        /\ list[i] = k
        /\ sweep.called[k] = IF i <= sweep.at THEN 1 ELSE 0
        /\ sweep.state = "done" => i <= sweep.at

SweepInv(list, sweep) == sweep \in Sweep /\ Placed(list, sweep)

RegistryInv ==
    /\ entries \in Seq(PluginKeys \cup {Gone})
    /\ Distinct(entries)
    /\ SweepInv(entries, starts) /\ SweepInv(entries, ends)

\* What a connection holds: nothing before it is open, and then the bytes that
\* were counted and whose callbacks are to come.
LinkShape(l) ==
    /\ l \in Link
    /\ l.at \in {"none", "dialing", "opened"} =>
         l.flight = 0 /\ l.plain = 0 /\ l.pending = 0
    /\ l.at = "open" => l.pending = FrameBytes * l.flight

\* Where it is while start() is.
LinkInv ==
    /\ kind \in Providers
    /\ LinkShape(link)
    /\ pc \in {"plugins", "failed"} => link.at = "none"
    /\ pc = "connecting" => link.at \in {"dialing", "opened"}
    /\ pc = "ready" => link.at \notin {"none", "dialing", "opened"}

\* gateway.ready has been told.
Greeted(list) == \E j \in DOMAIN list : list[j] = "ready"

AllEvents == Events \cup Farewells

\* What the client can have been told, and what its socket can be.
ClientInv ==
    /\ closed \in BOOLEAN /\ leftEarly \in BOOLEAN /\ missed \in BOOLEAN
    /\ pc \in {"plugins", "connecting", "ready", "failed"}
    /\ sock \in {"open", "closing", "closed"}
    /\ told \in Seq(AllEvents) /\ Story(told, closed)
    /\ closed => sock # "open"
    /\ pc = "plugins" => told = <<>>
    /\ pc # "ready" => Pongs(told)
    /\ pc = "ready" /\ sock = "open" => Greeted(told)
    /\ sock = "closed" /\ ~closed => leftEarly /\ told = <<>>
    /\ closed <=> ends.state # "idle"

SInv == RegistryInv /\ LinkInv /\ ClientInv

Assumptions == PluginAssumption /\ LinkAssumption /\ StartAssumption

-----------------------------------------------------------------------------
(* The sweeps *)

\* A set of natural numbers has a least one.
LEMMA Least ==
  ASSUME NEW S \in SUBSET Nat, S # {}
  PROVE  \E i \in S : \A j \in S : i <= j
<1> DEFINE T == {0..i : i \in S}
           R == StrictSubsetOrdering(Nat)
<1>1. T \subseteq FiniteSubsetsOf(Nat) /\ T # {}
  <2>1. ASSUME NEW i \in S PROVE 0..i \in FiniteSubsetsOf(Nat)
    BY FS_Interval DEF FiniteSubsetsOf
  <2> QED
    BY <2>1
<1>2. IsWellFoundedOn(R, FiniteSubsetsOf(Nat))
  BY FS_StrictSubsetOrderingWellFounded
<1>3. PICK x \in T : \A y \in T : ~ (<<y, x>> \in R)
  <2> HIDE DEF T, R
  <2> QED
    BY <1>1, <1>2, WFMin
<1>4. PICK i \in S : x = 0..i
  OBVIOUS
<1>5. ASSUME NEW j \in S, j < i PROVE FALSE
  <2>1. 0..j \subseteq 0..i /\ i \in 0..i /\ i \notin 0..j
    BY <1>5
  <2>2. 0..j \in SUBSET Nat /\ 0..i \in SUBSET Nat
    OBVIOUS
  <2>3. <<0..j, 0..i>> \in R
    BY <2>1, <2>2, Zenon DEF StrictSubsetOrdering
  <2> QED
    BY <1>3, <1>4, <2>3
<1> QED
  BY <1>5

\* Going on to the next entry keeps every plugin's place.
LEMMA VisitKeeps ==
  ASSUME Assumptions, entries \in Seq(PluginKeys \cup {Gone}), Distinct(entries),
         NEW sweep, SweepInv(entries, sweep)
  PROVE  SweepInv(entries, Visit(sweep)) /\ Visit(sweep).state \in {"waiting", "done"}
         /\ Visit(sweep).stayed = sweep.stayed
<1> DEFINE live == {i \in DOMAIN entries : i > sweep.at /\ entries[i] # Gone}
           next == CHOOSE i \in live : \A j \in live : i <= j
<1>1. sweep \in Sweep /\ Placed(entries, sweep)
  BY DEF SweepInv
<1>2. live \in SUBSET Nat
  OBVIOUS
<1>3. CASE live = {}
  <2>1. Visit(sweep) = [sweep EXCEPT !.state = "done"]
    BY <1>3 DEF Visit
  <2>2. Visit(sweep) \in Sweep
    BY <1>1, <2>1 DEF Sweep
  <2>3. /\ Visit(sweep).at = sweep.at /\ Visit(sweep).called = sweep.called
        /\ Visit(sweep).stayed = sweep.stayed /\ Visit(sweep).state = "done"
    BY <1>1, <2>1 DEF Sweep
  <2>4. ASSUME NEW k \in sweep.stayed
        PROVE  \E i \in DOMAIN entries :
                 /\ entries[i] = k
                 /\ sweep.called[k] = IF i <= sweep.at THEN 1 ELSE 0
                 /\ i <= sweep.at
    <3>1. PICK i \in DOMAIN entries :
            entries[i] = k /\ sweep.called[k] = IF i <= sweep.at THEN 1 ELSE 0
      BY <1>1 DEF Placed
    <3>2. k # Gone /\ sweep.at \in Nat /\ i \in Nat
      BY <1>1 DEF Sweep, Assumptions, PluginAssumption
    <3>3. i <= sweep.at
      BY <1>3, <3>1, <3>2
    <3> QED
      BY <3>1, <3>3
  <2> QED
    BY <2>2, <2>3, <2>4 DEF SweepInv, Placed
<1>4. CASE live # {}
  <2>1. next \in live /\ \A j \in live : next <= j
    <3> HIDE DEF live
    <3> QED
      BY <1>2, <1>4, Least
  <2> HIDE DEF next
  <2>2. next \in DOMAIN entries /\ next \in Nat /\ next > sweep.at /\ entries[next] \in PluginKeys
    BY <2>1
  <2>3. Visit(sweep) = [sweep EXCEPT !.state = "waiting", !.at = next,
                                     !.called[entries[next]] = @ + 1]
    BY <1>4 DEF Visit, next
  <2>4. Visit(sweep) \in Sweep
    <3>1. sweep.called \in [PluginKeys -> Nat]
      BY <1>1 DEF Sweep
    <3>2. [sweep.called EXCEPT ![entries[next]] = @ + 1] \in [PluginKeys -> Nat]
      BY <2>2, <3>1
    <3>3. Visit(sweep) = [state |-> "waiting", at |-> next,
                          called |-> [sweep.called EXCEPT ![entries[next]] = @ + 1],
                          stayed |-> sweep.stayed]
      BY <1>1, <2>3 DEF Sweep
    <3> QED
      BY <1>1, <2>2, <3>2, <3>3 DEF Sweep
  <2>5. /\ Visit(sweep).at = next /\ Visit(sweep).state = "waiting"
        /\ Visit(sweep).stayed = sweep.stayed
        /\ Visit(sweep).called = [sweep.called EXCEPT ![entries[next]] = @ + 1]
    BY <1>1, <2>3 DEF Sweep
  <2>6. ASSUME NEW k \in sweep.stayed
        PROVE  \E i \in DOMAIN entries :
                 /\ entries[i] = k
                 /\ Visit(sweep).called[k] = IF i <= next THEN 1 ELSE 0
    <3>1. PICK i \in DOMAIN entries :
            entries[i] = k /\ sweep.called[k] = IF i <= sweep.at THEN 1 ELSE 0
      BY <1>1 DEF Placed
    <3>2. k \in PluginKeys /\ k # Gone /\ sweep.at \in Nat /\ i \in Nat
          /\ sweep.called \in [PluginKeys -> Nat]
      BY <1>1 DEF Sweep, Assumptions, PluginAssumption
    <3>3. i > sweep.at => next <= i
      BY <2>1, <3>1, <3>2
    <3>4. (entries[next] = k) <=> (i = next)
      BY <2>2, <3>1, <3>2 DEF Distinct
    <3>5. Visit(sweep).called[k] = IF k = entries[next] THEN sweep.called[k] + 1
                                   ELSE sweep.called[k]
      BY <2>2, <2>5, <3>2
    <3>6. Visit(sweep).called[k] = IF i <= next THEN 1 ELSE 0
      BY <2>2, <3>1, <3>2, <3>3, <3>4, <3>5
    <3> QED
      BY <3>1, <3>6
  <2> QED
    BY <2>4, <2>5, <2>6 DEF SweepInv, Placed
<1> QED
  BY <1>3, <1>4

\* So does the first step of a sweep.
LEMMA BegunKeeps ==
  ASSUME Assumptions, entries \in Seq(PluginKeys \cup {Gone}), Distinct(entries)
  PROVE  SweepInv(entries, Begun) /\ Begun.state \in {"waiting", "done"}
<1> DEFINE first == [NotBegun EXCEPT !.stayed = Registered]
<1>1. Registered \in SUBSET PluginKeys
  BY DEF Registered
<1>2. first \in Sweep /\ first.at = 0 /\ first.stayed = Registered /\ first.state = "idle"
      /\ \A k \in PluginKeys : first.called[k] = 0
  BY <1>1 DEF NotBegun, Sweep
<1>3. Placed(entries, first)
  <2>1. ASSUME NEW k \in Registered
        PROVE  \E i \in DOMAIN entries :
                 entries[i] = k /\ first.called[k] = IF i <= 0 THEN 1 ELSE 0
    <3>1. PICK i \in DOMAIN entries : entries[i] = k
      BY DEF Registered
    <3>2. ~ (i <= 0)
      OBVIOUS
    <3>3. first.called[k] = 0
      BY <1>1, <1>2
    <3> QED
      BY <3>1, <3>2, <3>3
  <2> HIDE DEF first
  <2> QED
    BY <1>2, <2>1 DEF Placed
<1>4. SweepInv(entries, first)
  BY <1>2, <1>3 DEF SweepInv
<1> HIDE DEF first
<1>5. Begun = Visit(first)
  BY DEF Begun, first
<1> QED
  BY <1>4, <1>5, VisitKeeps

LEMMA IdleSweep == Assumptions => SweepInv(entries, NotBegun) /\ NotBegun.state = "idle"
  BY DEF SweepInv, NotBegun, Sweep, Placed

LEMMA RejectedKeeps ==
  ASSUME NEW sweep, SweepInv(entries, sweep)
  PROVE  SweepInv(entries, Rejected(sweep))
  BY DEF SweepInv, Rejected, Sweep, Placed

-----------------------------------------------------------------------------
(* The registry changes under the sweeps *)

LEMMA RegistryStep ==
  ASSUME Assumptions, RegistryInv, entries' = entries,
         starts' \in {starts, Visit(starts), Rejected(starts)},
         ends' \in {ends, Begun, Visit(ends)}
  PROVE  RegistryInv'
<1>1. SweepInv(entries, Visit(starts)) /\ SweepInv(entries, Visit(ends)) /\ SweepInv(entries, Rejected(starts))
      /\ SweepInv(entries, Begun)
  BY VisitKeeps, BegunKeeps, RejectedKeeps DEF RegistryInv
<1> QED
  BY <1>1 DEF RegistryInv

\* A new key comes behind every sweep and stays out of its account.
LEMMA RegisterKeeps ==
  ASSUME Assumptions, RegistryInv, NEW k \in PluginKeys, Register(k)
  PROVE  RegistryInv'
<1>1. CASE k \in Registered
  BY <1>1 DEF Register, RegistryInv
<1>2. CASE k \notin Registered
  <2>1. entries' = Append(entries, k) /\ starts' = starts /\ ends' = ends
    BY <1>2 DEF Register
  <2>2. entries \in Seq(PluginKeys \cup {Gone}) /\ Distinct(entries)
    BY DEF RegistryInv
  <2>3. /\ entries' \in Seq(PluginKeys \cup {Gone})
        /\ DOMAIN entries' = 1..(Len(entries) + 1)
        /\ entries'[Len(entries) + 1] = k
        /\ \A i \in DOMAIN entries : i \in DOMAIN entries' /\ entries'[i] = entries[i]
        /\ DOMAIN entries = 1..Len(entries) /\ Len(entries) \in Nat
    BY <2>1, <2>2
  <2>4. \A i \in DOMAIN entries : entries[i] # k
    BY <1>2 DEF Registered, Assumptions, PluginAssumption
  <2>5. Distinct(entries')
    <3>1. SUFFICES ASSUME NEW i \in DOMAIN entries', NEW j \in DOMAIN entries',
                          entries'[i] = entries'[j], entries'[i] # Gone
                   PROVE  i = j
      BY DEF Distinct
    <3>2. (i \in DOMAIN entries \/ i = Len(entries) + 1)
          /\ (j \in DOMAIN entries \/ j = Len(entries) + 1)
      BY <2>3
    <3> QED
      BY <2>2, <2>3, <2>4, <3>1, <3>2 DEF Distinct
  <2>6. ASSUME NEW sweep, SweepInv(entries, sweep) PROVE SweepInv(entries', sweep)
    BY <2>3, <2>6 DEF SweepInv, Placed
  <2> QED
    BY <2>1, <2>3, <2>5, <2>6 DEF RegistryInv
<1> QED
  BY <1>1, <1>2

\* A key that goes leaves a hole, and the places of the others.
LEMMA UnregisterKeeps ==
  ASSUME Assumptions, RegistryInv, NEW k \in PluginKeys, Unregister(k)
  PROVE  RegistryInv'
<1> DEFINE without(sweep) == [sweep EXCEPT !.stayed = @ \ {k}]
<1>1. /\ entries' = [i \in DOMAIN entries |-> IF entries[i] = k THEN Gone ELSE entries[i]]
      /\ starts' = without(starts) /\ ends' = without(ends)
  BY DEF Unregister
<1>2. entries \in Seq(PluginKeys \cup {Gone}) /\ Distinct(entries)
  BY DEF RegistryInv
<1>3. /\ DOMAIN entries' = DOMAIN entries
      /\ \A i \in DOMAIN entries : entries'[i] = IF entries[i] = k THEN Gone ELSE entries[i]
  BY <1>1
<1>4. entries' \in Seq(PluginKeys \cup {Gone})
  <2>1. DOMAIN entries = 1..Len(entries) /\ Len(entries) \in Nat
    BY <1>2
  <2>2. entries' \in [1..Len(entries) -> PluginKeys \cup {Gone}]
    BY <1>1, <1>2, <2>1
  <2> QED
    BY <2>1, <2>2
<1>5. Distinct(entries')
  BY <1>2, <1>3 DEF Distinct
<1>6. ASSUME NEW sweep, SweepInv(entries, sweep) PROVE SweepInv(entries', without(sweep))
  <2>1. /\ without(sweep) \in Sweep /\ without(sweep).stayed = sweep.stayed \ {k}
        /\ without(sweep).at = sweep.at /\ without(sweep).called = sweep.called
        /\ without(sweep).state = sweep.state
    BY <1>6 DEF SweepInv, Sweep
  <2> HIDE DEF without
  <2>2. Placed(entries', without(sweep))
    BY <1>3, <1>6, <2>1 DEF SweepInv, Placed
  <2> QED
    BY <2>1, <2>2 DEF SweepInv
<1> QED
  BY <1>1, <1>4, <1>5, <1>6 DEF RegistryInv

-----------------------------------------------------------------------------
(* The story *)

\* What a client is told at once, of a provider's frame, an echo or a ping.
Chapters == {<<"text">>, <<"binary">>, <<"rate_limited">>, <<"binary", "delta">>,
             <<"text", "binary", "delta">>}

LEMMA SilenceIsStory ==
  /\ <<>> \in Seq(AllEvents) /\ Pongs(<<>>)
  BY DEF Pongs

LEMMA PongsAreStory ==
  ASSUME NEW list \in Seq(AllEvents), Pongs(list), NEW over
  PROVE  Story(list, over)
  BY DEF Pongs, Story, Farewells

\* One more event at the end of a list.
LEMMA Appended ==
  ASSUME NEW list \in Seq(AllEvents), NEW e \in AllEvents
  PROVE  /\ list \o <<e>> \in Seq(AllEvents) /\ Len(list) \in Nat
         /\ DOMAIN list = 1..Len(list) /\ Len(list \o <<e>>) = Len(list) + 1
         /\ DOMAIN (list \o <<e>>) = 1..(Len(list) + 1)
         /\ (list \o <<e>>)[Len(list) + 1] = e
         /\ \A i \in DOMAIN list : (list \o <<e>>)[i] = list[i]
  OBVIOUS

\* What was told before stays in order.
LEMMA StoryBefore ==
  ASSUME NEW list \in Seq(AllEvents), Story(list, FALSE),
         NEW longer, \A k \in DOMAIN list : longer[k] = list[k],
         NEW i \in DOMAIN list
  PROVE  /\ longer[i] # "pong" => \E j \in 1..i : longer[j] = "ready"
         /\ longer[i] = "delta" => longer[i - 1] = "binary"
         /\ longer[i] \notin Farewells
<1>1. longer[i] = list[i] /\ i \in Nat /\ DOMAIN list = 1..Len(list) /\ Len(list) \in Nat
  OBVIOUS
<1>2. ASSUME longer[i] # "pong" PROVE \E j \in 1..i : longer[j] = "ready"
  <2>1. PICK j \in 1..i : list[j] = "ready"
    BY <1>1, <1>2 DEF Story
  <2> QED
    BY <1>1, <2>1
<1>3. ASSUME longer[i] = "delta" PROVE longer[i - 1] = "binary"
  <2>1. i # 1 /\ list[i - 1] = "binary"
    BY <1>1, <1>3 DEF Story
  <2>2. i - 1 \in DOMAIN list
    BY <1>1, <2>1
  <2> QED
    BY <2>1, <2>2
<1>4. longer[i] \notin Farewells
  BY <1>1 DEF Story
<1> QED
  BY <1>2, <1>3, <1>4

\* A pong may come at any time, and no other than a farewell ends the story.
LEMMA PongFits ==
  ASSUME NEW list \in Seq(AllEvents), Story(list, FALSE)
  PROVE  /\ list \o <<"pong">> \in Seq(AllEvents) /\ Story(list \o <<"pong">>, FALSE)
         /\ Pongs(list) => Pongs(list \o <<"pong">>)
         /\ Greeted(list) => Greeted(list \o <<"pong">>)
<1> DEFINE longer == list \o <<"pong">>
<1>1. "pong" \in AllEvents /\ "pong" \notin Farewells
  BY DEF AllEvents, Events, Farewells
<1>2. /\ longer \in Seq(AllEvents) /\ Len(list) \in Nat
      /\ DOMAIN list = 1..Len(list) /\ Len(longer) = Len(list) + 1
      /\ DOMAIN longer = 1..(Len(list) + 1) /\ longer[Len(list) + 1] = "pong"
      /\ \A i \in DOMAIN list : longer[i] = list[i]
  BY <1>1, Appended
<1> HIDE DEF longer
<1>3. ASSUME NEW i \in DOMAIN longer
      PROVE  /\ longer[i] # "pong" => \E j \in 1..i : longer[j] = "ready"
             /\ \A j \in DOMAIN longer : longer[i] = "ready" /\ longer[j] = "ready" => i = j
             /\ longer[i] = "delta" => longer[i - 1] = "binary"
             /\ longer[i] \notin Farewells
  <2>1. CASE i = Len(list) + 1
    BY <1>1, <1>2, <2>1
  <2>2. CASE i \in DOMAIN list
    <3>1. \A j \in DOMAIN longer : longer[i] = "ready" /\ longer[j] = "ready" => i = j
      BY <1>2, <2>2 DEF Story
    <3>2. \A k \in DOMAIN list : longer[k] = list[k]
      BY <1>2
    <3>3. /\ longer[i] # "pong" => \E j \in 1..i : longer[j] = "ready"
          /\ longer[i] = "delta" => longer[i - 1] = "binary"
          /\ longer[i] \notin Farewells
      BY ONLY list \in Seq(AllEvents), Story(list, FALSE), <2>2, <3>2, StoryBefore
    <3> QED
      BY <3>1, <3>3
  <2> QED
    BY <1>2, <2>1, <2>2
<1>4. Story(longer, FALSE)
  BY <1>3 DEF Story
<1>5. Pongs(list) => Pongs(longer)
  BY <1>2 DEF Pongs
<1>6. Greeted(list) => Greeted(longer)
  BY <1>2 DEF Greeted
<1> QED
  BY <1>2, <1>4, <1>5, <1>6 DEF longer

\* gateway.ready, after nothing but pongs.
LEMMA ReadyFits ==
  ASSUME NEW list \in Seq(AllEvents), Pongs(list)
  PROVE  /\ list \o <<"ready">> \in Seq(AllEvents) /\ Story(list \o <<"ready">>, FALSE)
         /\ Greeted(list \o <<"ready">>)
<1> DEFINE longer == list \o <<"ready">>
<1>1. "ready" \in AllEvents /\ "ready" \notin Farewells /\ "pong" \notin Farewells
  BY DEF AllEvents, Events, Farewells
<1>2. /\ longer \in Seq(AllEvents) /\ Len(list) \in Nat
      /\ DOMAIN list = 1..Len(list) /\ Len(longer) = Len(list) + 1
      /\ DOMAIN longer = 1..(Len(list) + 1) /\ longer[Len(list) + 1] = "ready"
      /\ \A i \in DOMAIN list : longer[i] = list[i]
  BY <1>1, Appended
<1> HIDE DEF longer
<1>3. \A i \in DOMAIN longer : i = Len(list) + 1 \/ longer[i] = "pong"
  BY <1>2 DEF Pongs
<1>4. Greeted(longer)
  BY <1>2 DEF Greeted
<1>5. ASSUME NEW i \in DOMAIN longer
      PROVE  /\ longer[i] # "pong" => \E j \in 1..i : longer[j] = "ready"
             /\ \A j \in DOMAIN longer : longer[i] = "ready" /\ longer[j] = "ready" => i = j
             /\ longer[i] # "delta" /\ longer[i] \notin Farewells
  BY <1>1, <1>2, <1>3
<1>6. Story(longer, FALSE)
  BY <1>5 DEF Story
<1> QED
  BY <1>2, <1>4, <1>6 DEF longer

LEMMA StoryGrows ==
  ASSUME NEW list \in Seq(AllEvents), Greeted(list), Story(list, FALSE),
         NEW more \in Chapters
  PROVE  /\ list \o more \in Seq(AllEvents) /\ Greeted(list \o more)
         /\ Story(list \o more, FALSE)
<1> DEFINE longer == list \o more
<1>1. /\ more \in Seq(Events) /\ more # <<>> /\ Len(more) \in 1..3
      /\ \A i \in DOMAIN more : more[i] # "ready" /\ more[i] \notin Farewells
      /\ \A i \in DOMAIN more : more[i] = "delta" => i > 1 /\ more[i - 1] = "binary"
  <2> SUFFICES /\ more \in Seq(Events) /\ Len(more) \in 1..3
               /\ \A i \in 1..Len(more) : more[i] \in Events \ {"ready"}
               /\ \A i \in 1..Len(more) : more[i] = "delta" => i > 1 /\ more[i - 1] = "binary"
    <3>1. DOMAIN more = 1..Len(more)
      OBVIOUS
    <3>2. more # <<>>
      <4>1. Len(<<>>) = 0 /\ 0 \notin 1..3
        OBVIOUS
      <4> QED
        BY <4>1
    <3>3. Events \cap Farewells = {}
      BY DEF Events, Farewells
    <3> QED
      BY <3>1, <3>2, <3>3
  <2>1. ASSUME NEW word \in {"text", "binary", "rate_limited"}, more = <<word>>
        PROVE  /\ more \in Seq(Events) /\ Len(more) = 1
               /\ more[1] \in Events \ {"ready"} /\ more[1] # "delta"
    BY <2>1 DEF Events
  <2>2. CASE more = <<"binary", "delta">>
    <3>1. /\ more \in Seq(Events) /\ Len(more) = 2
          /\ more[1] = "binary" /\ more[2] = "delta"
      BY <2>2 DEF Events
    <3> QED
      BY <3>1 DEF Events
  <2>3. CASE more = <<"text", "binary", "delta">>
    <3>1. /\ more \in Seq(Events) /\ Len(more) = 3
          /\ more[1] = "text" /\ more[2] = "binary" /\ more[3] = "delta"
      BY <2>3 DEF Events
    <3> QED
      BY <3>1 DEF Events
  <2>4. CASE \E word \in {"text", "binary", "rate_limited"} : more = <<word>>
    BY <2>1, <2>4
  <2> QED
    BY <2>2, <2>3, <2>4 DEF Chapters
<1>2. /\ longer \in Seq(AllEvents) /\ Len(list) \in Nat /\ Len(more) \in 1..3
      /\ DOMAIN list = 1..Len(list) /\ DOMAIN more = 1..Len(more)
      /\ DOMAIN longer = 1..(Len(list) + Len(more))
      /\ \A i \in DOMAIN list : longer[i] = list[i]
      /\ \A k \in DOMAIN more : longer[Len(list) + k] = more[k]
  BY <1>1 DEF AllEvents
<1> HIDE DEF longer
<1>3. PICK g \in DOMAIN list : list[g] = "ready"
  BY DEF Greeted
<1>4. Greeted(longer)
  BY <1>2, <1>3 DEF Greeted
<1>5. ASSUME NEW i \in DOMAIN longer
      PROVE  /\ longer[i] # "pong" => \E j \in 1..i : longer[j] = "ready"
             /\ \A j \in DOMAIN longer : longer[i] = "ready" /\ longer[j] = "ready" => i = j
             /\ longer[i] = "delta" => longer[i - 1] = "binary"
             /\ longer[i] \notin Farewells
  <2>1. \A k \in DOMAIN longer : k \in DOMAIN list \/ \E n \in DOMAIN more : k = Len(list) + n
    <3>1. ASSUME NEW k \in DOMAIN longer, k \notin DOMAIN list
          PROVE  \E n \in DOMAIN more : k = Len(list) + n
      <4>1. k - Len(list) \in DOMAIN more /\ k = Len(list) + (k - Len(list))
        BY <1>2, <3>1
      <4> QED
        BY <4>1
    <3> QED
      BY <3>1
  <2>2. \A k \in DOMAIN longer : longer[k] = "ready" => k \in DOMAIN list /\ list[k] = "ready"
    BY <1>1, <1>2, <2>1
  <2>3. \A j \in DOMAIN longer : longer[i] = "ready" /\ longer[j] = "ready" => i = j
    BY <2>2 DEF Story
  <2>4. CASE i \in DOMAIN list
    <3>1. \A k \in DOMAIN list : longer[k] = list[k]
      BY <1>2
    <3>2. /\ longer[i] # "pong" => \E j \in 1..i : longer[j] = "ready"
          /\ longer[i] = "delta" => longer[i - 1] = "binary"
          /\ longer[i] \notin Farewells
      BY ONLY list \in Seq(AllEvents), Story(list, FALSE), <2>4, <3>1, StoryBefore
    <3> QED
      BY <2>3, <3>2
  <2>5. CASE \E n \in DOMAIN more : i = Len(list) + n
    <3>1. PICK n \in DOMAIN more : i = Len(list) + n
      BY <2>5
    <3>2. longer[i] = more[n] /\ n \in Nat /\ n > 0
      BY <1>2, <3>1
    <3>3. g \in 1..i /\ longer[g] = "ready"
      BY <1>2, <1>3, <3>1, <3>2
    <3>4. ASSUME longer[i] = "delta" PROVE longer[i - 1] = "binary"
      <4>1. n > 1 /\ more[n - 1] = "binary"
        BY <1>1, <3>2, <3>4
      <4>2. n - 1 \in DOMAIN more /\ i - 1 = Len(list) + (n - 1)
        BY <1>2, <3>1, <3>2, <4>1
      <4> QED
        BY <1>2, <4>1, <4>2
    <3>5. longer[i] \notin Farewells
      BY <1>1, <3>2
    <3> QED
      BY <2>3, <3>3, <3>4, <3>5
  <2> QED
    BY <2>1, <2>4, <2>5
<1>6. Story(longer, FALSE)
  BY <1>5 DEF Story
<1> QED
  BY <1>2, <1>4, <1>6 DEF longer

LEMMA StoryEnds ==
  ASSUME NEW list \in Seq(AllEvents), Greeted(list), Story(list, FALSE),
         NEW last \in Farewells
  PROVE  /\ list \o <<last>> \in Seq(AllEvents)
         /\ Story(list \o <<last>>, TRUE)
<1> DEFINE longer == list \o <<last>>
<1>1. last # "ready" /\ last # "delta" /\ last \in AllEvents
  BY DEF Farewells, AllEvents
<1>2. /\ longer \in Seq(AllEvents) /\ Len(list) \in Nat
      /\ DOMAIN list = 1..Len(list) /\ Len(longer) = Len(list) + 1
      /\ DOMAIN longer = 1..(Len(list) + 1) /\ longer[Len(list) + 1] = last
      /\ \A i \in DOMAIN list : longer[i] = list[i]
  BY <1>1, Appended
<1> HIDE DEF longer
<1>3. PICK g \in DOMAIN list : list[g] = "ready"
  BY DEF Greeted
<1>4. ASSUME NEW i \in DOMAIN longer
      PROVE  /\ longer[i] # "pong" => \E j \in 1..i : longer[j] = "ready"
             /\ \A j \in DOMAIN longer : longer[i] = "ready" /\ longer[j] = "ready" => i = j
             /\ longer[i] = "delta" => longer[i - 1] = "binary"
             /\ longer[i] \in Farewells => i = Len(longer)
  <2>1. CASE i = Len(list) + 1
    <3>1. g \in 1..i /\ longer[g] = "ready"
      BY <1>2, <1>3, <2>1
    <3> QED
      BY <1>1, <1>2, <2>1, <3>1
  <2>2. CASE i \in DOMAIN list
    <3>1. \A j \in DOMAIN longer : longer[i] = "ready" /\ longer[j] = "ready" => i = j
      BY <1>1, <1>2, <2>2 DEF Story
    <3> QED
      BY <1>2, <2>2, <3>1, StoryBefore
  <2> QED
    BY <1>2, <2>1, <2>2
<1>5. Story(longer, TRUE)
  BY <1>4 DEF Story
<1> QED
  BY <1>2, <1>5 DEF longer

-----------------------------------------------------------------------------
(* The load *)

LEMMA Products ==
  ASSUME Assumptions, NEW n \in Nat
  PROVE  /\ FrameBytes * n \in Nat /\ FrameBytes * 0 = 0
         /\ FrameBytes * (n + 1) = FrameBytes * n + FrameBytes
         /\ n > 0 => FrameBytes * (n - 1) = FrameBytes * n - FrameBytes
         /\ n > 1 => FrameBytes * n > FrameBytes
<1>1. FrameBytes \in Nat \ {0}
  BY DEF Assumptions, LinkAssumption
<1>2. n > 1 => FrameBytes * (n - 1) > 0
  BY <1>1, SMT
<1>3. FrameBytes * (n - 1) = FrameBytes * n - FrameBytes
  BY <1>1, SMT
<1>4. FrameBytes * n \in Nat /\ FrameBytes * (n + 1) = FrameBytes * n + FrameBytes
  BY <1>1, SMT
<1> QED
  BY <1>1, <1>2, <1>3, <1>4

LEMMA SentKeeps ==
  ASSUME Assumptions, NEW l, LinkShape(l), NEW what
  PROVE  LinkShape(Sent(l, what)) /\ Sent(l, what).at = l.at
<1>1. CASE Sent(l, what) = l
  BY <1>1
<1>2. CASE l.at = "open" /\ Sent(l, what) = [l EXCEPT !.plain = @ + 1]
  BY <1>2 DEF LinkShape, Link
<1>3. CASE l.at = "open" /\ Sent(l, what) = [l EXCEPT !.flight = @ + 1, !.pending = @ + FrameBytes]
  <2>1. l.flight \in Nat /\ l.pending = FrameBytes * l.flight /\ l.pending \in Int
        /\ FrameBytes \in Nat /\ l \in Link
    BY <1>3 DEF LinkShape, Link, Assumptions, LinkAssumption
  <2>2. FrameBytes * (l.flight + 1) = FrameBytes * l.flight + FrameBytes
    BY <2>1, Products
  <2>3. Sent(l, what) = [at |-> "open", flight |-> l.flight + 1, plain |-> l.plain,
                         pending |-> l.pending + FrameBytes]
    BY <1>3, <2>1 DEF Link
  <2> QED
    BY <1>3, <2>1, <2>2, <2>3 DEF LinkShape, Link
<1> QED
  BY <1>1, <1>2, <1>3 DEF Sent

LEMMA TakenKeeps ==
  ASSUME Assumptions, NEW l, LinkShape(l), l.at \in {"open", "closing"}, l.flight > 0
  PROVE  LinkShape(Taken(l)) /\ Taken(l).at = l.at
<1>1. l \in Link /\ l.flight \in Nat /\ l.pending \in Int /\ FrameBytes \in Nat \ {0}
  BY DEF LinkShape, Link, Assumptions, LinkAssumption
<1> DEFINE rest == IF l.pending > FrameBytes THEN l.pending - FrameBytes ELSE 0
<1>0. Taken(l) = [at |-> l.at, flight |-> l.flight - 1, plain |-> l.plain, pending |-> rest]
      /\ rest \in Int
  <2>1. rest \in Int
    BY <1>1
  <2>2. Taken(l) = [l EXCEPT !.flight = @ - 1, !.pending = rest]
    BY <1>1 DEF Taken, Link
  <2> HIDE DEF rest
  <2>3. l = [at |-> l.at, flight |-> l.flight, plain |-> l.plain, pending |-> l.pending]
    BY <1>1 DEF Link
  <2> QED
    BY <2>1, <2>2, <2>3
<1>2. /\ Taken(l) \in Link /\ Taken(l).at = l.at /\ Taken(l).flight = l.flight - 1
      /\ Taken(l).pending = rest
  <2> HIDE DEF rest
  <2> QED
    BY <1>0, <1>1 DEF Link
<1>3. l.at = "open" => Taken(l).pending = FrameBytes * (l.flight - 1)
  <2>1. CASE l.flight = 1
    BY <1>1, <1>2, <2>1, Products DEF LinkShape
  <2>2. CASE l.flight > 1
    BY <1>1, <1>2, <2>2, Products DEF LinkShape
  <2> QED
    BY <1>1, <2>1, <2>2
<1> QED
  BY <1>2, <1>3 DEF LinkShape

LEMMA OpenedKeeps ==
  ASSUME Assumptions, LinkShape(link), link.at = "opened"
  PROVE  LinkShape(Opened(link)) /\ Opened(link).at = "open"
<1> DEFINE open == [link EXCEPT !.at = "open"]
<1>1. LinkShape(open) /\ open.at = "open"
  BY Products DEF LinkShape, Link
<1> HIDE DEF open
<1> QED
  BY <1>1, SentKeeps DEF Opened, open

LEMMA HungKeeps ==
  ASSUME NEW l, LinkShape(l)
  PROVE  /\ LinkShape(Hung(l))
         /\ l.at \notin {"none", "dialing", "opened"} => Hung(l).at \notin {"none", "dialing", "opened"}
         /\ l.at \in {"none", "dialing", "opened"} => Hung(l) = l
  BY DEF Hung, LinkShape, Link

LEMMA DialledShape ==
  LinkShape(NoLink) /\ NoLink.at = "none"
  /\ LinkShape(Dialled) /\ Dialled.at \in {"dialing", "opened"}
  BY DEF Dialled, NoLink, LinkShape, Link

-----------------------------------------------------------------------------
(* The client *)

LEMMA SayKeeps ==
  ASSUME ClientInv, Attached, NEW more \in Chapters, Say(more),
         UNCHANGED <<startVars, clientVars, missed, ends>>
  PROVE  ClientInv'
<1>1. pc = "ready" /\ closed = FALSE /\ told \in Seq(AllEvents) /\ Story(told, FALSE)
  BY DEF ClientInv, Attached
<1>2. CASE sock = "open"
  <2>1. Greeted(told) /\ told' = told \o more
    BY <1>1, <1>2 DEF ClientInv, Say
  <2>2. told' \in Seq(AllEvents) /\ Greeted(told') /\ Story(told', FALSE)
    BY <1>1, <2>1, StoryGrows
  <2> QED
    BY <1>1, <1>2, <2>2 DEF ClientInv, startVars, clientVars
<1>3. CASE sock # "open"
  BY <1>3 DEF Say, ClientInv, startVars, clientVars
<1> QED
  BY <1>2, <1>3

LEMMA CloseKeeps ==
  ASSUME Assumptions, RegistryInv, ClientInv,
         NEW nextLink, NEW nextSock \in {"closing", "closed"},
         CloseSession(nextLink, nextSock),
         told' \in Seq(AllEvents), Story(told', TRUE),
         pc' \in {"plugins", "connecting", "ready", "failed"},
         pc' = "plugins" => told' = <<>>,
         pc' # "ready" => Pongs(told'),
         leftEarly' \in BOOLEAN, missed' = missed
  PROVE  ClientInv'
  BY BegunKeeps DEF ClientInv, CloseSession, RegistryInv

\* ... with a farewell or without.
LEMMA StoryOver ==
  ASSUME ClientInv, closed = FALSE
  PROVE  /\ told \in Seq(AllEvents) /\ Story(told, TRUE)
         /\ \A last \in Farewells :
              pc = "ready" /\ Say(<<last>>) => told' \in Seq(AllEvents) /\ Story(told', TRUE)
<1>1. told \in Seq(AllEvents) /\ Story(told, FALSE) /\ Story(told, TRUE)
  BY DEF ClientInv, Story
<1>2. ASSUME NEW last \in Farewells, pc = "ready", Say(<<last>>)
      PROVE  told' \in Seq(AllEvents) /\ Story(told', TRUE)
  <2>1. CASE sock = "open"
    BY <1>1, <1>2, <2>1, StoryEnds DEF ClientInv, Say
  <2>2. CASE sock # "open"
    BY <1>1, <1>2, <2>2 DEF Say
  <2> QED
    BY <2>1, <2>2
<1> QED
  BY <1>1, <1>2

\* A ping, of a client the session listens to.
LEMMA PingKeeps ==
  ASSUME ClientInv, Ping
  PROVE  ClientInv'
<1>1. /\ closed = FALSE /\ pc # "plugins" /\ sock = "open" /\ told' = told \o <<"pong">>
      /\ told \in Seq(AllEvents) /\ Story(told, FALSE)
  BY DEF Ping, Bound, Say, ClientInv
<1>2. /\ told' \in Seq(AllEvents) /\ Story(told', FALSE)
      /\ Pongs(told) => Pongs(told')
      /\ Greeted(told) => Greeted(told')
  BY <1>1, PongFits
<1>3. UNCHANGED <<pc, closed, sock, leftEarly, missed, ends>>
  BY DEF Ping, startVars, clientVars, pluginVars
<1> QED
  BY <1>1, <1>2, <1>3 DEF ClientInv

\* What a close leaves of the client's socket.
LEMMA EndedSock ==
  ClientInv => ClientEnded \in {"closing", "closed"}
  BY DEF ClientInv, ClientEnded

-----------------------------------------------------------------------------
(* The invariant *)

LEMMA InitHolds ==
  ASSUME Assumptions, Init PROVE SInv
<1>1. entries \in Seq(PluginKeys \cup {Gone}) /\ Distinct(entries)
  <2>1. entries \in Seq(PluginKeys) /\ \A i, j \in DOMAIN entries : entries[i] = entries[j] => i = j
    BY DEF Init, Assumptions, PluginAssumption
  <2> QED
    BY <2>1 DEF Distinct
<1>2. RegistryInv
  BY <1>1, BegunKeeps, IdleSweep DEF Init, RegistryInv
<1>3. LinkInv
  BY DialledShape DEF Init, LinkInv, Assumptions, StartAssumption
<1>4. ClientInv
  <2>0. told = <<>> /\ closed = FALSE
    BY DEF Init
  <2>1. told = <<>> /\ told \in Seq(AllEvents) /\ Pongs(told) /\ Story(told, closed)
    BY <2>0, SilenceIsStory, PongsAreStory
  <2>2. ends.state = "idle"
    BY IdleSweep DEF Init
  <2>3. /\ pc \in {"plugins", "connecting"} /\ closed = FALSE
        /\ sock = "open" /\ leftEarly = FALSE /\ missed = FALSE
    BY DEF Init
  <2> QED
    BY <2>1, <2>2, <2>3 DEF ClientInv
<1> QED
  BY <1>2, <1>3, <1>4 DEF SInv

LEMMA StartKeeps ==
  ASSUME Assumptions, SInv, Start PROVE SInv'
<1>1. CASE StartHookSettles
  <2>1. RegistryInv'
    BY <1>1, RegistryStep DEF StartHookSettles, SInv
  <2>2. LinkInv'
    BY <1>1, DialledShape DEF StartHookSettles, SInv, LinkInv, Dialled, Adapter
  <2>3. ClientInv'
    BY <1>1 DEF StartHookSettles, SInv, ClientInv, clientVars, heardVars
  <2> QED
    BY <2>1, <2>2, <2>3 DEF SInv
<1>2. ASSUME StartRejected, pc # "ready",
             starts' \in {starts, Rejected(starts)}
      PROVE  SInv'
  <2>1. RegistryInv'
    BY <1>2, RegistryStep DEF StartRejected, CloseSession, SInv
  <2>2. LinkInv'
    BY <1>2, DialledShape DEF StartRejected, CloseSession, SInv, LinkInv
  <2>3. sock' # "open" /\ told' = told /\ Pongs(told)
    BY <1>2, EndedSock DEF StartRejected, CloseSession, SInv, ClientInv
  <2>4. ASSUME closed PROVE ClientInv'
    BY <1>2, <2>3, <2>4 DEF StartRejected, SInv, ClientInv
  <2>5. ASSUME closed = FALSE PROVE ClientInv'
    <3>1. CloseSession(NoLink, ClientEnded) /\ pc' = "failed" /\ leftEarly' = leftEarly /\ missed' = missed
      BY <1>2, <2>5 DEF StartRejected
    <3>2. leftEarly' \in BOOLEAN
      BY <3>1 DEF SInv, ClientInv
    <3> QED
      BY <2>3, <2>5, <3>1, <3>2, CloseKeeps, EndedSock, StoryOver DEF SInv
  <2>6. ClientInv'
    BY <2>4, <2>5 DEF SInv, ClientInv
  <2> QED
    BY <2>1, <2>2, <2>6 DEF SInv
<1>3. CASE StartHookRejects
  <2>1. StartRejected /\ pc # "ready" /\ starts' = Rejected(starts)
    BY <1>3 DEF StartHookRejects
  <2> QED
    BY <1>2, <2>1
<1>4. CASE ConnectFails
  <2>1. StartRejected /\ pc # "ready" /\ starts' = starts
    BY <1>4 DEF ConnectFails
  <2> QED
    BY <1>2, <2>1
<1>5. CASE Dial
  <2>1. RegistryInv'
    BY <1>5, RegistryStep DEF Dial, SInv, pluginVars
  <2>2. LinkInv'
    BY <1>5 DEF Dial, LinkOpens, SInv, LinkInv, LinkShape, Link, startVars
  <2>3. ClientInv'
    BY <1>5 DEF Dial, SInv, ClientInv, pluginVars, startVars, clientVars, heardVars
  <2> QED
    BY <2>1, <2>2, <2>3 DEF SInv
<1>6. CASE FrameMissed
  <2>1. RegistryInv'
    BY <1>6, RegistryStep DEF FrameMissed, SInv, pluginVars
  <2> QED
    BY <1>6, <2>1 DEF FrameMissed, SInv, LinkInv, ClientInv, pluginVars, linkVars, startVars, clientVars
<1>7. CASE Connected
  <2>1. RegistryInv'
    BY <1>7, RegistryStep DEF Connected, SInv, pluginVars
  <2>2. pc = "connecting"
    BY <1>7 DEF Connected, SInv, LinkInv, ClientInv
  <2>3. LinkInv'
    BY <1>7, OpenedKeeps DEF Connected, SInv, LinkInv
  <2>4. told \in Seq(AllEvents) /\ Pongs(told) /\ Story(told, closed) /\ closed \in BOOLEAN
    BY <2>2 DEF SInv, ClientInv
  <2>5. CASE sock = "open"
    <3>1. told' = told \o <<"ready">> /\ closed = FALSE /\ closed' = closed
      BY <1>7, <2>4, <2>5 DEF Connected, Say, SInv, ClientInv
    <3>2. told' \in Seq(AllEvents) /\ Story(told', FALSE) /\ Greeted(told')
      BY <2>4, <3>1, ReadyFits
    <3>3. ClientInv'
      BY <1>7, <2>5, <3>1, <3>2 DEF Connected, SInv, ClientInv, pluginVars, clientVars
    <3> QED
      BY <2>1, <2>3, <3>3 DEF SInv
  <2>6. CASE sock # "open"
    <3>1. ClientInv'
      BY <1>7, <2>4, <2>6 DEF Connected, Say, SInv, ClientInv, pluginVars, clientVars
    <3> QED
      BY <2>1, <2>3, <3>1 DEF SInv
  <2> QED
    BY <2>5, <2>6
<1> QED
  BY <1>1, <1>3, <1>4, <1>5, <1>6, <1>7 DEF Start

\* The provider speaks, takes or fails.
LEMMA ProviderKeeps ==
  ASSUME Assumptions, SInv, Provider PROVE SInv'
<1>1. CASE FrameHeard
  <2>1. PICK frame \in Frames : Say(Relayed(frame))
    BY <1>1 DEF FrameHeard
  <2>2. Relayed(frame) \in Chapters
    BY DEF Relayed, Chapters
  <2>3. ClientInv'
    BY <1>1, <2>1, <2>2, SayKeeps DEF FrameHeard, SInv, pluginVars
  <2>4. RegistryInv'
    BY <1>1, RegistryStep DEF FrameHeard, SInv, pluginVars
  <2>5. LinkInv'
    BY <1>1 DEF FrameHeard, SInv, LinkInv, linkVars, startVars
  <2> QED
    BY <2>3, <2>4, <2>5 DEF SInv
<1>2. CASE Echo
  <2>1. PICK more \in Chapters : Say(more)
    BY <1>2 DEF Echo, Chapters
  <2>2. pc = "ready"
    BY <1>2 DEF Echo, SInv, LinkInv, ClientInv
  <2>3. ClientInv'
    <3>1. CASE closed = FALSE
      BY <1>2, <2>1, <2>2, <3>1, SayKeeps DEF Echo, SInv, Attached, pluginVars
    <3>2. CASE closed
      BY <1>2, <2>1, <3>2 DEF Echo, SInv, ClientInv, Say, pluginVars, startVars, clientVars
    <3> QED
      BY <3>1, <3>2 DEF SInv, ClientInv
  <2>4. RegistryInv'
    BY <1>2, RegistryStep DEF Echo, SInv, pluginVars
  <2>5. LinkShape(link') /\ link'.at = "open"
    <3>1. CASE link.flight > 0 /\ link' = Taken(link)
      BY <1>2, <3>1, TakenKeeps DEF Echo, SInv, LinkInv
    <3>2. CASE link.plain > 0 /\ link' = [link EXCEPT !.plain = @ - 1]
      BY <1>2, <3>2 DEF Echo, SInv, LinkInv, LinkShape, Link
    <3> QED
      BY <1>2, <3>1, <3>2 DEF Echo
  <2>6. LinkInv'
    BY <1>2, <2>2, <2>5 DEF Echo, SInv, LinkInv, startVars
  <2> QED
    BY <2>3, <2>4, <2>6 DEF SInv
<1>3. CASE Transport
  <2>1. RegistryInv'
    BY <1>3, RegistryStep DEF Transport, SInv, pluginVars
  <2>2. ClientInv'
    BY <1>3 DEF Transport, SInv, ClientInv, pluginVars, startVars, clientVars, heardVars
  <2>3. kind' = kind /\ link.at \in {"open", "closing"}
    BY <1>3 DEF Transport, FrameTaken, WriteFails, LinkCloses
  <2>4. LinkShape(link') /\ link'.at \in {"open", "closing"}
    <3>1. CASE link.flight > 0 /\ link' = Taken(link)
      BY <2>3, <3>1, TakenKeeps DEF SInv, LinkInv
    <3>2. CASE link.plain > 0 /\ link' = [link EXCEPT !.plain = @ - 1]
      BY <2>3, <3>2 DEF SInv, LinkInv, LinkShape, Link
    <3>3. CASE WriteFails
      BY <3>3 DEF WriteFails, SInv, LinkInv, LinkShape, Link
    <3>4. CASE LinkCloses
      BY <3>4 DEF LinkCloses, SInv, LinkInv, LinkShape, Link
    <3> QED
      BY <1>3, <3>1, <3>2, <3>3, <3>4 DEF Transport, FrameTaken
  <2>5. LinkInv'
    BY <1>3, <2>3, <2>4 DEF Transport, SInv, LinkInv, ClientInv, startVars
  <2> QED
    BY <2>1, <2>2, <2>5 DEF SInv
<1>4. CASE UpstreamClosed
  <2> DEFINE ended == [link EXCEPT !.at = "closed", !.flight = 0, !.plain = 0]
  <2>1. RegistryInv'
    BY <1>4, RegistryStep DEF UpstreamClosed, CloseSession, SInv
  <2>2. LinkShape(ended) /\ ended.at = "closed"
    BY DEF SInv, LinkInv, LinkShape, Link
  <2>3. link' = ended /\ pc = "ready" /\ pc' = pc /\ kind' = kind
    BY <1>4 DEF UpstreamClosed, CloseSession, SInv, LinkInv, ClientInv
  <2>4. LinkInv'
    <3> HIDE DEF ended
    <3> QED
      BY <2>2, <2>3 DEF SInv, LinkInv
  <2>5. CASE Attached
    <3>1. Say(<<"upstream_closed">>) /\ CloseSession(ended, ClientEnded) /\ closed = FALSE
      BY <1>4, <2>5 DEF UpstreamClosed, Attached, SInv, ClientInv
    <3>2. told' \in Seq(AllEvents) /\ Story(told', TRUE)
      BY <2>3, <3>1, StoryOver DEF Farewells, SInv
    <3>3. pc' = "ready" /\ leftEarly' = leftEarly /\ missed' = missed
      BY <1>4, <2>3 DEF UpstreamClosed
    <3> HIDE DEF ended
    <3>4. ClientInv'
      <4>1. leftEarly' \in BOOLEAN
        BY <3>3 DEF SInv, ClientInv
      <4> QED
        BY <3>1, <3>2, <3>3, <4>1, CloseKeeps, EndedSock DEF SInv
    <3> QED
      BY <2>1, <2>4, <3>4 DEF SInv
  <2>6. CASE ~Attached
    <3>1. ClientInv'
      BY <1>4, <2>6 DEF UpstreamClosed, SInv, ClientInv
    <3> QED
      BY <2>1, <2>4, <3>1 DEF SInv
  <2> QED
    BY <2>5, <2>6
<1>5. CASE UpstreamError
  <2> DEFINE ended == [link EXCEPT !.at = "closing"]
  <2>1. RegistryInv'
    BY <1>5, RegistryStep DEF UpstreamError, CloseSession, SInv
  <2>2. LinkShape(ended) /\ ended.at = "closing"
    BY DEF SInv, LinkInv, LinkShape, Link
  <2>3. /\ link' = ended /\ pc = "ready" /\ pc' = pc /\ kind' = kind /\ closed = FALSE
        /\ Say(<<"error">>) /\ CloseSession(ended, ClientEnded)
    BY <1>5 DEF UpstreamError, CloseSession, Attached, SInv, ClientInv
  <2> HIDE DEF ended
  <2>4. LinkInv'
    BY <2>2, <2>3 DEF SInv, LinkInv
  <2>5. told' \in Seq(AllEvents) /\ Story(told', TRUE)
    BY <2>3, StoryOver DEF Farewells, SInv
  <2>6. leftEarly' \in BOOLEAN /\ missed' = missed /\ pc' = "ready"
    BY <1>5, <2>3 DEF UpstreamError, SInv, ClientInv
  <2>7. ClientInv'
    BY <2>3, <2>5, <2>6, CloseKeeps, EndedSock DEF SInv
  <2> QED
    BY <2>1, <2>4, <2>7 DEF SInv
<1> QED
  BY <1>1, <1>2, <1>3, <1>4, <1>5 DEF Provider

\* close() by anybody but the provider: no event goes with it.
LEMMA CloseQuietly ==
  ASSUME Assumptions, SInv, Quiet, closed = FALSE, NEW nextSock \in {"closing", "closed"},
         CloseSession(Hung(link), nextSock),
         UNCHANGED <<entries, starts, kind, pc, heardVars>>, leftEarly' \in BOOLEAN
  PROVE  SInv'
<1>1. RegistryInv'
  BY RegistryStep DEF CloseSession, SInv
<1>2. link' = Hung(link) /\ kind' = kind /\ pc' = pc
  BY DEF CloseSession
<1>3. LinkInv'
  BY <1>2, HungKeeps DEF SInv, LinkInv, ClientInv
<1>4. /\ told' = told /\ missed' = missed /\ pc \in {"plugins", "connecting", "ready", "failed"}
      /\ pc = "plugins" => told = <<>>
      /\ pc # "ready" => Pongs(told)
  BY DEF heardVars, SInv, ClientInv
<1>5. ClientInv'
  BY <1>2, <1>4, CloseKeeps, StoryOver DEF SInv
<1> QED
  BY <1>1, <1>3, <1>5 DEF SInv

LEMMA ClientKeeps ==
  ASSUME Assumptions, SInv, Client \/ Shutdown PROVE SInv'
<1>1. CASE ClientSends
  <2>1. RegistryInv'
    BY <1>1, RegistryStep DEF ClientSends, SInv, pluginVars
  <2>2. ClientInv'
    BY <1>1 DEF ClientSends, SInv, ClientInv, pluginVars, startVars, clientVars, heardVars
  <2>3. LinkShape(link') /\ link'.at = link.at /\ kind' = kind /\ pc' = pc
    BY <1>1, SentKeeps DEF ClientSends, SInv, LinkInv, startVars
  <2>4. LinkInv'
    BY <2>3 DEF SInv, LinkInv
  <2> QED
    BY <2>1, <2>2, <2>4 DEF SInv
<1>2. CASE PeerCloses
  <2>1. RegistryInv'
    BY <1>2, RegistryStep DEF PeerCloses, SInv, pluginVars
  <2> QED
    BY <1>2, <2>1 DEF PeerCloses, SInv, LinkInv, ClientInv, pluginVars, linkVars, startVars, heardVars
<1>3. CASE SocketCloses
  <2>0. leftEarly' \in BOOLEAN /\ (pc = "plugins" => leftEarly')
    BY <1>3 DEF SocketCloses, SInv, ClientInv
  <2>1. CASE Bound /\ ~closed
    <3>1. /\ Quiet /\ closed = FALSE /\ CloseSession(Hung(link), "closed")
          /\ UNCHANGED <<entries, starts, kind, pc, heardVars>>
      BY <1>3, <2>1 DEF SocketCloses, SInv, ClientInv
    <3> QED
      BY <2>0, <3>1, CloseQuietly
  <2>2. CASE ~ (Bound /\ ~closed)
    <3>1. /\ sock' = "closed" /\ closed' = closed /\ link' = link /\ ends' = ends /\ starts' = starts
          /\ entries' = entries /\ kind' = kind /\ pc' = pc /\ told' = told /\ missed' = missed
      BY <1>3, <2>2 DEF SocketCloses, heardVars
    <3>2. RegistryInv'
      BY <3>1, RegistryStep DEF SInv
    <3>3. LinkInv'
      BY <3>1 DEF SInv, LinkInv
    <3>4. pc = "plugins" \/ closed
      BY <2>2 DEF Bound
    <3>5. ClientInv'
      BY <2>0, <3>1, <3>4 DEF SInv, ClientInv
    <3> QED
      BY <3>2, <3>3, <3>5 DEF SInv
  <2> QED
    BY <2>1, <2>2
<1>4. CASE ClientError \/ Shutdown
  <2>1. /\ Quiet /\ closed = FALSE /\ CloseSession(Hung(link), ClientEnded)
        /\ UNCHANGED <<entries, starts, kind, pc, heardVars>> /\ leftEarly' \in BOOLEAN
    BY <1>4 DEF ClientError, Shutdown, SInv, ClientInv
  <2> QED
    BY <2>1, CloseQuietly, EndedSock DEF SInv
<1>5. CASE Ping
  <2>1. RegistryInv'
    BY <1>5, RegistryStep DEF Ping, SInv, pluginVars
  <2>2. LinkInv'
    BY <1>5 DEF Ping, SInv, LinkInv, linkVars, startVars
  <2>3. ClientInv'
    BY <1>5, PingKeeps DEF SInv
  <2> QED
    BY <2>1, <2>2, <2>3 DEF SInv
<1> QED
  BY <1>1, <1>2, <1>3, <1>4, <1>5 DEF Client

LEMMA PluginsKeep ==
  ASSUME Assumptions, SInv, Plugins PROVE SInv'
<1>1. UNCHANGED <<linkVars, startVars, clientVars, heardVars>>
  BY DEF Plugins
<1>2. RegistryInv'
  <2>1. CASE EndHookSettles
    BY <2>1, RegistryStep DEF EndHookSettles, SInv
  <2>2. CASE \E k \in PluginKeys : Register(k)
    BY <2>2, RegisterKeeps DEF SInv
  <2>3. CASE \E k \in PluginKeys : Unregister(k)
    BY <2>3, UnregisterKeeps DEF SInv
  <2> QED
    BY <2>1, <2>2, <2>3 DEF Plugins
<1>3. LinkInv'
  BY <1>1 DEF SInv, LinkInv, linkVars, startVars
<1>4. ends'.state # "idle" <=> ends.state # "idle"
  <2>1. CASE EndHookSettles
    BY <2>1, VisitKeeps DEF EndHookSettles, SInv, RegistryInv
  <2>2. CASE \E k \in PluginKeys : Register(k)
    BY <2>2 DEF Register
  <2>3. CASE \E k \in PluginKeys : Unregister(k)
    <3>1. ends \in Sweep
      BY DEF SInv, RegistryInv, SweepInv
    <3> QED
      BY <2>3, <3>1 DEF Unregister, Sweep
  <2> QED
    BY <2>1, <2>2, <2>3 DEF Plugins
<1>5. ClientInv'
  BY <1>1, <1>4 DEF SInv, ClientInv, startVars, clientVars, heardVars
<1> QED
  BY <1>2, <1>3, <1>5 DEF SInv

LEMMA StutterKeeps ==
  ASSUME SInv, UNCHANGED vars PROVE SInv'
  BY DEF SInv, RegistryInv, LinkInv, ClientInv, vars, pluginVars, linkVars, startVars,
         clientVars, heardVars

LEMMA Assumed == Assumptions
  BY PluginAssumption, LinkAssumption, StartAssumption DEF Assumptions

\* The inductive invariant (src/gateway.ts 122-255, src/plugins/registry.ts
\* 46-56, src/providers).
THEOREM Invariance == Spec => []SInv
<1>1. Init => SInv
  BY Assumed, InitHolds
<1>2. SInv /\ [Next]_vars => SInv'
  BY Assumed, StartKeeps, ProviderKeeps, ClientKeeps, PluginsKeep, StutterKeeps DEF Next
<1> QED
  BY <1>1, <1>2, PTL DEF Spec

\* The registry, the connection, the events and the sockets have their types
\* (plugins/registry.ts 4-57, providers, gateway.ts 122-255).
THEOREM TypeCorrect == Spec => []TypeOK
<1>1. SInv => TypeOK
  BY DEF SInv, RegistryInv, LinkInv, ClientInv, SweepInv, LinkShape, TypeOK, PluginTypeOK,
         LinkTypeOK, AllEvents
<1> QED
  BY <1>1, Invariance, PTL

\* Whatever is registered or unregistered under them, the two sweeps of a
\* session call a plugin that stays once, and when they end well they have
\* called every one (plugins/registry.ts 46-56).
THEOREM SweepsAreComplete == Spec => []SweepsComplete
<1>1. SInv => SweepsComplete
  <2>1. ASSUME NEW sweep, SweepInv(entries, sweep), NEW k \in sweep.stayed
        PROVE  /\ sweep.called[k] <= 1
               /\ sweep.state = "done" => sweep.called[k] = 1
    BY <2>1 DEF SweepInv, Placed
  <2> QED
    BY <2>1 DEF SInv, RegistryInv, SweepsComplete
<1> QED
  BY <1>1, Invariance, PTL

\* Of the plugins that stay, those ended without having been started are the
\* ones between the places of endAll() and startAll(), however the start went
\* and whatever is registered or unregistered (plugins/registry.ts 46-56,
\* gateway.ts 127-131, 164-168).
THEOREM EndsAreLocated == Spec => []EndsWithoutStart
<1>1. SInv => EndsWithoutStart
  <2> SUFFICES ASSUME SInv, NEW i \in DOMAIN entries,
                      entries[i] \in starts.stayed \cap ends.stayed
               PROVE  ends.called[entries[i]] > starts.called[entries[i]]
                        <=> starts.at < i /\ i <= ends.at
    BY DEF EndsWithoutStart
  <2>1. ASSUME NEW sweep, SweepInv(entries, sweep), entries[i] \in sweep.stayed
        PROVE  /\ sweep.at \in Nat
               /\ sweep.called[entries[i]] = IF i <= sweep.at THEN 1 ELSE 0
    <3>1. sweep.at \in Nat /\ entries[i] # Gone
      BY <2>1, Assumed DEF SweepInv, Sweep, Assumptions, PluginAssumption
    <3>2. PICK j \in DOMAIN entries :
            entries[j] = entries[i] /\ sweep.called[entries[i]] = IF j <= sweep.at THEN 1 ELSE 0
      BY <2>1 DEF SweepInv, Placed
    <3>3. j = i
      BY <3>1, <3>2 DEF SInv, RegistryInv, Distinct
    <3> QED
      BY <3>1, <3>2, <3>3
  <2>2. SweepInv(entries, starts) /\ SweepInv(entries, ends) /\ i \in Nat
    BY DEF SInv, RegistryInv
  <2>3. /\ starts.at \in Nat /\ starts.called[entries[i]] = IF i <= starts.at THEN 1 ELSE 0
        /\ ends.at \in Nat /\ ends.called[entries[i]] = IF i <= ends.at THEN 1 ELSE 0
    BY <2>1, <2>2
  <2> QED
    BY <2>2, <2>3
<1> QED
  BY <1>1, Invariance, PTL

\* The client a session outlives is one that left during the start hooks
\* (gateway.ts 127-134, 240-255).
THEOREM DeafOnlyThere == Spec => []DeafOnlyToPlugins
<1>1. SInv => DeafOnlyToPlugins
  BY DEF SInv, ClientInv, DeafOnlyToPlugins
<1> QED
  BY <1>1, Invariance, PTL

\* The load a connection reports is what it still holds, for every provider
\* and every size of its frames (anthropic.ts 42-70 and its like, mock.ts 35-87).
THEOREM LoadIsExact == Spec => []LoadIsOutstanding
<1>1. SInv => LoadIsOutstanding
  <2> SUFFICES ASSUME SInv, link.at = "open"
               PROVE  BufferedAmount = FrameBytes *
                        (link.flight + IF Adapter.socket THEN link.flight + link.plain ELSE 0)
    BY DEF LoadIsOutstanding
  <2>1. /\ link.pending = FrameBytes * link.flight
        /\ link.flight \in Nat /\ link.plain \in Nat /\ FrameBytes \in Nat
    BY Assumed DEF SInv, LinkInv, LinkShape, Link, Assumptions, LinkAssumption
  <2>2. CASE Adapter.socket
    <3>1. BufferedAmount = FrameBytes * link.flight + FrameBytes * (link.flight + link.plain)
      BY <2>1, <2>2 DEF BufferedAmount
    <3>2. ASSUME NEW a \in Nat, NEW b \in Nat, NEW c \in Nat
          PROVE  c * a + c * b = c * (a + b)
      BY SMT
    <3>3. link.flight + link.plain \in Nat
      BY <2>1
    <3> QED
      BY <2>1, <2>2, <3>1, <3>2, <3>3
  <2>3. CASE ~Adapter.socket
    BY <2>1, <2>3 DEF BufferedAmount
  <2> QED
    BY <2>2, <2>3
<1> QED
  BY <1>1, Invariance, PTL

\* The story of a client, pongs and pauses apart: ready first and once, a delta
\* after its audio, a farewell last and of a session that closed, and silence
\* from a start that failed (gateway.ts 225-236, 319-321, 381-441, server.ts 173-187).
THEOREM StoryIsTold == Spec => []ClientStory
<1>1. SInv => ClientStory
  BY DEF SInv, ClientInv, ClientStory
<1> QED
  BY <1>1, Invariance, PTL

-----------------------------------------------------------------------------
(* SessionLife *)

\* Nothing that a life is about changes.
LEMMA LifeStutters ==
  ASSUME UNCHANGED <<pc, closed, sock>>
  PROVE  [Life!Next]_(Life!vars)
  BY DEF Life!vars

LEMMA LifeRejects ==
  ASSUME SInv, StartRejected, pc \in {"plugins", "connecting"}
  PROVE  Life!Reject
<1>1. closed \in BOOLEAN /\ (closed => sock # "open")
  BY DEF SInv, ClientInv
<1>2. CASE closed
  BY <1>1, <1>2 DEF StartRejected, Life!Reject, Life!Ended
<1>3. CASE ~closed
  BY <1>3 DEF StartRejected, CloseSession, ClientEnded, Life!Reject, Life!Ended
<1> QED
  BY <1>2, <1>3

\* close() by anybody but the socket itself.
LEMMA LifeCloses ==
  ASSUME SInv, closed = FALSE, UNCHANGED pc, NEW nextLink,
         CloseSession(nextLink, ClientEnded)
  PROVE  Life!Close
  BY DEF SInv, ClientInv, CloseSession, ClientEnded, Life!Close, Life!Ended

\* Plugins, provider and client together give the session the life that the
\* server, the registry and the quota count on (gateway.ts 122-176, 240-255,
\* server.ts 173-187).
THEOREM LifeRefinement == Spec => ImplementsLife
<1>1. Init => Life!Init
  BY DEF Init, Life!Init
<1>2. ASSUME SInv, [Next]_vars
      PROVE  [Life!Next]_(Life!vars)
  <2>1. /\ closed \in BOOLEAN /\ sock \in {"open", "closing", "closed"}
        /\ pc \in {"plugins", "connecting", "ready", "failed"}
    BY <1>2 DEF SInv, ClientInv
  <2>2. CASE StartHookSettles
    <3>1. Life!Advance \/ UNCHANGED <<pc, closed, sock>>
      BY <2>2 DEF StartHookSettles, clientVars, Life!Advance
    <3> QED
      BY <3>1, LifeStutters DEF Life!Next
  <2>3. CASE StartHookRejects \/ ConnectFails
    <3>1. Life!Reject
      BY <1>2, <2>3, LifeRejects DEF StartHookRejects, ConnectFails
    <3> QED
      BY <3>1 DEF Life!Next
  <2>4. CASE Connected
    <3>1. pc = "connecting"
      BY <1>2, <2>1, <2>4 DEF Connected, SInv, LinkInv
    <3>2. Life!Advance
      BY <2>4, <3>1 DEF Connected, clientVars, Life!Advance
    <3> QED
      BY <3>2 DEF Life!Next
  <2>5. CASE \/ Dial \/ FrameMissed \/ FrameHeard \/ Echo \/ Transport \/ ClientSends
             \/ Ping \/ Plugins \/ UNCHANGED vars
    BY <2>5, LifeStutters DEF Dial, FrameMissed, FrameHeard, Echo, Transport, ClientSends,
       Ping, Plugins, startVars, clientVars, vars
  <2>6. CASE UpstreamClosed
    <3>1. Life!Close \/ UNCHANGED <<pc, closed, sock>>
      BY <1>2, <2>1, <2>6, LifeCloses DEF UpstreamClosed, Attached
    <3> QED
      BY <3>1, LifeStutters DEF Life!Next
  <2>7. CASE UpstreamError \/ ClientError \/ Shutdown
    <3>1. Life!Close
      BY <1>2, <2>1, <2>7, LifeCloses DEF UpstreamError, Attached, ClientError, Shutdown
    <3> QED
      BY <3>1 DEF Life!Next
  <2>8. CASE PeerCloses
    <3>1. Life!PeerCloses
      BY <2>8 DEF PeerCloses, startVars, Life!PeerCloses
    <3> QED
      BY <3>1 DEF Life!Next
  <2>9. CASE SocketCloses
    <3>1. Life!SocketCloses
      BY <2>1, <2>9 DEF SocketCloses, Bound, CloseSession, Life!SocketCloses
    <3> QED
      BY <3>1 DEF Life!Next
  <2> QED
    BY <1>2, <2>2, <2>3, <2>4, <2>5, <2>6, <2>7, <2>8, <2>9 DEF Next, Start, Provider, Client
<1> QED
  BY <1>1, <1>2, Invariance, PTL DEF Spec, ImplementsLife, Life!Spec

=============================================================================
