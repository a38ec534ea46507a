--------------------------- MODULE AdmissionProofs ---------------------------
(***************************************************************************)
(* Proofs about Admission, for every number of connections and subjects,   *)
(* every rate and quota: types, the quota as far as the code keeps it, the *)
(* registry, the gauge, and the life of each connection.                   *)
(*                                                                         *)
(* The invariant AInv adds to the properties the shape of a connection     *)
(* (what `pc', `closed', the socket and the subject say together), and     *)
(* counts a subject's sockets in both directions: `active' is at most the  *)
(* sockets that were charged, and at least those that live, less one for   *)
(* each start that failed.                                                 *)
(***************************************************************************)
EXTENDS Admission, FiniteSetTheorems, TLAPS

Shape(c) ==
    /\ closed[c] => pc[c] # "none" /\ sock[c] \in {"closing", "closed"}
    /\ pc[c] = "failed" => closed[c]
    /\ pc[c] # "none" => sock[c] \in {"open", "closing", "closed"}
    /\ c \in WsConns /\ Live(c) => pc[c] # "none" /\ subject[c] \in Subjects
    /\ c \in RtcConns => subject[c] = Nobody
    /\ c \in sessions => pc[c] # "none"

\* The sockets a subject has been charged for and not yet given back.
Charged(s) ==
    {c \in Conns : sock[c] \in {"open", "closing", "lost"} /\ subject[c] = s}

ChargedCovers == \A s \in Subjects : active[s] <= Cardinality(Charged(s))

HoldersCovered ==
    \A s \in Subjects :
        Cardinality(Holders(s)) <= active[s] + Cardinality(Failures(s))

AInv ==
    /\ TypeOK
    /\ \A c \in Conns : Shape(c)
    /\ ChargedCovers
    /\ HoldersCovered

-----------------------------------------------------------------------------
(* Finite sets of connections *)

LEMMA ConnsFinite == AdmissionAssumption => IsFiniteSet(Conns)
  BY FS_Union DEF AdmissionAssumption, Conns

LEMMA CountType ==
  ASSUME AdmissionAssumption, NEW C \in SUBSET Conns
  PROVE  IsFiniteSet(C) /\ Cardinality(C) \in Nat
  BY ConnsFinite, FS_Subset, FS_CardinalityType

LEMMA CountAdd ==
  ASSUME AdmissionAssumption, NEW C \in SUBSET Conns, NEW c \in Conns, c \notin C
  PROVE  Cardinality(C \cup {c}) = Cardinality(C) + 1
  BY CountType, FS_AddElement

LEMMA CountRemove ==
  ASSUME AdmissionAssumption, NEW C \in SUBSET Conns, NEW c \in C
  PROVE  Cardinality(C \ {c}) = Cardinality(C) - 1
  BY CountType, FS_RemoveElement

LEMMA CountSubset ==
  ASSUME AdmissionAssumption, NEW C \in SUBSET Conns, NEW D \in SUBSET C
  PROVE  Cardinality(D) <= Cardinality(C)
  BY CountType, FS_Subset

\* The connections in `charged' are those that live and those that are lost.
LEMMA ChargedSplits ==
  ASSUME AdmissionAssumption, NEW s \in Subjects
  PROVE  Cardinality(Charged(s)) = Cardinality(Holders(s)) + Cardinality(Lost(s))
<1>1. /\ Charged(s) = Holders(s) \cup Lost(s)
      /\ Holders(s) \cap Lost(s) = {}
      /\ Holders(s) \in SUBSET Conns /\ Lost(s) \in SUBSET Conns
  BY DEF Charged, Holders, Lost, Live
<1>2. /\ Cardinality(Holders(s) \cup Lost(s)) =
            Cardinality(Holders(s)) + Cardinality(Lost(s)) - Cardinality({})
      /\ Cardinality(Holders(s)) \in Nat /\ Cardinality(Lost(s)) \in Nat
  BY <1>1, CountType, FS_Union
<1> QED
  BY <1>1, <1>2, FS_EmptySet

-----------------------------------------------------------------------------
(* The quota, step by step *)

\* A step that moves nobody in or out of the counted sets and takes or gives
\* no slot.
LEMMA QuotaRests ==
  ASSUME ChargedCovers, HoldersCovered, UNCHANGED active,
         \A s \in Subjects : /\ Charged(s)' = Charged(s)
                             /\ Holders(s)' = Holders(s)
                             /\ Failures(s)' = Failures(s)
  PROVE  ChargedCovers' /\ HoldersCovered'
  BY DEF ChargedCovers, HoldersCovered

\* An upgrade that is let through, whether it then gets its connection or not.
LEMMA QuotaTaken ==
  ASSUME AdmissionAssumption, AInv, NEW c \in WsConns, NEW s \in Subjects,
         UpgradeAccepted(c, s) \/ UpgradeLost(c, s)
  PROVE  ChargedCovers' /\ HoldersCovered'
<1>1. /\ c \in Conns /\ sock[c] = "none" /\ pc[c] = "none"
      /\ active' = [active EXCEPT ![s] = @ + 1] /\ active[s] \in Nat
      /\ \/ sock' = [sock EXCEPT ![c] = "open"]
         \/ sock' = [sock EXCEPT ![c] = "lost"]
      /\ subject' = [subject EXCEPT ![c] = s]
      /\ pc' \in [Conns -> {"none", "plugins", "connecting", "ready", "failed"}]
      /\ \A d \in Conns : pc'[d] = "failed" <=> pc[d] = "failed"
  <2>1. /\ c \in Conns /\ sock[c] = "none" /\ pc[c] = "none"
        /\ active[s] \in Nat
    <3>1. c \in Conns /\ sock[c] = "none"
      BY DEF UpgradeAccepted, UpgradeLost, Upgradable, Conns
    <3>2. Shape(c) /\ TypeOK
      BY <3>1 DEF AInv
    <3> QED
      BY <3>1, <3>2 DEF Shape, TypeOK
  <2>2. /\ active' = [active EXCEPT ![s] = @ + 1]
        /\ \/ sock' = [sock EXCEPT ![c] = "open"]
           \/ sock' = [sock EXCEPT ![c] = "lost"]
        /\ subject' = [subject EXCEPT ![c] = s]
        /\ pc' = [pc EXCEPT ![c] = FirstAwait] \/ pc' = pc
    BY DEF UpgradeAccepted, UpgradeLost, Admitted
  <2> QED
    BY <2>1, <2>2 DEF AInv, TypeOK, ConnTypeOK, FirstAwait
<1>2. ASSUME NEW t \in Subjects
      PROVE  /\ active'[t] <= Cardinality(Charged(t)')
             /\ Cardinality(Holders(t)') <= active'[t] + Cardinality(Failures(t)')
  <2>1. /\ Charged(t) \in SUBSET Conns /\ Charged(t)' \in SUBSET Conns
        /\ Holders(t) \in SUBSET Conns /\ Holders(t)' \in SUBSET Conns
        /\ Failures(t) \in SUBSET Conns
        /\ c \notin Charged(t) /\ c \notin Holders(t) /\ c \notin Failures(t)
    BY <1>1 DEF Charged, Holders, Failures, Live
  <2>2. /\ Cardinality(Charged(t)) \in Nat /\ Cardinality(Holders(t)) \in Nat
        /\ Cardinality(Failures(t)) \in Nat
        /\ active[t] \in Nat
        /\ active[t] <= Cardinality(Charged(t))
        /\ Cardinality(Holders(t)) <= active[t] + Cardinality(Failures(t))
    BY <2>1, CountType DEF AInv, TypeOK, ConnTypeOK, ChargedCovers, HoldersCovered
  <2>3. CASE t = s
    <3>1. /\ Charged(t)' = Charged(t) \cup {c}
          /\ Holders(t)' \subseteq Holders(t) \cup {c}
          /\ Failures(t)' = Failures(t) \/ Failures(t)' = Failures(t) \cup {c}
      BY <1>1, <2>3 DEF AInv, TypeOK, ConnTypeOK, Charged, Holders, Failures, Live
    <3>2. Failures(t)' = Failures(t)
      BY <1>1, <2>1, <2>3, <3>1 DEF Failures
    <3>3. /\ Cardinality(Charged(t)') = Cardinality(Charged(t)) + 1
          /\ Cardinality(Holders(t)') <= Cardinality(Holders(t)) + 1
          /\ Cardinality(Holders(t)') \in Nat
      <4>1. /\ Cardinality(Holders(t) \cup {c}) = Cardinality(Holders(t)) + 1
            /\ Holders(t) \cup {c} \in SUBSET Conns
        BY <1>1, <2>1, CountAdd
      <4>2. Cardinality(Holders(t)') <= Cardinality(Holders(t) \cup {c})
        BY <3>1, <4>1, CountSubset
      <4> QED
        BY <1>1, <2>1, <3>1, <4>1, <4>2, CountAdd, CountType
    <3>4. active'[t] = active[t] + 1
      BY <1>1, <2>3 DEF AInv, TypeOK, ConnTypeOK
    <3> QED
      BY <2>2, <3>2, <3>3, <3>4
  <2>4. CASE t # s
    <3>1. /\ Charged(t)' = Charged(t) /\ Holders(t)' = Holders(t)
          /\ Failures(t)' = Failures(t) /\ active'[t] = active[t]
      BY <1>1, <2>1, <2>4 DEF AInv, TypeOK, ConnTypeOK, Charged, Holders, Failures, Live
    <3> QED
      BY <2>2, <3>1
  <2> QED
    BY <2>3, <2>4
<1> QED
  BY <1>2 DEF ChargedCovers, HoldersCovered

\* What release() does to a count.
LEMMA ReleaseCount ==
  ASSUME AdmissionAssumption, AInv, NEW c \in Conns, Release(c), NEW t \in Subjects
  PROVE  /\ active'[t] \in Nat /\ active'[t] <= active[t]
         /\ active'[t] >= active[t] - 1
         /\ active[t] > 0 /\ subject[c] = t => active'[t] = active[t] - 1
         /\ subject[c] # t => active'[t] = active[t]
  BY DEF AInv, TypeOK, ConnTypeOK, Release

\* A start that fails gives a slot back and keeps its socket for the moment.
LEMMA QuotaOnFailure ==
  ASSUME AdmissionAssumption, AInv, NEW c \in Conns, StartRejected(c)
  PROVE  ChargedCovers' /\ HoldersCovered'
<1>1. ASSUME NEW t \in Subjects
      PROVE  /\ active'[t] <= Cardinality(Charged(t)')
             /\ Cardinality(Holders(t)') <= active'[t] + Cardinality(Failures(t)')
  <2>1. /\ Charged(t)' = Charged(t) /\ Holders(t)' = Holders(t)
        /\ Failures(t)' = IF subject[c] = t THEN Failures(t) \cup {c} ELSE Failures(t)
        /\ Failures(t) \in SUBSET Conns /\ c \notin Failures(t)
        /\ Charged(t) \in SUBSET Conns /\ Holders(t) \in SUBSET Conns
    <3>1. /\ sock' \in [Conns -> {"none", "open", "closing", "closed", "lost"}]
          /\ \A d \in Conns : \/ sock'[d] = sock[d]
                              \/ sock[d] = "open" /\ sock'[d] = "closing"
      BY DEF AInv, TypeOK, ConnTypeOK, StartRejected, Ended
    <3>2. subject' = subject /\ pc' = [pc EXCEPT ![c] = "failed"]
          /\ pc[c] # "failed" /\ pc \in [Conns -> {"none", "plugins", "connecting", "ready", "failed"}]
      BY DEF AInv, TypeOK, ConnTypeOK, StartRejected
    <3>3. Charged(t)' = Charged(t) /\ Holders(t)' = Holders(t)
      BY <3>1, <3>2 DEF Charged, Holders, Live
    <3>4. Failures(t)' = IF subject[c] = t THEN Failures(t) \cup {c} ELSE Failures(t)
      BY <3>2 DEF Failures
    <3> QED
      BY <3>2, <3>3, <3>4 DEF Charged, Holders, Failures
  <2>2. /\ Cardinality(Charged(t)) \in Nat /\ Cardinality(Holders(t)) \in Nat
        /\ Cardinality(Failures(t)) \in Nat
        /\ active[t] \in Nat
        /\ active[t] <= Cardinality(Charged(t))
        /\ Cardinality(Holders(t)) <= active[t] + Cardinality(Failures(t))
    BY <2>1, CountType DEF AInv, TypeOK, ConnTypeOK, ChargedCovers, HoldersCovered
  <2>3. subject[c] = t => Cardinality(Failures(t)') = Cardinality(Failures(t)) + 1
    BY <2>1, CountAdd
  <2>4. CASE c \in WsConns
    <3>1. Release(c)
      BY <2>4 DEF StartRejected, Forget
    <3> QED
      BY <2>1, <2>2, <2>3, <3>1, ReleaseCount
  <2>5. CASE c \notin WsConns
    <3>1. active' = active /\ subject[c] = Nobody
      BY <2>5 DEF StartRejected, Forget, AInv, Shape, Conns
    <3> QED
      BY <2>1, <2>2, <3>1 DEF AdmissionAssumption
  <2> QED
    BY <2>4, <2>5
<1> QED
  BY <1>1 DEF ChargedCovers, HoldersCovered

\* A socket that closes gives its slot back.
LEMMA QuotaOnClose ==
  ASSUME AdmissionAssumption, AInv, NEW c \in Conns, SocketCloses(c)
  PROVE  ChargedCovers' /\ HoldersCovered'
<1>1. ASSUME NEW t \in Subjects
      PROVE  /\ active'[t] <= Cardinality(Charged(t)')
             /\ Cardinality(Holders(t)') <= active'[t] + Cardinality(Failures(t)')
  <2>1. /\ Charged(t)' = Charged(t) \ {c} /\ Holders(t)' = Holders(t) \ {c}
        /\ Failures(t)' = Failures(t)
        /\ subject[c] = t => c \in Charged(t) /\ c \in Holders(t)
        /\ subject[c] # t => c \notin Charged(t) /\ c \notin Holders(t)
        /\ Charged(t) \in SUBSET Conns /\ Holders(t) \in SUBSET Conns
        /\ Failures(t) \in SUBSET Conns
    BY DEF AInv, TypeOK, ConnTypeOK, SocketCloses, Live, Charged, Holders, Failures
  <2>2. /\ Cardinality(Charged(t)) \in Nat /\ Cardinality(Holders(t)) \in Nat
        /\ Cardinality(Failures(t)) \in Nat
        /\ active[t] \in Nat
        /\ active[t] <= Cardinality(Charged(t))
        /\ Cardinality(Holders(t)) <= active[t] + Cardinality(Failures(t))
    BY <2>1, CountType DEF AInv, TypeOK, ConnTypeOK, ChargedCovers, HoldersCovered
  <2>3. CASE subject[c] = t
    <3>1. c \in WsConns /\ pc[c] # "none"
      BY <2>3 DEF AInv, Shape, SocketCloses, Conns, AdmissionAssumption
    <3>2. Release(c)
      BY <3>1 DEF SocketCloses, Forget
    <3>3. /\ Cardinality(Charged(t)') = Cardinality(Charged(t)) - 1
          /\ Cardinality(Holders(t)') = Cardinality(Holders(t)) - 1
      BY <2>1, <2>3, CountRemove
    <3>4. Cardinality(Charged(t)') \in Nat
      BY <2>1, CountType
    <3>5. active[t] = 0 => active'[t] = 0
      BY <2>2, <3>2, ReleaseCount
    <3> QED
      BY <2>1, <2>2, <2>3, <3>2, <3>3, <3>4, <3>5, ReleaseCount
  <2>4. CASE subject[c] # t
    <3>1. Charged(t)' = Charged(t) /\ Holders(t)' = Holders(t)
      BY <2>1, <2>4
    <3>2. active'[t] = active[t]
      BY <2>4, ReleaseCount DEF SocketCloses, Forget
    <3> QED
      BY <2>1, <2>2, <3>1, <3>2
  <2> QED
    BY <2>3, <2>4
<1> QED
  BY <1>1 DEF ChargedCovers, HoldersCovered

-----------------------------------------------------------------------------
(* The invariant *)

LEMMA InitAInv == AdmissionAssumption /\ Init => AInv
<1> SUFFICES ASSUME AdmissionAssumption, Init PROVE AInv
  OBVIOUS
<1>1. TypeOK
  BY DEF AdmissionAssumption, Init, TypeOK, ConnTypeOK, RateTypeOK
<1>2. \A c \in Conns : Shape(c)
  BY DEF Init, Shape, Live
<1>3. ASSUME NEW s \in Subjects
      PROVE  /\ active[s] <= Cardinality(Charged(s))
             /\ Cardinality(Holders(s)) <= active[s] + Cardinality(Failures(s))
  <2>1. Charged(s) \in SUBSET Conns /\ Failures(s) \in SUBSET Conns
    BY DEF Charged, Failures
  <2>2. Cardinality(Charged(s)) \in Nat /\ Cardinality(Failures(s)) \in Nat
    BY <2>1, CountType
  <2>3. active[s] = 0 /\ Holders(s) = {}
    BY DEF Init, Holders, Live
  <2> QED
    BY <2>2, <2>3, FS_EmptySet
<1> QED
  BY <1>1, <1>2, <1>3 DEF AInv, ChargedCovers, HoldersCovered

\* Attempts are counted within the types.
LEMMA ChargeTypes ==
  ASSUME AdmissionAssumption, RateTypeOK, NEW s \in Subjects, Charge(s)
  PROVE  hits' \in [Subjects -> Nat] /\ age' \in [Subjects -> 0..(Window + 1)]
<1>1. Count(s) \in Nat
  BY DEF RateTypeOK, Count
<1> QED
  BY <1>1 DEF AdmissionAssumption, RateTypeOK, Charge

LEMMA AdmittedTypes ==
  ASSUME AdmissionAssumption, TypeOK, NEW c \in Conns, NEW s \in Subjects, Admitted(c, s)
  PROVE  RateTypeOK' /\ active' \in [Subjects -> 0..MaxSessions]
<1>1. active' \in [Subjects -> 0..MaxSessions]
  BY DEF TypeOK, Admitted, QuotaAllows, AdmissionAssumption
<1>2. since' \in [Conns -> 0..(Window + 1)]
  BY DEF Admitted, TypeOK, RateTypeOK, AdmissionAssumption
<1> QED
  BY <1>1, <1>2, ChargeTypes DEF TypeOK, Admitted, RateTypeOK

\* Forgetting a session keeps the types of what it touches.
LEMMA ForgetTypes ==
  ASSUME AdmissionAssumption, TypeOK, NEW c \in Conns, Forget(c)
  PROVE  /\ active' \in [Subjects -> 0..MaxSessions]
         /\ sessions' \in SUBSET Conns /\ sessions' = sessions \ {c} /\ gauge' \in Nat
<1>1. sessions' \in SUBSET Conns /\ sessions' = sessions \ {c}
  BY DEF TypeOK, Forget
<1>2. Cardinality(sessions') \in Nat
  BY <1>1, CountType
<1>3. active' \in [Subjects -> 0..MaxSessions]
  BY DEF TypeOK, Forget, Release, AdmissionAssumption
<1> QED
  BY <1>1, <1>2, <1>3 DEF TypeOK, Forget

\* Types and shapes are kept by what upgrades and offers do ...
LEMMA AdmitKeepsShape ==
  ASSUME AdmissionAssumption, AInv, Admit
  PROVE  TypeOK' /\ \A c \in Conns : Shape(c)'
<1> USE DEF AInv
<1>1. CASE Tick
  <2>1. RateTypeOK'
    BY <1>1 DEF TypeOK, RateTypeOK, Tick, AdmissionAssumption
  <2> QED
    BY <1>1, <2>1 DEF TypeOK, ConnTypeOK, Tick, Shape, Live
<1>2. ASSUME NEW c \in WsConns, NEW s \in Subjects, UpgradeRefused(c, s)
      PROVE  TypeOK' /\ \A d \in Conns : Shape(d)'
  <2>1. RateTypeOK'
    BY <1>2, ChargeTypes DEF TypeOK, RateTypeOK, UpgradeRefused
  <2> QED
    BY <1>2, <2>1 DEF TypeOK, ConnTypeOK, UpgradeRefused, Shape, Live
<1>3. ASSUME NEW c \in WsConns, NEW s \in Subjects,
             UpgradeAccepted(c, s) \/ UpgradeLost(c, s)
      PROVE  TypeOK' /\ \A d \in Conns : Shape(d)'
  <2>1. c \in Conns /\ c \notin RtcConns /\ s # Nobody
    BY DEF Conns, AdmissionAssumption
  <2>2. RateTypeOK' /\ active' \in [Subjects -> 0..MaxSessions]
    BY <1>3, <2>1, AdmittedTypes DEF UpgradeAccepted, UpgradeLost
  <2>3. sessions' \in SUBSET Conns
    BY <1>3, <2>1 DEF TypeOK, UpgradeAccepted, UpgradeLost
  <2>4. gauge' \in Nat
    BY <1>3, <2>3, CountType DEF TypeOK, UpgradeAccepted, UpgradeLost
  <2>5. /\ app' = app /\ closed' = closed
        /\ subject' = [subject EXCEPT ![c] = s]
        /\ \/ /\ sock' = [sock EXCEPT ![c] = "open"]
              /\ pc' = [pc EXCEPT ![c] = FirstAwait]
              /\ sessions' = sessions \cup {c}
           \/ /\ sock' = [sock EXCEPT ![c] = "lost"]
              /\ pc' = pc /\ sessions' = sessions
        /\ FirstAwait \in {"plugins", "connecting"}
        /\ sock[c] = "none"
    BY <1>3 DEF UpgradeAccepted, UpgradeLost, Upgradable, FirstAwait
  <2>6. ConnTypeOK'
    BY <2>1, <2>5 DEF TypeOK, ConnTypeOK
  <2>7. TypeOK'
    BY <2>2, <2>3, <2>4, <2>5, <2>6 DEF TypeOK
  <2>8. ASSUME NEW d \in Conns PROVE Shape(d)'
    <3>1. Shape(d) /\ Shape(c)
      BY <2>1
    <3>2. CASE d = c
      BY <2>1, <2>5, <3>1, <3>2 DEF TypeOK, ConnTypeOK, Shape, Live
    <3>3. CASE d # c
      BY <2>1, <2>5, <3>1, <3>3 DEF TypeOK, ConnTypeOK, Shape, Live
    <3> QED
      BY <3>2, <3>3
  <2> QED
    BY <2>7, <2>8
<1>4. ASSUME NEW c \in RtcConns, RtcUpgraded(c) \/ RtcOffer(c)
      PROVE  TypeOK' /\ \A d \in Conns : Shape(d)'
  <2>1. c \in Conns /\ c \notin WsConns
    BY DEF Conns, AdmissionAssumption
  <2>2. TypeOK'
    BY <1>4, <2>1 DEF TypeOK, RateTypeOK, ConnTypeOK, RtcUpgraded, RtcOffer, FirstAwait,
       rate, tracker
  <2>3. ASSUME NEW d \in Conns PROVE Shape(d)'
    BY <1>4, <2>1, <2>3 DEF TypeOK, ConnTypeOK, RtcUpgraded, RtcOffer, FirstAwait, Shape, Live
  <2> QED
    BY <2>2, <2>3
<1> QED
  BY <1>1, <1>2, <1>3, <1>4 DEF Admit

\* ... by what the sessions and their sockets do ...
LEMMA SessionKeepsShape ==
  ASSUME AdmissionAssumption, AInv, Session
  PROVE  TypeOK' /\ \A c \in Conns : Shape(c)'
<1> USE DEF AInv, rate, tracker
<1>1. PICK c \in Conns :
        PluginsStarted(c) \/ Connected(c) \/ StartRejected(c) \/ SessionCloses(c)
        \/ PeerCloses(c) \/ SocketCloses(c)
  BY DEF Session
<1>2. RateTypeOK' /\ app' = app
  BY <1>1 DEF TypeOK, RateTypeOK, PluginsStarted, Connected, StartRejected, SessionCloses,
     PeerCloses, SocketCloses
<1>3. ConnTypeOK'
  BY <1>1 DEF TypeOK, ConnTypeOK, PluginsStarted, Connected, StartRejected, SessionCloses,
     PeerCloses, SocketCloses, Ended
<1>4. /\ active' \in [Subjects -> 0..MaxSessions]
      /\ sessions' \in SUBSET Conns /\ gauge' \in Nat
  BY <1>1, ForgetTypes DEF TypeOK, PluginsStarted, Connected, StartRejected, SessionCloses,
     PeerCloses, SocketCloses
<1>5. ASSUME NEW d \in Conns PROVE Shape(d)'
  <2>1. Shape(d) /\ ConnTypeOK
    BY DEF TypeOK
  <2>2. CASE PluginsStarted(c) \/ Connected(c)
    BY <2>1, <2>2 DEF ConnTypeOK, PluginsStarted, Connected, Shape, Live
  <2>3. CASE StartRejected(c)
    BY <2>1, <2>3 DEF ConnTypeOK, StartRejected, Forget, Ended, Shape, Live
  <2>4. CASE SessionCloses(c) \/ PeerCloses(c)
    BY <2>1, <2>4 DEF ConnTypeOK, SessionCloses, PeerCloses, Bound, Ended, Shape, Live
  <2>5. CASE SocketCloses(c)
    BY <2>1, <2>5 DEF ConnTypeOK, SocketCloses, Forget, Bound, Shape, Live
  <2> QED
    BY <1>1, <2>2, <2>3, <2>4, <2>5
<1> QED
  BY <1>2, <1>3, <1>4, <1>5 DEF TypeOK

\* ... and by a shutdown.
LEMMA StopKeepsShape ==
  ASSUME AdmissionAssumption, AInv, Stop
  PROVE  TypeOK' /\ \A c \in Conns : Shape(c)'
<1> USE DEF AInv, rate, tracker
<1>1. CASE WssClosed \/ ServerClosed \/ ForcedExit
  BY <1>1 DEF TypeOK, RateTypeOK, ConnTypeOK, WssClosed, ServerClosed, ForcedExit, Shape, Live
<1>2. CASE Shutdown
  <2>1. TypeOK'
    BY <1>2 DEF TypeOK, RateTypeOK, ConnTypeOK, Shutdown, Ended
  <2>2. ASSUME NEW c \in Conns PROVE Shape(c)'
    BY <1>2, <2>2 DEF TypeOK, ConnTypeOK, Shutdown, Ended, Shape, Live
  <2> QED
    BY <2>1, <2>2
<1> QED
  BY <1>1, <1>2 DEF Stop

\* The steps that neither take a slot nor give one.
LEMMA QuotaElsewhere ==
  ASSUME AdmissionAssumption, AInv,
         \/ Tick \/ Stop
         \/ \E c \in WsConns, s \in Subjects : UpgradeRefused(c, s)
         \/ \E c \in RtcConns : RtcUpgraded(c) \/ RtcOffer(c)
         \/ \E c \in Conns : PluginsStarted(c) \/ Connected(c) \/ SessionCloses(c)
                             \/ PeerCloses(c)
  PROVE  ChargedCovers' /\ HoldersCovered'
<1> USE DEF rate, tracker
<1>1. UNCHANGED <<active, subject>>
  BY DEF Tick, Stop, Shutdown, WssClosed, ServerClosed, ForcedExit, UpgradeRefused,
     RtcUpgraded, RtcOffer, PluginsStarted, Connected, SessionCloses, PeerCloses
<1>2. ASSUME NEW d \in Conns, subject[d] # Nobody
      PROVE  /\ \/ sock'[d] = sock[d]
                \/ sock[d] = "open" /\ sock'[d] = "closing"
             /\ pc'[d] = "failed" <=> pc[d] = "failed"
  <2>1. ConnTypeOK /\ Shape(d)
    BY DEF AInv, TypeOK
  <2>2. ASSUME NEW c \in RtcConns, RtcUpgraded(c) \/ RtcOffer(c)
        PROVE  d # c
    BY <1>2, <2>2 DEF AInv, Shape, Conns
  <2>3. CASE \E c \in RtcConns : RtcUpgraded(c) \/ RtcOffer(c)
    BY <1>2, <2>1, <2>2, <2>3 DEF ConnTypeOK, RtcUpgraded, RtcOffer
  <2>4. CASE Tick \/ \E c \in WsConns, s \in Subjects : UpgradeRefused(c, s)
    BY <2>4 DEF Tick, UpgradeRefused
  <2>5. CASE Stop
    BY <2>1, <2>5 DEF ConnTypeOK, Stop, Shutdown, WssClosed, ServerClosed, ForcedExit, Ended
  <2>6. CASE \E c \in Conns : PluginsStarted(c) \/ Connected(c) \/ SessionCloses(c)
                              \/ PeerCloses(c)
    BY <2>1, <2>6 DEF ConnTypeOK, PluginsStarted, Connected, SessionCloses, PeerCloses, Ended
  <2> QED
    BY <2>3, <2>4, <2>5, <2>6
<1>3. ASSUME NEW s \in Subjects
      PROVE  /\ Charged(s)' = Charged(s) /\ Holders(s)' = Holders(s)
             /\ Failures(s)' = Failures(s)
  <2>1. s # Nobody
    BY DEF AdmissionAssumption
  <2> QED
    BY <1>1, <1>2, <2>1 DEF Charged, Holders, Failures, Live
<1> QED
  BY <1>1, <1>3, QuotaRests DEF AInv

THEOREM Invariance == Spec => []AInv
<1>1. Init => AInv
  BY AdmissionAssumption, InitAInv
<1>2. AInv /\ [Next]_vars => AInv'
  <2> SUFFICES ASSUME AInv, [Next]_vars PROVE AInv'
    OBVIOUS
  <2> USE AdmissionAssumption
  <2>1. CASE Admit
    <3>1. TypeOK' /\ \A c \in Conns : Shape(c)'
      BY <2>1, AdmitKeepsShape
    <3>2. ChargedCovers' /\ HoldersCovered'
      BY <2>1, QuotaTaken, QuotaElsewhere DEF Admit
    <3> QED
      BY <3>1, <3>2 DEF AInv
  <2>2. CASE Session
    <3>1. TypeOK' /\ \A c \in Conns : Shape(c)'
      BY <2>2, SessionKeepsShape
    <3>2. ChargedCovers' /\ HoldersCovered'
      BY <2>2, QuotaOnFailure, QuotaOnClose, QuotaElsewhere DEF Session
    <3> QED
      BY <3>1, <3>2 DEF AInv
  <2>3. CASE Stop
    BY <2>3, StopKeepsShape, QuotaElsewhere DEF AInv
  <2>4. CASE UNCHANGED vars
    <3> USE <2>4 DEF vars, tracker, rate
    <3>1. TypeOK'
      BY DEF AInv, TypeOK, RateTypeOK, ConnTypeOK
    <3>2. \A c \in Conns : Shape(c)'
      BY DEF AInv, Shape, Live
    <3>3. ChargedCovers' /\ HoldersCovered'
      BY QuotaRests DEF AInv, Charged, Holders, Failures, Live
    <3> QED
      BY <3>1, <3>2, <3>3 DEF AInv
  <2> QED
    BY <2>1, <2>2, <2>3, <2>4 DEF Next
<1> QED
  BY <1>1, <1>2, PTL DEF Spec

-----------------------------------------------------------------------------
(* The rate *)

\* The upgrades let through by the bucket the tracker holds now ...
InBucket(s) == {c \in Recent(s) : since[c] <= age[s]}

\* ... and those the window of Recent still sees of the bucket before it.
Before(s) == Recent(s) \ InBucket(s)

\* Each bucket lets the rate through.  There are not three of them in a window:
\* a bucket is replaced when it is older than that, by the first attempt, so
\* that nobody is let through between its end and the next one's beginning.
SubjectRate(s) ==
    /\ hits[s] = 0 => Recent(s) = {}
    /\ Cardinality(InBucket(s)) <= hits[s]
    /\ Cardinality(InBucket(s)) <= RatePerMinute
    /\ Cardinality(Before(s)) <= RatePerMinute
    /\ age[s] > Window => \A c \in Recent(s) : since[c] > 0

RateInv == \A s \in Subjects : SubjectRate(s)

\* A bucket that loses upgrades keeps the bound.
LEMMA RateShrinks ==
  ASSUME AdmissionAssumption, RateTypeOK, NEW s \in Subjects, SubjectRate(s),
         hits'[s] = hits[s], Recent(s)' \subseteq Recent(s),
         InBucket(s)' \subseteq InBucket(s), Before(s)' \subseteq Before(s),
         age'[s] > Window => \A c \in Recent(s)' : since'[c] > 0
  PROVE  SubjectRate(s)'
<1>1. InBucket(s) \in SUBSET Conns /\ Before(s) \in SUBSET Conns
  BY DEF InBucket, Before, Recent
<1>2. /\ Cardinality(InBucket(s)') <= Cardinality(InBucket(s))
      /\ Cardinality(Before(s)') <= Cardinality(Before(s))
      /\ Cardinality(InBucket(s)) \in Nat /\ Cardinality(Before(s)) \in Nat
      /\ Cardinality(InBucket(s)') \in Nat /\ Cardinality(Before(s)') \in Nat
  BY <1>1, CountSubset, CountType
<1> QED
  BY <1>2 DEF SubjectRate, RateTypeOK, AdmissionAssumption

\* Time ages the bucket and the upgrades alike.
LEMMA RateTicks ==
  ASSUME AdmissionAssumption, RateTypeOK, NEW s \in Subjects, SubjectRate(s), Tick
  PROVE  SubjectRate(s)'
<1>1. /\ hits'[s] = hits[s] /\ subject' = subject
      /\ age'[s] = IF hits[s] > 0 /\ age[s] <= Window THEN age[s] + 1 ELSE age[s]
      /\ \A c \in Conns :
            /\ since[c] \in 0..(Window + 1)
            /\ since'[c] = IF since[c] <= Window THEN since[c] + 1 ELSE since[c]
      /\ age[s] \in 0..(Window + 1) /\ Window \in Nat /\ hits[s] \in Nat
  BY DEF Tick, RateTypeOK, AdmissionAssumption
<1>2. Recent(s)' \subseteq Recent(s) /\ \A c \in Recent(s)' : since'[c] > 0
  BY <1>1 DEF Recent
<1>3. CASE hits[s] = 0
  <2>1. Recent(s) = {} /\ Recent(s)' = {}
    BY <1>2, <1>3 DEF SubjectRate
  <2> QED
    BY <1>1, <1>2, <2>1, RateShrinks DEF InBucket, Before
<1>4. CASE hits[s] > 0
  <2>1. InBucket(s)' \subseteq InBucket(s) /\ Before(s)' \subseteq Before(s)
    BY <1>1, <1>2, <1>4 DEF InBucket, Before, Recent
  <2> QED
    BY <1>1, <1>2, <2>1, RateShrinks
<1> QED
  BY <1>1, <1>3, <1>4

\* What an attempt does to the bucket of its subject.
LEMMA ChargeCount ==
  ASSUME AdmissionAssumption, RateTypeOK, NEW s \in Subjects, Charge(s)
  PROVE  /\ hits'[s] = Count(s) /\ hits'[s] \in Nat /\ hits'[s] > 0
         /\ ~Fresh(s) => hits'[s] = hits[s] + 1 /\ age'[s] = age[s]
         /\ Fresh(s) => hits'[s] = 1 /\ age'[s] = 0
         /\ \A t \in Subjects : t # s => hits'[t] = hits[t] /\ age'[t] = age[t]
  BY DEF RateTypeOK, Charge, Count, Fresh, AdmissionAssumption

\* An attempt that finds no bucket, or one that is over, makes the bucket so
\* far the one before it, and whoever is let through starts the next.
LEMMA RateRenews ==
  ASSUME AdmissionAssumption, RateTypeOK, NEW s \in Subjects, SubjectRate(s),
         Fresh(s), Charge(s), NEW c \in Conns,
         \/ UNCHANGED <<since, subject>>
         \/ since' = [since EXCEPT ![c] = 0] /\ subject' = [subject EXCEPT ![c] = s],
         subject \in [Conns -> Subjects \cup {Nobody}]
  PROVE  SubjectRate(s)'
<1>1. hits'[s] = 1 /\ age'[s] = 0 /\ Window \in Nat /\ RatePerMinute \in Nat \ {0}
  BY ChargeCount DEF AdmissionAssumption
<1>2. /\ InBucket(s) \in SUBSET Conns
      /\ InBucket(s)' \subseteq {c}
      /\ Before(s)' \subseteq InBucket(s)
  <2>1. Recent(s) \subseteq InBucket(s)
    BY DEF SubjectRate, Fresh, InBucket, Recent, RateTypeOK, AdmissionAssumption
  <2>2. \A d \in Recent(s) : since[d] > 0
    BY DEF SubjectRate, Fresh
  <2>3. Recent(s)' \subseteq Recent(s) \cup {c}
    BY DEF Recent, RateTypeOK
  <2>4. \A d \in Recent(s)' : d # c => since'[d] = since[d] /\ since[d] > 0
    BY <2>2, <2>3 DEF Recent, RateTypeOK
  <2>5. since' = [since EXCEPT ![c] = 0] => since'[c] <= age'[s]
    BY <1>1 DEF RateTypeOK
  <2>6. \/ Recent(s)' \subseteq Recent(s) /\ \A d \in Recent(s)' : since'[d] > 0
        \/ since' = [since EXCEPT ![c] = 0]
    BY <2>2 DEF Recent
  <2>7. InBucket(s)' \subseteq {c}
    BY <1>1, <2>4 DEF InBucket, Recent, RateTypeOK
  <2>8. Before(s)' \subseteq Recent(s)
    BY <2>3, <2>5, <2>6 DEF Before, InBucket
  <2> QED
    BY <2>1, <2>7, <2>8 DEF InBucket, Recent
<1>3. /\ Cardinality({c}) = 1 /\ Cardinality(InBucket(s)') <= Cardinality({c})
      /\ Cardinality(Before(s)') <= Cardinality(InBucket(s))
      /\ Cardinality(InBucket(s)) <= RatePerMinute
      /\ Cardinality(InBucket(s)) \in Nat /\ Cardinality(InBucket(s)') \in Nat
      /\ Cardinality(Before(s)') \in Nat
  <2>1. {c} \in SUBSET Conns /\ InBucket(s)' \in SUBSET Conns /\ Before(s)' \in SUBSET Conns
    BY <1>2
  <2>2. Cardinality({c}) = 1
    BY FS_Singleton
  <2>3. /\ Cardinality(InBucket(s)') <= Cardinality({c})
        /\ Cardinality(Before(s)') <= Cardinality(InBucket(s))
    BY <1>2, <2>1, CountSubset
  <2> QED
    BY <1>2, <2>1, <2>2, <2>3, CountType DEF SubjectRate
<1> QED
  BY <1>1, <1>3 DEF SubjectRate

\* An attempt on a bucket that is not over: it counts, and is let through while
\* the count is within the rate.
LEMMA RateCharged ==
  ASSUME AdmissionAssumption, RateTypeOK, NEW s \in Subjects, SubjectRate(s),
         ~Fresh(s), Charge(s), NEW c \in Conns,
         \/ UNCHANGED <<since, subject>>
         \/ /\ since' = [since EXCEPT ![c] = 0] /\ subject' = [subject EXCEPT ![c] = s]
            /\ RateAllows(s),
         subject \in [Conns -> Subjects \cup {Nobody}]
  PROVE  SubjectRate(s)'
<1>1. /\ hits'[s] = hits[s] + 1 /\ age'[s] = age[s] /\ hits[s] \in Nat
      /\ age[s] \in 0..Window /\ Window \in Nat /\ RatePerMinute \in Nat \ {0}
  BY ChargeCount DEF AdmissionAssumption, RateTypeOK, Fresh
<1>2. InBucket(s) \in SUBSET Conns /\ Before(s) \in SUBSET Conns
  BY DEF InBucket, Before, Recent
<1>3. /\ Cardinality(InBucket(s)) \in Nat /\ Cardinality(Before(s)) \in Nat
      /\ Cardinality(InBucket(s)) <= hits[s]
      /\ Cardinality(InBucket(s)) <= RatePerMinute
      /\ Cardinality(Before(s)) <= RatePerMinute
  BY <1>2, CountType DEF SubjectRate
<1>4. CASE UNCHANGED <<since, subject>>
  <2>1. InBucket(s)' = InBucket(s) /\ Before(s)' = Before(s)
    BY <1>1, <1>4 DEF InBucket, Before, Recent
  <2> QED
    BY <1>1, <1>3, <2>1 DEF SubjectRate
<1>5. CASE /\ since' = [since EXCEPT ![c] = 0] /\ subject' = [subject EXCEPT ![c] = s]
           /\ RateAllows(s)
  <2>1. InBucket(s)' \subseteq InBucket(s) \cup {c} /\ Before(s)' \subseteq Before(s)
    BY <1>1, <1>5 DEF InBucket, Before, Recent, RateTypeOK
  <2>2. /\ InBucket(s) \cup {c} \in SUBSET Conns
        /\ Cardinality(InBucket(s) \cup {c}) <= Cardinality(InBucket(s)) + 1
        /\ Cardinality(InBucket(s) \cup {c}) \in Nat
    <3>1. CASE c \in InBucket(s)
      <4>1. InBucket(s) \cup {c} = InBucket(s)
        BY <3>1
      <4> QED
        BY <1>2, <1>3, <4>1
    <3>2. CASE c \notin InBucket(s)
      <4>1. Cardinality(InBucket(s) \cup {c}) = Cardinality(InBucket(s)) + 1
        BY <1>2, <3>2, CountAdd
      <4> QED
        BY <1>2, <1>3, <4>1
    <3> QED
      BY <3>1, <3>2
  <2>3. /\ Cardinality(InBucket(s)') <= Cardinality(InBucket(s) \cup {c})
        /\ Cardinality(InBucket(s)') \in Nat
        /\ Cardinality(Before(s)') <= Cardinality(Before(s))
        /\ Cardinality(Before(s)') \in Nat
    BY <1>2, <2>1, <2>2, CountSubset, CountType
  <2>4. hits[s] + 1 <= RatePerMinute
    BY <1>5 DEF RateAllows
  <2> QED
    BY <1>1, <1>3, <2>2, <2>3, <2>4 DEF SubjectRate
<1> QED
  BY <1>4, <1>5

-----------------------------------------------------------------------------
(* The theorems *)

\* The server's state is well typed; in particular no subject is ever charged
\* for more than its quota (auth.ts 28-54).
THEOREM TypeCorrect == Spec => []TypeOK
<1>1. AInv => TypeOK
  BY DEF AInv
<1> QED
  BY <1>1, Invariance, PTL

\* A slot is charged only for a socket that lives, or for an upgrade ws gave
\* up after verifyClient had said yes (auth.ts 28-54, server.ts 144-179).
THEOREM QuotaNeverLeaks == Spec => []QuotaNotLeaked
<1>1. AInv => QuotaNotLeaked
  BY AdmissionAssumption, ChargedSplits DEF AInv, ChargedCovers, QuotaNotLeaked
<1> QED
  BY <1>1, Invariance, PTL

\* However starts fail and sockets close, a subject has no more sockets than
\* its quota and its failed starts together (auth.ts 40-54, server.ts 167-179).
THEOREM QuotaErrorIsBounded == Spec => []QuotaErrorBounded
<1>1. ASSUME AInv, NEW s \in Subjects
      PROVE  Cardinality(Holders(s)) <= MaxSessions + Cardinality(Failures(s))
  <2>1. Holders(s) \in SUBSET Conns /\ Failures(s) \in SUBSET Conns
    BY DEF Holders, Failures
  <2>2. Cardinality(Holders(s)) \in Nat /\ Cardinality(Failures(s)) \in Nat
    BY <2>1, AdmissionAssumption, CountType
  <2>3. active[s] \in 0..MaxSessions /\ MaxSessions \in Nat
    BY <1>1, AdmissionAssumption DEF AInv, TypeOK, AdmissionAssumption
  <2> QED
    BY <1>1, <2>2, <2>3 DEF AInv, HoldersCovered
<1>2. AInv => QuotaErrorBounded
  BY <1>1 DEF QuotaErrorBounded
<1> QED
  BY <1>2, Invariance, PTL

\* The double release of a failed start is the only way past the quota: a
\* subject none of whose starts has failed keeps within it, whatever else its
\* clients and the server do (auth.ts 40-54, server.ts 167-188).
THEOREM QuotaKeptUnlessStartsFail ==
    Spec => [](\A s \in Subjects : Failures(s) = {} => Cardinality(Holders(s)) <= MaxSessions)
<1>1. TypeOK /\ QuotaErrorBounded =>
        \A s \in Subjects : Failures(s) = {} => Cardinality(Holders(s)) <= MaxSessions
  BY AdmissionAssumption, FS_EmptySet DEF AdmissionAssumption, QuotaErrorBounded
<1> QED
  BY <1>1, TypeCorrect, QuotaErrorIsBounded, PTL

\* However attempts are timed, no stretch of a window's length sees more than
\* twice the rate let through (auth.ts 28-45).
THEOREM RateHolds == Spec => []SlidingRate
<1>1. Init => RateInv
  <2> SUFFICES ASSUME Init, NEW s \in Subjects PROVE SubjectRate(s)
    BY DEF RateInv
  <2>1. Window \in Nat /\ RatePerMinute \in Nat
    BY AdmissionAssumption DEF AdmissionAssumption
  <2>2. Recent(s) = {} /\ hits[s] = 0 /\ age[s] = 0
    BY <2>1 DEF Init, Recent
  <2>3. InBucket(s) = {} /\ Before(s) = {} /\ Cardinality({}) = 0
    BY <2>2, FS_EmptySet DEF InBucket, Before
  <2> QED
    BY <2>1, <2>2, <2>3 DEF SubjectRate
<1>2. TypeOK /\ RateInv /\ [Next]_vars => RateInv'
  <2> SUFFICES ASSUME TypeOK, RateInv, [Next]_vars, NEW t \in Subjects
               PROVE  SubjectRate(t)'
    BY DEF RateInv
  <2> USE AdmissionAssumption
  <2>1. /\ RateTypeOK /\ SubjectRate(t)
        /\ subject \in [Conns -> Subjects \cup {Nobody}]
    BY DEF TypeOK, ConnTypeOK, RateInv
  <2>2. ASSUME UNCHANGED <<rate, subject>> PROVE SubjectRate(t)'
    BY <2>1, <2>2 DEF rate, SubjectRate, InBucket, Before, Recent
  <2>3. CASE Tick
    BY <2>1, <2>3, RateTicks
  <2>4. ASSUME NEW c \in WsConns, NEW s \in Subjects,
               UpgradeRefused(c, s) \/ UpgradeAccepted(c, s) \/ UpgradeLost(c, s)
        PROVE  SubjectRate(t)'
    <3>1. /\ c \in Conns /\ Charge(s)
          /\ \/ UNCHANGED <<since, subject>>
             \/ /\ since' = [since EXCEPT ![c] = 0]
                /\ subject' = [subject EXCEPT ![c] = s] /\ RateAllows(s)
      BY <2>4 DEF UpgradeRefused, UpgradeAccepted, UpgradeLost, Admitted, Conns
    <3>2. CASE t = s
      BY <2>1, <3>1, <3>2, RateRenews, RateCharged
    <3>3. CASE t # s
      <4>1. hits'[t] = hits[t] /\ age'[t] = age[t]
        BY <2>1, <3>1, <3>3, ChargeCount
      <4>2. /\ Recent(t)' \subseteq Recent(t)
            /\ \A d \in Recent(t)' : since'[d] = since[d]
        BY <2>1, <3>1, <3>3 DEF Recent, RateTypeOK
      <4>3. InBucket(t)' \subseteq InBucket(t) /\ Before(t)' \subseteq Before(t)
        BY <4>1, <4>2 DEF InBucket, Before
      <4>4. age'[t] > Window => \A d \in Recent(t)' : since'[d] > 0
        BY <2>1, <4>1, <4>2 DEF SubjectRate
      <4> QED
        BY <2>1, <4>1, <4>2, <4>3, <4>4, RateShrinks
    <3> QED
      BY <3>2, <3>3
  <2>5. CASE \/ Session \/ Stop \/ UNCHANGED vars
             \/ \E c \in RtcConns : RtcUpgraded(c) \/ RtcOffer(c)
    BY <2>2, <2>5 DEF Session, PluginsStarted, Connected, StartRejected, SessionCloses,
       PeerCloses, SocketCloses, Stop, Shutdown, WssClosed, ServerClosed, ForcedExit,
       RtcUpgraded, RtcOffer, vars, tracker
  <2> QED
    BY <2>3, <2>4, <2>5 DEF Next, Admit
<1>3. TypeOK /\ RateInv => SlidingRate
  <2> SUFFICES ASSUME TypeOK, RateInv, NEW s \in Subjects
               PROVE  Cardinality(Recent(s)) <= 2 * RatePerMinute
    BY DEF SlidingRate
  <2>1. /\ InBucket(s) \in SUBSET Conns /\ Before(s) \in SUBSET Conns
        /\ Recent(s) = InBucket(s) \cup Before(s) /\ InBucket(s) \cap Before(s) = {}
    BY DEF InBucket, Before, Recent
  <2>2. /\ Cardinality(Recent(s)) =
              Cardinality(InBucket(s)) + Cardinality(Before(s)) - Cardinality({})
        /\ Cardinality(InBucket(s)) \in Nat /\ Cardinality(Before(s)) \in Nat
    BY <2>1, AdmissionAssumption, CountType, FS_Union
  <2>3. /\ Cardinality(InBucket(s)) <= RatePerMinute
        /\ Cardinality(Before(s)) <= RatePerMinute
        /\ RatePerMinute \in Nat /\ Cardinality({}) = 0
    BY AdmissionAssumption, FS_EmptySet DEF AdmissionAssumption, RateInv, SubjectRate
  <2> QED
    BY <2>2, <2>3
<1> QED
  BY <1>1, <1>2, <1>3, TypeCorrect, PTL DEF Spec

\* With plugins that do not suspend a session hears its socket from the start,
\* and none that is open is missing when a shutdown goes through the registry
\* (manager.ts 30-35, server.ts 157-187, ingress.ts 50-79).
THEOREM SessionsKnown == ~AsyncPlugins => (Spec => []OpenSessionsKnown)
<1> SUFFICES ASSUME ~AsyncPlugins PROVE Spec => []OpenSessionsKnown
  OBVIOUS
<1> DEFINE Heard == \A c \in Conns : pc[c] # "plugins"
<1>1. Init => OpenSessionsKnown /\ Heard
  BY DEF Init, OpenSessionsKnown
<1>2. AInv /\ OpenSessionsKnown /\ Heard /\ [Next]_vars => (OpenSessionsKnown /\ Heard)'
  <2> SUFFICES ASSUME AInv, OpenSessionsKnown, Heard, [Next]_vars,
                      NEW d \in Conns
               PROVE  /\ pc'[d] # "plugins"
                      /\ pc'[d] # "none" /\ ~closed'[d] => d \in sessions'
    BY DEF OpenSessionsKnown
  <2>1. ConnTypeOK /\ pc[d] # "plugins" /\ (pc[d] # "none" /\ ~closed[d] => d \in sessions)
    BY DEF AInv, TypeOK, OpenSessionsKnown
  <2>2. CASE Admit
    <3>1. CASE Tick \/ \E c \in WsConns, s \in Subjects :
                         UpgradeRefused(c, s) \/ UpgradeLost(c, s)
      BY <2>1, <3>1 DEF Tick, UpgradeRefused, UpgradeLost
    <3>2. CASE \E c \in WsConns, s \in Subjects : UpgradeAccepted(c, s)
      BY <2>1, <3>2 DEF ConnTypeOK, UpgradeAccepted, FirstAwait, Conns
    <3>3. CASE \E c \in RtcConns : RtcUpgraded(c) \/ RtcOffer(c)
      BY <2>1, <3>3 DEF ConnTypeOK, RtcUpgraded, RtcOffer, FirstAwait, Conns
    <3> QED
      BY <2>2, <3>1, <3>2, <3>3 DEF Admit
  <2>3. CASE Session
    <3>1. PICK c \in Conns :
            PluginsStarted(c) \/ Connected(c) \/ StartRejected(c) \/ SessionCloses(c)
            \/ PeerCloses(c) \/ SocketCloses(c)
      BY <2>3 DEF Session
    <3>2. CASE PluginsStarted(c) \/ Connected(c) \/ SessionCloses(c) \/ PeerCloses(c)
      BY <2>1, <3>2 DEF ConnTypeOK, PluginsStarted, Connected, SessionCloses, PeerCloses
    <3>3. CASE StartRejected(c)
      BY <2>1, <3>3 DEF ConnTypeOK, StartRejected, Forget
    <3>4. CASE SocketCloses(c)
      <4>1. pc[c] = "none" \/ Bound(c)
        BY DEF Bound
      <4> QED
        BY <2>1, <3>4, <4>1 DEF ConnTypeOK, SocketCloses, Forget, Bound
    <3> QED
      BY <3>1, <3>2, <3>3, <3>4
  <2>4. CASE Stop
    BY <2>1, <2>4 DEF ConnTypeOK, Stop, Shutdown, WssClosed, ServerClosed, ForcedExit
  <2>5. CASE UNCHANGED vars
    BY <2>1, <2>5 DEF vars
  <2> QED
    BY <2>2, <2>3, <2>4, <2>5 DEF Next
<1> QED
  BY <1>1, <1>2, Invariance, PTL DEF Spec

\* closeAll() finds the open sessions whose clients are there, and ends their sockets.
Reached ==
    \A c \in Conns :
        /\ pc[c] # "none" /\ ~closed[c] => c \in sessions \/ sock[c] = "closed"
        /\ c \in WsConns /\ sock[c] = "open" => app = "up"

LEMMA ReachInvariance == Spec => []Reached
<1>1. Init => Reached
  BY DEF Init, Reached
<1>2. AInv /\ Reached /\ [Next]_vars => Reached'
  <2> SUFFICES ASSUME AInv, Reached, [Next]_vars, NEW d \in Conns
               PROVE  /\ pc'[d] # "none" /\ ~closed'[d] => d \in sessions' \/ sock'[d] = "closed"
                      /\ d \in WsConns /\ sock'[d] = "open" => app' = "up"
    BY DEF Reached
  <2>1. /\ ConnTypeOK /\ Shape(d)
        /\ pc[d] # "none" /\ ~closed[d] => d \in sessions \/ sock[d] = "closed"
        /\ d \in WsConns /\ sock[d] = "open" => app = "up"
    BY DEF AInv, TypeOK, Reached
  <2>2. CASE Admit
    <3>1. CASE Tick \/ \E c \in WsConns, s \in Subjects :
                         UpgradeRefused(c, s) \/ UpgradeLost(c, s)
      BY <2>1, <3>1 DEF ConnTypeOK, Tick, UpgradeRefused, UpgradeLost, Upgradable, Shape
    <3>2. CASE \E c \in WsConns, s \in Subjects : UpgradeAccepted(c, s)
      BY <2>1, <3>2 DEF ConnTypeOK, UpgradeAccepted, Upgradable, FirstAwait, Conns
    <3>3. CASE \E c \in RtcConns : RtcUpgraded(c) \/ RtcOffer(c)
      BY <2>1, <3>3, AdmissionAssumption
         DEF AdmissionAssumption, ConnTypeOK, RtcUpgraded, RtcOffer, FirstAwait, Conns, Shape
    <3> QED
      BY <2>2, <3>1, <3>2, <3>3 DEF Admit
  <2>3. CASE Session
    <3>1. PICK c \in Conns :
            PluginsStarted(c) \/ Connected(c) \/ StartRejected(c) \/ SessionCloses(c)
            \/ PeerCloses(c) \/ SocketCloses(c)
      BY <2>3 DEF Session
    <3>2. CASE PluginsStarted(c) \/ Connected(c)
      BY <2>1, <3>2 DEF ConnTypeOK, PluginsStarted, Connected
    <3>3. CASE SessionCloses(c) \/ PeerCloses(c)
      BY <2>1, <3>3 DEF ConnTypeOK, SessionCloses, PeerCloses, Ended
    <3>4. CASE StartRejected(c)
      BY <2>1, <3>4 DEF ConnTypeOK, StartRejected, Forget, Ended
    <3>5. CASE SocketCloses(c)
      BY <2>1, <3>5 DEF ConnTypeOK, SocketCloses, Forget, Bound
    <3> QED
      BY <3>1, <3>2, <3>3, <3>4, <3>5
  <2>4. CASE Stop
    <3>1. CASE Shutdown
      BY <2>1, <3>1 DEF ConnTypeOK, Shutdown, Ended, Shape, Live
    <3>2. CASE WssClosed \/ ServerClosed \/ ForcedExit
      BY <2>1, <3>2 DEF WssClosed, ServerClosed, ForcedExit
    <3> QED
      BY <2>4, <3>1, <3>2 DEF Stop
  <2>5. CASE UNCHANGED vars
    BY <2>1, <2>5 DEF vars
  <2> QED
    BY <2>2, <2>3, <2>4, <2>5 DEF Next
<1> QED
  BY <1>1, <1>2, Invariance, PTL DEF Spec

\* With plugins that suspend as well, the only open sessions a shutdown does not
\* find are those whose client has left (server.ts 167-171, gateway.ts 127-134).
THEOREM OrphansHaveLeft ==
    Spec => [](\A c \in Conns :
                  pc[c] # "none" /\ ~closed[c] => c \in sessions \/ sock[c] = "closed")
<1>1. Reached =>
        \A c \in Conns : pc[c] # "none" /\ ~closed[c] => c \in sessions \/ sock[c] = "closed"
  BY DEF Reached
<1> QED
  BY <1>1, ReachInvariance, PTL

\* From the signal on wss waits for no client: each "/" socket it still has is
\* already in its closing handshake, which ws ends by itself.  This is the part
\* of DrainEnds that is not about fairness (server.ts 224-230, manager.ts 30-35).
THEOREM DrainWaitsForNobody ==
    Spec => [](app # "up" => \A c \in WsConns : sock[c] # "open")
<1>1. Reached => (app # "up" => \A c \in WsConns : sock[c] # "open")
  BY DEF Reached, Conns
<1> QED
  BY <1>1, ReachInvariance, PTL

\* Without "/webrtc" the gauge, set by hand in four places, is the size of the
\* registry at every moment (server.ts 160, 169, 178, 226).
THEOREM GaugeExact == RtcConns = {} => (Spec => []GaugeCountsSessions)
<1> SUFFICES ASSUME RtcConns = {} PROVE Spec => []GaugeCountsSessions
  OBVIOUS
<1> USE DEF GaugeCountsSessions
<1>1. Init => GaugeCountsSessions
  BY FS_EmptySet DEF Init
<1>2. GaugeCountsSessions /\ [Next]_vars => GaugeCountsSessions'
  <2> SUFFICES ASSUME GaugeCountsSessions, [Next]_vars PROVE GaugeCountsSessions'
    OBVIOUS
  <2>1. CASE Admit
    BY <2>1 DEF Admit, Tick, UpgradeRefused, UpgradeAccepted, UpgradeLost
  <2>2. CASE Session
    BY <2>2 DEF Session, PluginsStarted, Connected, StartRejected, SessionCloses,
       PeerCloses, SocketCloses, Forget, Conns
  <2>3. CASE Stop
    BY <2>3, FS_EmptySet DEF Stop, Shutdown, WssClosed, ServerClosed, ForcedExit
  <2>4. CASE UNCHANGED vars
    BY <2>4 DEF vars
  <2> QED
    BY <2>1, <2>2, <2>3, <2>4 DEF Next
<1> QED
  BY <1>1, <1>2, PTL DEF Spec

\* Every step of the server is, for each connection, a step of SessionLife or
\* none (server.ts 157-187, ingress.ts 29-79, manager.ts 30-35).
THEOREM EveryLife == Spec => SessionsLive
<1>1. Init => \A c \in Conns : Life(c)!Init
  <2> SUFFICES ASSUME Init, NEW d \in Conns PROVE Life(d)!Init
    OBVIOUS
  <2>1. pc[d] = "none" /\ sock[d] = "none" /\ closed[d] = FALSE
    BY DEF Init
  <2> QED
    BY <2>1 DEF Life!Init
<1>2. AInv /\ [Next]_vars => \A c \in Conns : [Life(c)!Next]_(Life(c)!vars)
  <2> SUFFICES ASSUME AInv, [Next]_vars, NEW d \in Conns
               PROVE  [Life(d)!Next]_(Life(d)!vars)
    OBVIOUS
  <2>1. ConnTypeOK /\ Shape(d)
    BY DEF AInv, TypeOK
  <2>2. ASSUME UNCHANGED <<pc[d], closed[d], sock[d]>>
        PROVE  [Life(d)!Next]_(Life(d)!vars)
    BY <2>2 DEF Life!vars
  <2>3. CASE Tick \/ WssClosed \/ ServerClosed \/ ForcedExit
             \/ \E c \in WsConns, s \in Subjects : UpgradeRefused(c, s)
    BY <2>2, <2>3 DEF Tick, UpgradeRefused, WssClosed, ServerClosed, ForcedExit
  <2>4. ASSUME NEW c \in Conns, NEW s \in Subjects, UpgradeAccepted(c, s)
        PROVE  [Life(d)!Next]_(Life(d)!vars)
    <3>1. CASE c # d
      BY <2>1, <2>2, <2>4, <3>1 DEF UpgradeAccepted, ConnTypeOK
    <3>2. CASE c = d
      BY <2>1, <2>4, <3>2 DEF UpgradeAccepted, Upgradable, FirstAwait, ConnTypeOK,
         Shape, Life!Next, Life!Begin
    <3> QED
      BY <3>1, <3>2
  <2>5. ASSUME NEW c \in Conns, NEW s \in Subjects, UpgradeLost(c, s)
        PROVE  [Life(d)!Next]_(Life(d)!vars)
    BY <2>1, <2>5 DEF UpgradeLost, Upgradable, ConnTypeOK, Shape, Life!vars
  <2>6. ASSUME NEW c \in Conns, RtcUpgraded(c)
        PROVE  [Life(d)!Next]_(Life(d)!vars)
    <3>1. CASE c # d
      BY <2>1, <2>2, <2>6, <3>1 DEF RtcUpgraded, ConnTypeOK
    <3>2. CASE c = d
      BY <2>1, <2>6, <3>2 DEF RtcUpgraded, ConnTypeOK, Shape,
         Life!Next, Life!Arrive
    <3> QED
      BY <3>1, <3>2
  <2>7. ASSUME NEW c \in Conns, RtcOffer(c)
        PROVE  [Life(d)!Next]_(Life(d)!vars)
    <3>1. CASE c # d
      BY <2>1, <2>2, <2>7, <3>1 DEF RtcOffer, ConnTypeOK
    <3>2. CASE c = d
      BY <2>1, <2>7, <3>2 DEF RtcOffer, ConnTypeOK, Shape,
         FirstAwait, Life!Next, Life!Begin
    <3> QED
      BY <3>1, <3>2
  <2>8. ASSUME NEW c \in Conns, PluginsStarted(c)
        PROVE  [Life(d)!Next]_(Life(d)!vars)
    <3>1. CASE c # d
      BY <2>1, <2>2, <2>8, <3>1 DEF PluginsStarted, ConnTypeOK
    <3>2. CASE c = d
      BY <2>1, <2>8, <3>2 DEF PluginsStarted, ConnTypeOK, Shape,
         Life!Next, Life!Advance
    <3> QED
      BY <3>1, <3>2
  <2>9. ASSUME NEW c \in Conns, Connected(c)
        PROVE  [Life(d)!Next]_(Life(d)!vars)
    <3>1. CASE c # d
      BY <2>1, <2>2, <2>9, <3>1 DEF Connected, ConnTypeOK
    <3>2. CASE c = d
      BY <2>1, <2>9, <3>2 DEF Connected, ConnTypeOK, Shape,
         Life!Next, Life!Advance
    <3> QED
      BY <3>1, <3>2
  <2>10. ASSUME NEW c \in Conns, StartRejected(c)
        PROVE  [Life(d)!Next]_(Life(d)!vars)
    <3>1. CASE c # d
      BY <2>1, <2>2, <2>10, <3>1 DEF StartRejected, ConnTypeOK, Ended
    <3>2. CASE c = d
      BY <2>1, <2>10, <3>2 DEF StartRejected, ConnTypeOK, Shape,
         Ended, Life!Ended, Life!Next, Life!Reject
    <3> QED
      BY <3>1, <3>2
  <2>11. ASSUME NEW c \in Conns, SessionCloses(c)
        PROVE  [Life(d)!Next]_(Life(d)!vars)
    <3>1. CASE c # d
      BY <2>1, <2>2, <2>11, <3>1 DEF SessionCloses, ConnTypeOK, Ended
    <3>2. CASE c = d
      BY <2>1, <2>11, <3>2 DEF SessionCloses, ConnTypeOK, Shape,
         Ended, Bound, Life!Ended, Life!Next, Life!Close
    <3> QED
      BY <3>1, <3>2
  <2>12. ASSUME NEW c \in Conns, PeerCloses(c)
        PROVE  [Life(d)!Next]_(Life(d)!vars)
    <3>1. CASE c # d
      BY <2>1, <2>2, <2>12, <3>1 DEF PeerCloses, ConnTypeOK, Ended
    <3>2. CASE c = d
      BY <2>1, <2>12, <3>2 DEF PeerCloses, ConnTypeOK, Shape,
         Ended, Life!Next, Life!PeerCloses
    <3> QED
      BY <3>1, <3>2
  <2>13. ASSUME NEW c \in Conns, SocketCloses(c)
        PROVE  [Life(d)!Next]_(Life(d)!vars)
    <3>1. CASE c # d
      BY <2>1, <2>2, <2>13, <3>1 DEF SocketCloses, ConnTypeOK
    <3>2. CASE c = d
      BY <2>1, <2>13, <3>2 DEF SocketCloses, ConnTypeOK, Shape,
         Live, Bound, Life!Next, Life!SocketCloses
    <3> QED
      BY <3>1, <3>2
  <2>14. CASE Shutdown
    <3>1. CASE d \in sessions /\ ~closed[d]
      BY <2>1, <2>14, <3>1 DEF Shutdown, Ended, ConnTypeOK, Shape, Life!Next,
         Life!Close, Life!Ended
    <3>2. CASE ~(d \in sessions /\ ~closed[d])
      BY <2>1, <2>2, <2>14, <3>2 DEF Shutdown, Ended, ConnTypeOK, Shape
    <3> QED
      BY <3>1, <3>2
  <2>15. CASE UNCHANGED vars
    BY <2>2, <2>15 DEF vars
  <2>16. WsConns \subseteq Conns /\ RtcConns \subseteq Conns
    BY DEF Conns
  <2> QED
    BY <2>3, <2>4, <2>5, <2>6, <2>7, <2>8, <2>9, <2>10, <2>11, <2>12, <2>13,
       <2>14, <2>15, <2>16 DEF Next, Admit, Session, Stop
<1> QED
  BY <1>1, <1>2, Invariance, PTL DEF Spec, SessionsLive

=============================================================================
