--------------------- MODULE TopologyDescription_proofs ---------------------
(***************************************************************************)
(* What a client believes about its deployment, and which of the servers   *)
(* it chooses for an operation.                                            *)
(*                                                                         *)
(* 1. Types, the one primary and its elections in TopologyDescription, for *)
(* any addresses, replica set names, replies and polls.                    *)
(*                                                                         *)
(* OnePrimary is not inductive: a primary that came with a topology of     *)
(* another type would not be reset by the next one. The strengthening      *)
(* (Sound) says which types have a primary at all. Nor is NoStepBack: what *)
(* refuses an old primary is the greatest election of the description, and *)
(* ElectionInv says that it is not before any election that was taken.     *)
(*                                                                         *)
(* 2. The choice of apply_selector in ServerSelection, for any number of   *)
(* servers, ages, distances, tags and limits. Its Min and Max exist by the *)
(* well-foundedness of the natural numbers, from which the two lemmas on   *)
(* induction that come first are proved.                                   *)
(***************************************************************************)
EXTENDS TopologyDescription, ServerSelection, FiniteSetTheorems, WellFoundedInduction, TLAPS

ServerMap == UNION {[D -> ServerDescription] : D \in SUBSET Addresses}
Description == [type : TopologyType, sds : ServerMap,
                set : SetNames \cup {None}, max : Election]

\* No primary, or one.
AtMostOne(sds) == \A p, q \in Primaries(sds) : p = q

Sound(t) ==
  /\ t.type \in {"Unknown", "Sharded", "ReplicaSetNoPrimary"} => Primaries(t.sds) = {}
  /\ t.type = "ReplicaSetWithPrimary" => AtMostOne(t.sds)

IInv == /\ td \in Description /\ Sound(td) /\ newest \in Election
        /\ opened \in BOOLEAN /\ polling \in BOOLEAN
        /\ found \in (SUBSET Addresses) \cup {None}

-----------------------------------------------------------------------------
(* Lemmas about the servers of a description.                              *)

LEMMA ServersAre ==
  ASSUME NEW sds
  PROVE  sds \in ServerMap <=> /\ DOMAIN sds \subseteq Addresses
                               /\ sds \in [DOMAIN sds -> ServerDescription]
  BY DEF ServerMap

LEMMA UnknownType == Unknown \in ServerDescription /\ Unknown.type # "RSPrimary"
  BY DEF Unknown, ServerDescription, ServerType, Election, Number

LEMMA PopServers ==
  ASSUME NEW sds \in ServerMap, NEW a
  PROVE  /\ Pop(sds, a) \in ServerMap /\ Primaries(Pop(sds, a)) = Primaries(sds) \ {a}
  BY ServersAre DEF Pop, Primaries, Known

LEMMA AddServers ==
  ASSUME NEW sds \in ServerMap, NEW hosts \in SUBSET Addresses
  PROVE  /\ Add(sds, hosts) \in ServerMap /\ Primaries(Add(sds, hosts)) = Primaries(sds)
  BY ServersAre, UnknownType DEF Add, Primaries, Known

LEMMA PutServer ==
  ASSUME NEW sds \in ServerMap, NEW a \in DOMAIN sds, NEW s \in ServerDescription
  PROVE  /\ [sds EXCEPT ![a] = s] \in ServerMap
         /\ Primaries([sds EXCEPT ![a] = s])
              = IF s.type = "RSPrimary" THEN Primaries(sds) \cup {a} ELSE Primaries(sds) \ {a}
         /\ DOMAIN [sds EXCEPT ![a] = s] = DOMAIN sds
  BY ServersAre DEF Primaries, Known

LEMMA ResetServers ==
  ASSUME NEW sds \in ServerMap, NEW a, \A p, q \in Primaries(sds) \ {a} : p = q
  PROVE  /\ ResetPrior(sds, a) \in ServerMap
         /\ Primaries(ResetPrior(sds, a)) \subseteq {a}
<1>1. CASE Primaries(sds) \ {a} = {}
  BY <1>1 DEF ResetPrior
<1>2. CASE Primaries(sds) \ {a} # {}
  <2>1. PICK p \in Primaries(sds) \ {a} : TRUE
    BY <1>2
  <2>2. p = CHOOSE q \in Primaries(sds) \ {a} : TRUE
    BY <2>1
  <2>3. ResetPrior(sds, a) = [sds EXCEPT ![p] = Unknown]
    BY <1>2, <2>2 DEF ResetPrior
  <2>4. p \in DOMAIN sds
    BY <2>1 DEF Primaries, Known
  <2>5. Primaries([sds EXCEPT ![p] = Unknown]) = Primaries(sds) \ {p}
        /\ [sds EXCEPT ![p] = Unknown] \in ServerMap
    BY <2>4, PutServer, UnknownType
  <2> QED
    BY <2>1, <2>3, <2>5
<1> QED
  BY <1>1, <1>2

LEMMA HasPrimaryType ==
  ASSUME NEW sds
  PROVE  /\ _check_has_primary(sds) \in {"ReplicaSetWithPrimary", "ReplicaSetNoPrimary"}
         /\ _check_has_primary(sds) = "ReplicaSetNoPrimary" => Primaries(sds) = {}
  BY DEF _check_has_primary

-----------------------------------------------------------------------------
(* The functions of topology_description.py that choose among the servers. *)

LEMMA FromPrimary ==
  ASSUME NEW t \in Description, NEW sds \in ServerMap, NEW a \in DOMAIN sds, NEW r \in Reply,
         \A p, q \in Primaries(sds) \ {a} : p = q
  PROVE  LET u == _update_rs_from_primary(t, sds, a, r) IN u \in Description /\ Sound(u)
<1> DEFINE u == _update_rs_from_primary(t, sds, a, r)
           set == IF t.set = None THEN r.set ELSE t.set
           popped == Pop(sds, a)
           stale == [sds EXCEPT ![a] = Unknown]
           others == ResetPrior(sds, a)
           hosts == [x \in r.hosts |-> IF x \in DOMAIN others THEN others[x] ELSE Unknown]
<1>1. set \in SetNames \cup {None}
  BY DEF Description, Reply
<1>2. popped \in ServerMap /\ AtMostOne(popped)
  BY PopServers DEF AtMostOne
<1>3. stale \in ServerMap /\ AtMostOne(stale)
  BY PutServer, UnknownType DEF AtMostOne
<1>4. hosts \in ServerMap /\ AtMostOne(hosts)
  <2>1. others \in ServerMap /\ Primaries(others) \subseteq {a}
    BY ResetServers
  <2> HIDE DEF others
  <2>2. r.hosts \in SUBSET Addresses
    BY DEF Reply
  <2>3. hosts \in ServerMap /\ Primaries(hosts) \subseteq Primaries(others)
    BY <2>1, <2>2, ServersAre, UnknownType DEF Primaries, Known
  <2> QED
    BY <2>1, <2>3 DEF AtMostOne
<1>5. NewMax(t.max, r.election) \in Election
  BY DEF NewMax, Description, Reply, Election, Complete, Number
<1> HIDE DEF popped, stale, hosts, set
<1>6. CASE u = [t EXCEPT !.sds = popped, !.type = _check_has_primary(popped)]
  BY <1>2, <1>6, HasPrimaryType DEF Description, TopologyType, Sound
<1>7. CASE u = [t EXCEPT !.sds = stale, !.type = _check_has_primary(stale), !.set = set]
  BY <1>1, <1>3, <1>7, HasPrimaryType DEF Description, TopologyType, Sound
<1>8. CASE u = [type |-> _check_has_primary(hosts), sds |-> hosts, set |-> set,
                max |-> NewMax(t.max, r.election)]
  BY <1>1, <1>4, <1>5, <1>8, HasPrimaryType DEF Description, TopologyType, Sound
<1> QED
  BY <1>6, <1>7, <1>8 DEF _update_rs_from_primary, popped, stale, hosts, set

LEMMA FromMember ==
  ASSUME NEW t \in Description, NEW sds \in ServerMap, NEW a, NEW r \in Reply,
         AtMostOne(sds)
  PROVE  LET u == _update_rs_with_primary_from_member(t, sds, a, r) IN
         u \in Description /\ Sound(u)
<1> DEFINE new == IF t.set # r.set \/ ~r.me THEN Pop(sds, a) ELSE sds
<1>1. new \in ServerMap /\ AtMostOne(new)
  BY PopServers DEF AtMostOne
<1> HIDE DEF new
<1>2. CASE _update_rs_with_primary_from_member(t, sds, a, r)
             = [t EXCEPT !.sds = new, !.type = _check_has_primary(new)]
  BY <1>1, <1>2, HasPrimaryType DEF Description, TopologyType, Sound
<1> QED
  BY <1>2 DEF _update_rs_with_primary_from_member, new

LEMMA FromFirstMember ==
  ASSUME NEW t \in Description, NEW sds \in ServerMap, NEW a, NEW r \in Reply,
         Primaries(sds) = {}
  PROVE  LET u == _update_rs_no_primary_from_member(t, sds, a, r) IN
         u \in Description /\ Sound(u)
<1> DEFINE set == IF t.set = None THEN r.set ELSE t.set
           new == IF set # r.set THEN Pop(sds, a)
                  ELSE IF r.me THEN Add(sds, r.hosts) ELSE Pop(Add(sds, r.hosts), a)
<1>1. set \in SetNames \cup {None} /\ r.hosts \in SUBSET Addresses
  BY DEF Description, Reply
<1>2. new \in ServerMap /\ Primaries(new) = {}
  BY <1>1, PopServers, AddServers
<1> HIDE DEF new, set
<1>3. CASE _update_rs_no_primary_from_member(t, sds, a, r)
             = [t EXCEPT !.sds = new, !.set = set, !.type = "ReplicaSetNoPrimary"]
  BY <1>1, <1>2, <1>3 DEF Description, TopologyType, Sound
<1> QED
  BY <1>3 DEF _update_rs_no_primary_from_member, new, set

LEMMA FirstTypes ==
  ASSUME NEW t \in Description, NEW r \in Reply
  PROVE  LET type == FirstType(t, r) IN
         /\ type \in TopologyType
         /\ t.type # "Unknown" => type = t.type
         /\ t.type = "Unknown" /\ r.type # "RSPrimary" => type # "ReplicaSetWithPrimary"
         /\ t.type = "Unknown" /\ r.type = "RSPrimary" => type = "ReplicaSetWithPrimary"
  BY DEF FirstType, Description, TopologyType, Reply, Member

LEMMA SetServers ==
  ASSUME NEW t \in Description, NEW x \in ServerMap
  PROVE  /\ [t EXCEPT !.sds = x] \in Description
         /\ [t EXCEPT !.sds = x].type = t.type /\ [t EXCEPT !.sds = x].sds = x
  BY DEF Description

LEMMA SetType ==
  ASSUME NEW t \in Description, NEW y \in TopologyType
  PROVE  /\ [t EXCEPT !.type = y] \in Description
         /\ [t EXCEPT !.type = y].type = y /\ [t EXCEPT !.type = y].sds = t.sds
  BY DEF Description

LEMMA Updated ==
  ASSUME NEW t \in Description, Sound(t), NEW a \in DOMAIN t.sds, NEW r \in Reply
  PROVE  LET u == updated_topology_description(t, a, r) IN u \in Description /\ Sound(u)
<1> DEFINE server == [type |-> r.type, election |-> r.election]
           sds == [t.sds EXCEPT ![a] = server]
           type == FirstType(t, r)
           new == [t EXCEPT !.sds = sds, !.type = type]
           popped == Pop(sds, a)
           u == updated_topology_description(t, a, r)
<1>1. t.sds \in ServerMap /\ server \in ServerDescription /\ server.type = r.type
  BY DEF Description, Reply, ServerDescription
<1>2. /\ sds \in ServerMap /\ a \in DOMAIN sds
      /\ Primaries(sds) = IF r.type = "RSPrimary" THEN Primaries(t.sds) \cup {a}
                          ELSE Primaries(t.sds) \ {a}
  BY <1>1, PutServer
<1>3. popped \in ServerMap /\ Primaries(popped) = Primaries(t.sds) \ {a}
  BY <1>2, PopServers
<1>4. /\ type \in TopologyType
      /\ t.type # "Unknown" => type = t.type
      /\ t.type = "Unknown" /\ r.type # "RSPrimary" => type # "ReplicaSetWithPrimary"
      /\ t.type = "Unknown" /\ r.type = "RSPrimary" => type = "ReplicaSetWithPrimary"
  BY FirstTypes
<1>5. [t.sds EXCEPT ![a] = Unknown] \in ServerMap
  BY <1>1, PutServer, UnknownType
<1>6. Primaries(t.sds) # {} => t.type \in {"Single", "ReplicaSetWithPrimary"}
  BY DEF Sound, Description, TopologyType
<1>7. [new EXCEPT !.sds[a] = Unknown] = [new EXCEPT !.sds = [t.sds EXCEPT ![a] = Unknown]]
  BY <1>1, <1>2 DEF Description, ServerMap
<1> HIDE DEF sds, popped, type, server
<1>8. new \in Description /\ new.type = type /\ new.sds = sds
  BY <1>2, <1>4 DEF Description
<1> HIDE DEF new
<1>11. CASE /\ t.type = "Single"
            /\ u = [new EXCEPT !.sds[a] = Unknown]
  <2>1. u \in Description /\ u.type = "Single"
    BY <1>4, <1>5, <1>7, <1>8, <1>11, SetServers
  <2> QED
    BY <2>1 DEF Sound
<1>12. CASE /\ type # "ReplicaSetWithPrimary" /\ u = [new EXCEPT !.sds = popped]
  <2>1. type = "Single" \/ Primaries(t.sds) = {}
    BY <1>4, <1>6, <1>12
  <2> QED
    <3>1. u \in Description /\ u.type = type /\ u.sds = popped
      BY <1>3, <1>8, <1>12, SetServers
    <3> QED
      BY <1>3, <1>12, <2>1, <3>1 DEF Sound
<1>13. CASE /\ type = "ReplicaSetWithPrimary" /\ r.type # "RSPrimary"
            /\ u = [new EXCEPT !.sds = popped, !.type = _check_has_primary(popped)]
  <2>1. AtMostOne(popped)
    BY <1>3, <1>4, <1>13 DEF AtMostOne, Sound
  <2> QED
    <3>1. _check_has_primary(popped) \in TopologyType
      BY HasPrimaryType DEF TopologyType
    <3>2. u \in Description /\ u.type = _check_has_primary(popped) /\ u.sds = popped
      BY <1>3, <1>8, <1>13, <3>1 DEF Description
    <3> QED
      BY <2>1, <3>2, HasPrimaryType DEF Sound
<1>14. CASE /\ type \in {"ReplicaSetNoPrimary", "ReplicaSetWithPrimary"} /\ r.type = "RSPrimary"
            /\ u = _update_rs_from_primary(t, sds, a, r)
  <2>1. \A p, q \in Primaries(sds) \ {a} : p = q
    BY <1>2, <1>4, <1>6, <1>14 DEF Sound, AtMostOne
  <2> QED
    BY <1>2, <1>14, <2>1, FromPrimary
<1>15. CASE /\ type = "ReplicaSetNoPrimary" /\ r.type \in Member
            /\ u = _update_rs_no_primary_from_member(t, sds, a, r)
  <2>1. Primaries(sds) = {}
    BY <1>2, <1>4, <1>6, <1>15 DEF Member
  <2> QED
    BY <1>2, <1>15, <2>1, FromFirstMember
<1>16. CASE /\ type = "ReplicaSetWithPrimary" /\ r.type \in Member
            /\ u = _update_rs_with_primary_from_member(t, sds, a, r)
  <2>1. AtMostOne(sds)
    BY <1>2, <1>4, <1>16 DEF Member, Sound, AtMostOne
  <2> QED
    BY <1>2, <1>16, <2>1, FromMember
<1>17. CASE /\ type = "ReplicaSetWithPrimary" /\ r.type \in {"Unknown", "RSGhost"}
            /\ u = [new EXCEPT !.type = _check_has_primary(sds)]
  <2>1. AtMostOne(sds)
    BY <1>2, <1>4, <1>17 DEF Sound, AtMostOne
  <2> QED
    <3>1. _check_has_primary(sds) \in TopologyType
      BY HasPrimaryType DEF TopologyType
    <3>2. u \in Description /\ u.type = _check_has_primary(sds) /\ u.sds = sds
      BY <1>8, <1>17, <3>1, SetType
    <3> QED
      BY <2>1, <3>2, HasPrimaryType DEF Sound
<1>18. CASE u = new /\ (r.type = "RSPrimary" => type = "Single") /\ type # "ReplicaSetWithPrimary"
  <2>1. type = "Single" \/ Primaries(sds) = {}
    BY <1>2, <1>4, <1>6, <1>18
  <2> QED
    BY <1>8, <1>18, <2>1 DEF Sound
<1>19. r.type \in ServerType
  BY DEF Reply
<1>20. t.type \in TopologyType
  BY DEF Description
<1> HIDE DEF u
<1> QED
  <2>1. \/ t.type = "Single" /\ u = [new EXCEPT !.sds[a] = Unknown]
        \/ type # "ReplicaSetWithPrimary" /\ u = [new EXCEPT !.sds = popped]
        \/ /\ type = "ReplicaSetWithPrimary" /\ r.type # "RSPrimary"
           /\ u = [new EXCEPT !.sds = popped, !.type = _check_has_primary(popped)]
        \/ /\ type \in {"ReplicaSetNoPrimary", "ReplicaSetWithPrimary"} /\ r.type = "RSPrimary"
           /\ u = _update_rs_from_primary(t, sds, a, r)
        \/ /\ type = "ReplicaSetNoPrimary" /\ r.type \in Member
           /\ u = _update_rs_no_primary_from_member(t, sds, a, r)
        \/ /\ type = "ReplicaSetWithPrimary" /\ r.type \in Member
           /\ u = _update_rs_with_primary_from_member(t, sds, a, r)
        \/ /\ type = "ReplicaSetWithPrimary" /\ r.type \in {"Unknown", "RSGhost"}
           /\ u = [new EXCEPT !.type = _check_has_primary(sds)]
        \/ u = new /\ (r.type = "RSPrimary" => type = "Single") /\ type # "ReplicaSetWithPrimary"
    BY <1>4, <1>19, <1>20
    DEF updated_topology_description, u, server, sds, type, new, popped, Member,
        ServerType, TopologyType
  <2> QED
    BY <2>1, <1>11, <1>12, <1>13, <1>14, <1>15, <1>16, <1>17, <1>18 DEF u

-----------------------------------------------------------------------------
(* The steps.                                                              *)

LEMMA Polled ==
  ASSUME NEW t \in Description, Sound(t), NEW seedlist \in SUBSET Addresses
  PROVE  LET sds == [x \in seedlist |-> IF x \in DOMAIN t.sds THEN t.sds[x] ELSE Unknown]
             u == [t EXCEPT !.sds = sds]
         IN  u \in Description /\ Sound(u)
<1> DEFINE sds == [x \in seedlist |-> IF x \in DOMAIN t.sds THEN t.sds[x] ELSE Unknown]
           u == [t EXCEPT !.sds = sds]
<1>1. t.sds \in ServerMap
  BY DEF Description
<1>2. sds \in ServerMap /\ Primaries(sds) \subseteq Primaries(t.sds)
  BY <1>1, ServersAre, UnknownType DEF Primaries, Known
<1> HIDE DEF sds
<1>3. u \in Description /\ u.type = t.type /\ u.sds = sds
  BY <1>2, SetServers
<1> HIDE DEF u
<1>4. Sound(u)
  BY <1>2, <1>3 DEF Sound, AtMostOne
<1> QED
  BY <1>3, <1>4 DEF u, sds

LEMMA WasReset ==
  ASSUME NEW t \in Description
  PROVE  reset(t) \in Description /\ Sound(reset(t))
<1> DEFINE sds == [x \in DOMAIN t.sds |-> Unknown]
           type == IF t.type = "ReplicaSetWithPrimary" THEN "ReplicaSetNoPrimary" ELSE t.type
<1>1. t.sds \in ServerMap /\ type \in TopologyType
  BY DEF Description, TopologyType
<1>2. sds \in ServerMap /\ Primaries(sds) = {}
  BY <1>1, ServersAre, UnknownType DEF Primaries, Known
<1>3. reset(t) = [t EXCEPT !.sds = sds, !.type = type]
  BY DEF reset, Description
<1> HIDE DEF sds, type
<1>4. reset(t) \in Description /\ reset(t).sds = sds
  BY <1>1, <1>2, <1>3 DEF Description
<1> QED
  BY <1>2, <1>4 DEF Sound, AtMostOne

LEMMA InitIInv == Init => IInv
<1> SUFFICES ASSUME Init PROVE IInv
  OBVIOUS
<1>1. [a \in Seeds |-> Unknown] \in ServerMap /\ Primaries([a \in Seeds |-> Unknown]) = {}
  BY TopologyAssumption, UnknownType, ServersAre DEF Primaries, Known
<1>2. <<None, None>> \in Election
  BY DEF Election, Number
<1>3. td \in Description /\ td.sds = [a \in Seeds |-> Unknown]
  BY <1>1, <1>2 DEF Init, Description, TopologyType
<1>4. Sound(td)
  BY <1>1, <1>3 DEF Sound, AtMostOne
<1>5. opened \in BOOLEAN /\ polling \in BOOLEAN /\ found = None /\ newest \in Election
  BY <1>2 DEF Init
<1> QED
  BY <1>3, <1>4, <1>5 DEF IInv

LEMMA StepIInv == IInv /\ [Next]_vars => IInv'
<1> SUFFICES ASSUME IInv, [Next]_vars PROVE IInv'
  OBVIOUS
<1>1. CASE Open
  BY <1>1 DEF Open, IInv, Sound, AtMostOne, Primaries, Known
<1>2. CASE Close
  BY <1>2, WasReset DEF Close, IInv
<1>3. CASE on_srv_update
  <2>1. found # None /\ found' = None /\ UNCHANGED <<opened, polling, newest>>
    BY <1>3 DEF on_srv_update
  <2>2. \/ td' = td
        \/ td' = [td EXCEPT !.sds = [x \in found |-> IF x \in DOMAIN td.sds
                                                     THEN td.sds[x] ELSE Unknown]]
    BY <1>3, Zenon DEF on_srv_update
  <2>3. found \in SUBSET Addresses
    BY <2>1 DEF IInv
  <2>4. td' \in Description /\ Sound(td')
    BY <2>2, <2>3, Polled DEF IInv
  <2> QED
    BY <2>1, <2>4 DEF IInv
<1>4. ASSUME NEW a \in Addresses, NEW r \in Replies, on_change(a, r) PROVE IInv'
  <2>1. r \in Reply /\ r.election \in Election
    BY TopologyAssumption DEF Reply
  <2>2. td' \in Description /\ Sound(td')
    BY <1>4, <2>1, Updated DEF on_change, IInv
  <2>3. newest' \in Election
    BY <1>4, <2>1 DEF on_change, IInv
  <2> QED
    BY <1>4, <2>2, <2>3 DEF on_change, IInv
<1>5. ASSUME NEW s \in Polls, Lookup(s) PROVE IInv'
  BY <1>5, TopologyAssumption DEF Lookup, IInv, Sound, AtMostOne, Primaries, Known
<1>6. CASE UNCHANGED vars
  BY <1>6 DEF vars, IInv, Sound, AtMostOne, Primaries, Known
<1> QED
  BY <1>1, <1>2, <1>3, <1>4, <1>5, <1>6 DEF Next

LEMMA InvariantHolds == Spec => []IInv
  BY InitIInv, StepIInv, PTL DEF Spec

-----------------------------------------------------------------------------
(* The elections. td.max is not before the newest election of a primary    *)
(* that was taken, and no primary of td has an older one. A Single         *)
(* topology, whose replies are taken as they are, stays Single.            *)

NotBefore(m, e) == m[1] > e[1] \/ (m[1] = e[1] /\ m[2] >= e[2])

ElectionInv ==
  /\ newest[1] # None => Complete(newest)
  /\ td.type # "Single" /\ newest[1] # None =>
       /\ Complete(td.max) /\ NotBefore(td.max, newest)
       /\ \A p \in Primaries(td.sds) :
            Complete(td.sds[p].election) => NotBefore(td.sds[p].election, newest)

\* x has no primary but those of y, without a.
Fewer(x, y, a) == \A p \in Primaries(x) : p # a /\ p \in Primaries(y) /\ x[p] = y[p]

LEMMA FewerServers ==
  ASSUME NEW y \in ServerMap, NEW a \in DOMAIN y, NEW s \in ServerDescription,
         NEW hosts \in SUBSET Addresses
  PROVE  LET x == [y EXCEPT ![a] = s] IN
         /\ s.type # "RSPrimary" => Fewer(x, y, a) /\ Fewer(Add(x, hosts), y, a)
         /\ Fewer(Pop(x, a), y, a) /\ Fewer(Pop(Add(x, hosts), a), y, a)
         /\ Fewer([x EXCEPT ![a] = Unknown], y, a)
<1> DEFINE x == [y EXCEPT ![a] = s]
<1>1. /\ DOMAIN x = DOMAIN y /\ x[a] = s /\ \A p \in DOMAIN y : p # a => x[p] = y[p]
      /\ x \in ServerMap
  BY PutServer, ServersAre
<1> HIDE DEF x
<1>2. s.type # "RSPrimary" => Fewer(x, y, a)
  BY <1>1 DEF Fewer, Primaries, Known
<1>3. \A p \in Primaries(Add(x, hosts)) : p \in Primaries(x) /\ Add(x, hosts)[p] = x[p]
  BY UnknownType DEF Add, Primaries, Known
<1>4. Fewer(Pop(x, a), y, a)
  BY <1>1 DEF Fewer, Pop, Primaries, Known
<1>5. \A p \in Primaries(Pop(Add(x, hosts), a)) :
        p # a /\ p \in Primaries(x) /\ Pop(Add(x, hosts), a)[p] = x[p]
  BY <1>3 DEF Pop, Primaries, Known
<1>6. Fewer([x EXCEPT ![a] = Unknown], y, a)
  BY <1>1, ServersAre, UnknownType DEF Fewer, Primaries, Known
<1>7. \A p \in Primaries(x) : p # a => p \in Primaries(y) /\ x[p] = y[p]
  BY <1>1 DEF Primaries, Known
<1> QED
  BY <1>2, <1>3, <1>4, <1>5, <1>6, <1>7 DEF Fewer, x

\* What a reply of a leaves of the primaries, and what it makes of max.
Elected(t, u, a, r) ==
  \/ u.max = t.max /\ Fewer(u.sds, t.sds, a)
  \/ /\ r.type = "RSPrimary" /\ ~StalePrimary(t.max, r.election)
     /\ u.max = NewMax(t.max, r.election)
     /\ \A p \in Primaries(u.sds) : p = a /\ u.sds[p].election = r.election

LEMMA PrimaryElected ==
  ASSUME NEW t \in Description, NEW a \in DOMAIN t.sds, NEW r \in Reply,
         \A p, q \in Primaries(t.sds) \ {a} : p = q, r.type = "RSPrimary"
  PROVE  LET sds == [t.sds EXCEPT ![a] = [type |-> r.type, election |-> r.election]]
         IN  Elected(t, _update_rs_from_primary(t, sds, a, r), a, r)
<1> DEFINE server == [type |-> r.type, election |-> r.election]
           sds == [t.sds EXCEPT ![a] = server]
           u == _update_rs_from_primary(t, sds, a, r)
           set == IF t.set = None THEN r.set ELSE t.set
           popped == Pop(sds, a)
           stale == [sds EXCEPT ![a] = Unknown]
           others == ResetPrior(sds, a)
           hosts == [x \in r.hosts |-> IF x \in DOMAIN others THEN others[x] ELSE Unknown]
<1> SUFFICES Elected(t, u, a, r)
  OBVIOUS
<1>1. t.sds \in ServerMap /\ server \in ServerDescription /\ r.hosts \in SUBSET Addresses
  BY DEF Description, Reply, ServerDescription
<1>2. Fewer(popped, t.sds, a) /\ Fewer(stale, t.sds, a)
  BY <1>1, FewerServers
<1>3. /\ sds \in ServerMap /\ Primaries(sds) = Primaries(t.sds) \cup {a}
      /\ a \in DOMAIN sds /\ sds[a] = server
  <2>1. /\ sds \in ServerMap /\ DOMAIN sds = DOMAIN t.sds /\ sds[a] = server
        /\ \A p \in DOMAIN t.sds : p # a => sds[p] = t.sds[p]
    BY <1>1, PutServer
  <2> HIDE DEF sds
  <2> QED
    BY <2>1 DEF Primaries, Known
<1>4. others \in ServerMap /\ Primaries(others) \subseteq {a}
  BY <1>3, ResetServers
<1>5. \A p \in Primaries(others) : others[p].election = r.election
  <2>1. CASE Primaries(sds) \ {a} = {}
    BY <1>3, <1>4, <2>1 DEF ResetPrior
  <2>2. CASE Primaries(sds) \ {a} # {}
    <3>1. PICK p \in Primaries(sds) \ {a} : others = [sds EXCEPT ![p] = Unknown]
      BY <2>2 DEF ResetPrior
    <3>2. others[a] = server
      BY <1>3, <3>1, ServersAre
    <3> QED
      BY <1>4, <3>2
  <2> QED
    BY <2>1, <2>2
<1> HIDE DEF others
<1>6. \A p \in Primaries(hosts) : p \in Primaries(others) /\ hosts[p] = others[p]
  BY UnknownType DEF Primaries, Known
<1> HIDE DEF sds, popped, stale, hosts, set
<1>7. CASE u = [t EXCEPT !.sds = popped, !.type = _check_has_primary(popped)]
  <2>1. u.max = t.max /\ u.sds = popped
    BY <1>7 DEF Description
  <2> QED
    BY <1>2, <2>1 DEF Elected
<1>8. CASE u = [t EXCEPT !.sds = stale, !.type = _check_has_primary(stale), !.set = set]
  <2>1. u.max = t.max /\ u.sds = stale
    BY <1>8 DEF Description
  <2> QED
    BY <1>2, <2>1 DEF Elected
<1>9. CASE /\ ~StalePrimary(t.max, r.election)
           /\ u = [type |-> _check_has_primary(hosts), sds |-> hosts, set |-> set,
                   max |-> NewMax(t.max, r.election)]
  <2>1. u.max = NewMax(t.max, r.election) /\ u.sds = hosts
    BY <1>9
  <2>2. \A p \in Primaries(hosts) : p = a /\ hosts[p].election = r.election
    BY <1>4, <1>5, <1>6
  <2> QED
    BY <1>9, <2>1, <2>2 DEF Elected
<1> QED
  BY <1>7, <1>8, <1>9
  DEF _update_rs_from_primary, u, sds, popped, stale, hosts, set, others

LEMMA UpdatedElection ==
  ASSUME NEW t \in Description, Sound(t), NEW a \in DOMAIN t.sds, NEW r \in Reply,
         updated_topology_description(t, a, r).type # "Single"
  PROVE  /\ t.type # "Single"
         /\ Elected(t, updated_topology_description(t, a, r), a, r)
<1> DEFINE server == [type |-> r.type, election |-> r.election]
           sds == [t.sds EXCEPT ![a] = server]
           type == FirstType(t, r)
           new == [t EXCEPT !.sds = sds, !.type = type]
           popped == Pop(sds, a)
           u == updated_topology_description(t, a, r)
           firstset == IF t.set = None THEN r.set ELSE t.set
           member == IF firstset # r.set THEN popped
                     ELSE IF r.me THEN Add(sds, r.hosts) ELSE Pop(Add(sds, r.hosts), a)
           kept == IF t.set # r.set \/ ~r.me THEN popped ELSE sds
<1>1. /\ t.sds \in ServerMap /\ server \in ServerDescription /\ server.type = r.type
      /\ r.hosts \in SUBSET Addresses /\ r.type \in ServerType /\ t.type \in TopologyType
  BY DEF Description, Reply, ServerDescription
<1>2. /\ Fewer(popped, t.sds, a) /\ Fewer(Pop(Add(sds, r.hosts), a), t.sds, a)
      /\ r.type # "RSPrimary" => Fewer(sds, t.sds, a) /\ Fewer(Add(sds, r.hosts), t.sds, a)
  BY <1>1, FewerServers
<1>3. /\ type \in TopologyType
      /\ t.type # "Unknown" => type = t.type
      /\ t.type = "Unknown" /\ r.type = "RSPrimary" => type = "ReplicaSetWithPrimary"
  BY FirstTypes
<1>4. Primaries(t.sds) # {} => t.type \in {"Single", "ReplicaSetWithPrimary"}
  BY DEF Sound, Description, TopologyType
<1>5. r.type # "RSPrimary" => Fewer(member, t.sds, a) /\ Fewer(kept, t.sds, a)
  BY <1>2
<1> HIDE DEF sds, popped, type, server, member, kept
<1>6. new \in [type : {type}, sds : {sds}, set : {t.set}, max : {t.max}]
  BY DEF Description
<1> HIDE DEF new
<1>7. t.type # "Single"
  <2> SUFFICES ASSUME t.type = "Single" PROVE u.type = "Single"
    OBVIOUS
  <2>1. type = "Single"
    BY <1>3
  <2>2. u \in {[new EXCEPT !.sds[a] = Unknown], new}
    BY <2>1 DEF updated_topology_description, new, server, sds, type
  <2> QED
    BY <1>6, <2>1, <2>2
<1>8. \/ u.max = t.max /\ u.sds = popped
      \/ r.type # "RSPrimary" /\ u.max = t.max /\ u.sds \in {member, kept, sds}
      \/ r.type = "RSPrimary" /\ u = _update_rs_from_primary(t, sds, a, r)
  <2>1. \/ \E y \in TopologyType : u = [new EXCEPT !.sds = popped, !.type = y]
        \/ u = [new EXCEPT !.sds = popped]
        \/ r.type = "RSPrimary" /\ u = _update_rs_from_primary(t, sds, a, r)
        \/ r.type # "RSPrimary" /\ u = _update_rs_no_primary_from_member(t, sds, a, r)
        \/ r.type # "RSPrimary" /\ u = _update_rs_with_primary_from_member(t, sds, a, r)
        \/ r.type # "RSPrimary" /\ \E y \in TopologyType : u = [new EXCEPT !.type = y]
        \/ r.type # "RSPrimary" /\ u = new
    <3>1. \A x : _check_has_primary(x) \in TopologyType
      BY HasPrimaryType DEF TopologyType
    <3>2. CASE r.type = "RSPrimary"
      <4>1. type \in {"ReplicaSetNoPrimary", "ReplicaSetWithPrimary"} =>
              u = _update_rs_from_primary(t, sds, a, r)
        BY <1>7, <3>2
        DEF updated_topology_description, u, new, server, sds, type, popped, Member
      <4>2. type \notin {"ReplicaSetNoPrimary", "ReplicaSetWithPrimary"} =>
              u = [new EXCEPT !.sds = popped]
        BY <1>1, <1>3, <1>7, <3>2
        DEF updated_topology_description, u, new, server, sds, type, popped, TopologyType
      <4> QED
        BY <3>2, <4>1, <4>2
    <3>3. CASE r.type \in Member
      BY <1>1, <1>3, <1>7, <3>1, <3>3
      DEF updated_topology_description, u, new, server, sds, type, popped, Member,
          TopologyType
    <3>4. CASE r.type \notin Member \cup {"RSPrimary"}
      BY <1>1, <1>3, <1>7, <3>1, <3>4
      DEF updated_topology_description, u, new, server, sds, type, popped, Member,
          ServerType, TopologyType
    <3> QED
      BY <3>2, <3>3, <3>4
  <2>2. ASSUME r.type # "RSPrimary", u = _update_rs_no_primary_from_member(t, sds, a, r)
        PROVE  u.max = t.max /\ u.sds = member
    BY <2>2 DEF _update_rs_no_primary_from_member, member, popped, Description
  <2>3. ASSUME r.type # "RSPrimary", u = _update_rs_with_primary_from_member(t, sds, a, r)
        PROVE  u.max = t.max /\ u.sds = kept
    BY <2>3 DEF _update_rs_with_primary_from_member, kept, popped, Description
  <2> QED
    BY <1>6, <2>1, <2>2, <2>3
<1>9. CASE u.max = t.max /\ u.sds = popped
  BY <1>2, <1>7, <1>9 DEF Elected
<1>10. CASE r.type # "RSPrimary" /\ u.max = t.max /\ u.sds \in {member, kept, sds}
  BY <1>2, <1>5, <1>7, <1>10 DEF Elected
<1>11. CASE r.type = "RSPrimary" /\ u = _update_rs_from_primary(t, sds, a, r)
  <2>1. \A p, q \in Primaries(t.sds) \ {a} : p = q
    BY <1>4, <1>7 DEF Sound, AtMostOne
  <2> QED
    BY <1>7, <1>11, <2>1, PrimaryElected DEF sds, server
<1> QED
  BY <1>8, <1>9, <1>10, <1>11

\* With the greatest election at hand, one that is not stale is not before it.
LEMMA ElectionStep ==
  ASSUME IInv, ElectionInv, NEW a \in Addresses, NEW r \in Replies, on_change(a, r)
  PROVE  ElectionInv'
<1> USE TopologyAssumption
<1> DEFINE e == r.election
<1>1. /\ e \in Election /\ e = <<e[1], e[2]>> /\ e[1] \in Number /\ e[2] \in Number
      /\ r \in Reply
  BY DEF Reply, Election
<1>2. /\ newest[1] \in Number /\ newest[2] \in Number /\ newest \in Election
      /\ td.max[1] \in Number /\ td.max[2] \in Number /\ td.max \in Election
      /\ td \in Description /\ Sound(td)
  BY DEF IInv, Description, Election
<1>3. newest' = IF a \in Primaries(td'.sds) /\ r.type = "RSPrimary" /\ Complete(e)
                   /\ (newest[1] = None \/ Exceeds(e, newest))
                THEN e ELSE newest
  BY DEF on_change
<1> HIDE DEF e
<1>4. newest'[1] # None => Complete(newest')
  BY <1>1, <1>2, <1>3 DEF ElectionInv, Complete
<1>5. ASSUME td'.type # "Single", newest'[1] # None
      PROVE  /\ Complete(td'.max) /\ NotBefore(td'.max, newest')
             /\ \A p \in Primaries(td'.sds) :
                  Complete(td'.sds[p].election) => NotBefore(td'.sds[p].election, newest')
  <2>1. td.type # "Single" /\ Elected(td, td', a, r)
    BY <1>1, <1>2, <1>5, UpdatedElection DEF on_change
  <2>2. CASE td'.max = td.max /\ Fewer(td'.sds, td.sds, a)
    BY <1>3, <1>5, <2>1, <2>2 DEF ElectionInv, Fewer
  <2>3. CASE /\ r.type = "RSPrimary" /\ ~StalePrimary(td.max, e)
             /\ td'.max = NewMax(td.max, e)
             /\ \A p \in Primaries(td'.sds) : p = a /\ td'.sds[p].election = e
    <3>1. newest[1] # None => Complete(td.max) /\ NotBefore(td.max, newest)
      BY <2>1 DEF ElectionInv
    <3>2. Complete(td'.max) /\ NotBefore(td'.max, newest')
      BY <1>1, <1>2, <1>3, <1>4, <1>5, <2>3, <3>1
      DEF StalePrimary, NewMax, Complete, NotBefore, Exceeds, Number, Election
    <3>3. ASSUME NEW p \in Primaries(td'.sds), Complete(e)
          PROVE  NotBefore(e, newest')
      BY <1>1, <1>2, <1>3, <1>4, <2>3, <3>1, <3>3
      DEF StalePrimary, Complete, NotBefore, Exceeds, Number
    <3> QED
      BY <2>3, <3>2, <3>3
  <2> QED
    BY <2>1, <2>2, <2>3 DEF Elected, e
<1> QED
  BY <1>4, <1>5 DEF ElectionInv

LEMMA StepElection ==
  ASSUME IInv, ElectionInv, [Next]_vars
  PROVE  ElectionInv'
<1>1. ASSUME td'.type = td.type \/ td.type # "Single", td'.max = td.max,
             UNCHANGED newest,
             \A p \in Primaries(td'.sds) : p \in Primaries(td.sds) /\ td'.sds[p] = td.sds[p]
      PROVE  ElectionInv'
  BY <1>1 DEF ElectionInv
<1>2. CASE Open \/ (\E seedlist \in Polls : Lookup(seedlist)) \/ UNCHANGED vars
  BY <1>1, <1>2 DEF Open, Lookup, vars
<1>3. CASE on_srv_update
  <2>1. CASE td' = td
    BY <1>1, <1>3, <2>1 DEF on_srv_update
  <2>2. CASE td' = [td EXCEPT !.sds = [x \in found |-> IF x \in DOMAIN td.sds
                                                       THEN td.sds[x] ELSE Unknown]]
    <3>1. /\ td'.type = td.type /\ td'.max = td.max
          /\ td'.sds = [x \in found |-> IF x \in DOMAIN td.sds THEN td.sds[x] ELSE Unknown]
      BY <2>2 DEF IInv, Description
    <3>2. \A p \in Primaries(td'.sds) : p \in Primaries(td.sds) /\ td'.sds[p] = td.sds[p]
      BY <3>1, UnknownType DEF Primaries, Known
    <3> QED
      BY <1>1, <1>3, <3>1, <3>2 DEF on_srv_update
  <2> QED
    BY <1>3, <2>1, <2>2, Zenon DEF on_srv_update
<1>4. CASE Close
  <2>1. /\ td'.max = td.max /\ (td'.type = td.type \/ td.type # "Single")
        /\ td'.sds = [x \in DOMAIN td.sds |-> Unknown] /\ UNCHANGED newest
    BY <1>4 DEF Close, reset, IInv, Description
  <2>2. Primaries(td'.sds) = {}
    BY <2>1, UnknownType DEF Primaries, Known
  <2> QED
    BY <1>1, <2>1, <2>2
<1>5. ASSUME NEW a \in Addresses, NEW r \in Replies, on_change(a, r) PROVE ElectionInv'
  BY <1>5, ElectionStep
<1> QED
  BY <1>2, <1>3, <1>4, <1>5 DEF Next

-----------------------------------------------------------------------------
\* The description, and what is around it, keeps its types.
THEOREM TypeCorrect == Spec => []TypeOK
<1>1. IInv => TypeOK
  BY ServersAre DEF IInv, TypeOK, Description
<1> QED
  BY <1>1, InvariantHolds, PTL

\* No order of replies, polls, closes and reopenings makes a client take two
\* servers for the primary of its replica set (_update_rs_from_primary).
THEOREM OnePrimaryHolds == Spec => []OnePrimary
<1>1. IInv => OnePrimary
  <2> SUFFICES ASSUME IInv, td.type # "Single" PROVE Cardinality(Primaries(td.sds)) <= 1
    BY DEF OnePrimary
  <2>1. AtMostOne(td.sds)
    BY DEF IInv, Description, TopologyType, Sound, AtMostOne
  <2>2. CASE Primaries(td.sds) = {}
    BY <2>2, FS_EmptySet
  <2>3. ASSUME NEW p \in Primaries(td.sds) PROVE Cardinality(Primaries(td.sds)) <= 1
    <3>1. Primaries(td.sds) = {p}
      BY <2>1, <2>3 DEF AtMostOne
    <3>2. Cardinality({p}) = 1
      BY FS_Singleton
    <3> QED
      BY <3>1, <3>2
  <2> QED
    BY <2>2, <2>3
<1> QED
  BY <1>1, InvariantHolds, PTL

\* No reply that comes late, and no close of the client, brings a primary back
\* whose election is older than one that was taken (_update_rs_from_primary,
\* max_set_version and max_election_id).
THEOREM NoStepBackHolds == Spec => []NoStepBack
<1>1. Init => ElectionInv
  BY DEF Init, ElectionInv
<1>2. IInv /\ ElectionInv => NoStepBack
  <2> SUFFICES ASSUME IInv, ElectionInv, NEW a \in Primaries(td.sds), td.type # "Single",
                      Complete(td.sds[a].election), newest[1] # None
               PROVE  ~Exceeds(newest, td.sds[a].election)
    BY DEF NoStepBack
  <2> DEFINE e == td.sds[a].election
  <2>1. NotBefore(e, newest) /\ Complete(newest)
    BY DEF ElectionInv
  <2>2. td.sds \in ServerMap /\ a \in DOMAIN td.sds
    BY DEF IInv, Description, Primaries, Known
  <2>3. e \in Election
    BY <2>2, ServersAre DEF ServerDescription
  <2> HIDE DEF e
  <2>4. e[1] \in Nat /\ e[2] \in Nat /\ newest[1] \in Nat /\ newest[2] \in Nat
    BY <2>1, <2>3 DEF e, IInv, Election, Number, Complete
  <2> QED
    BY <2>1, <2>4 DEF NotBefore, Exceeds, e
<1> QED
  BY <1>1, <1>2, InvariantHolds, StepElection, PTL DEF Spec

-----------------------------------------------------------------------------
(* 2. Server selection: natural numbers, and the least and the greatest of *)
(* a set.                                                                  *)

\* There is no infinite descent, so a set of natural numbers has a least one.
LEMMA LeastNatural ==
  ASSUME NEW S \in SUBSET Nat, S # {}
  PROVE  \E m \in S : \A n \in S : m <= n
<1> DEFINE Less == {p \in Nat \X Nat : p[1] < p[2]}
<1>1. OpToRel(<, Nat) = Less
  BY DEF OpToRel
<1>2. IsWellFoundedOn(Less, Nat)
  BY <1>1, NatLessThanWellFounded
<1> HIDE DEF Less
<1>3. PICK m \in S : \A n \in S : ~(<<n, m>> \in Less)
  BY <1>2, WFMin
<1>4. ASSUME NEW n \in S PROVE m <= n
  <2>1. n \in Nat /\ m \in Nat
    OBVIOUS
  <2>2. n < m => <<n, m>> \in Less
    BY <2>1 DEF Less
  <2> QED
    BY <1>3, <2>1, <2>2
<1> QED
  BY <1>4

\* Induction: the least number outside S would have a predecessor in it.
LEMMA NaturalInduction ==
  ASSUME NEW S, 0 \in S, \A n \in Nat : n \in S => n + 1 \in S
  PROVE  Nat \subseteq S
<1> SUFFICES ASSUME Nat \ S # {} PROVE FALSE
  OBVIOUS
<1>1. Nat \ S \in SUBSET Nat
  OBVIOUS
<1>2. PICK m \in Nat \ S : \A n \in Nat \ S : m <= n
  BY <1>1, LeastNatural, Zenon
<1>3. m # 0 /\ m - 1 \in Nat /\ m - 1 < m
  BY <1>2
<1> QED
  BY <1>2, <1>3

\* What Min gives: also of an infinite set.
LEMMA LeastOf ==
  ASSUME NEW S \in SUBSET Nat, S # {}
  PROVE  Min(S) \in S /\ \A y \in S : Min(S) <= y
BY LeastNatural DEF Min

\* What Max gives, by induction on the size of the set.
LEMMA GreatestOf ==
  ASSUME NEW S \in SUBSET Int, IsFiniteSet(S), S # {}
  PROVE  Max(S) \in S /\ \A y \in S : Max(S) >= y
<1> DEFINE HasGreatest(T) == \E m \in T : \A y \in T : m >= y
           Sizes == {n \in Nat : \A T \in SUBSET Int :
                       IsFiniteSet(T) /\ Cardinality(T) = n /\ T # {} => HasGreatest(T)}
<1>1. 0 \in Sizes
  BY FS_EmptySet
<1>2. ASSUME NEW n \in Nat, n \in Sizes PROVE n + 1 \in Sizes
  <2> SUFFICES ASSUME NEW T \in SUBSET Int, IsFiniteSet(T), Cardinality(T) = n + 1, T # {}
               PROVE  HasGreatest(T)
    OBVIOUS
  <2>1. PICK x \in T : TRUE
    OBVIOUS
  <2>2. IsFiniteSet(T \ {x}) /\ Cardinality(T \ {x}) = n
    <3>1. IsFiniteSet(T \ {x}) /\ Cardinality(T \ {x}) = Cardinality(T) - 1
      BY FS_RemoveElement
    <3> QED
      BY <3>1
  <2>3. CASE T \ {x} = {}
    BY <2>1, <2>3
  <2>4. CASE T \ {x} # {}
    <3>1. PICK m \in T \ {x} : \A y \in T \ {x} : m >= y
      BY <1>2, <2>2, <2>4
    <3>2. CASE x >= m
      <4>1. ASSUME NEW y \in T PROVE x >= y
        BY <3>1, <3>2
      <4> QED
        BY <4>1
    <3>3. CASE ~(x >= m)
      <4>1. ASSUME NEW y \in T PROVE m >= y
        BY <3>1, <3>3
      <4> QED
        BY <4>1
    <3> QED
      BY <3>2, <3>3
  <2> QED
    BY <2>3, <2>4
<1> HIDE DEF Sizes
<1>3. Nat \subseteq Sizes
  BY <1>1, <1>2, NaturalInduction
<1>4. Cardinality(S) \in Nat
  BY FS_CardinalityType
<1>5. HasGreatest(S)
  BY <1>3, <1>4 DEF Sizes
<1> QED
  BY <1>5 DEF Max

-----------------------------------------------------------------------------
\* What a call has to go by, and what it has answered. There is one primary at
\* most, so that it does not matter which one Selection takes.
SInv ==
  /\ topology_type \in {"Sharded", "ReplicaSet"}
  /\ hello \in [Servers -> ServerDescriptions(Types(topology_type))]
  /\ selector \in Selectors
  /\ \A p, q \in Of("RSPrimary") : p = q
  /\ outcome = "selected" => ~Refused /\ result = apply_selector

\* The numbers that are compared.
LEMMA HelloIs ==
  ASSUME SInv, NEW s \in Servers
  PROVE  /\ hello[s].rtt \in Nat /\ hello[s].age \in Nat
         /\ hello[s].last_update_time \in Nat
         /\ last_write_date(s) \in Int
<1>1. hello[s] \in ServerDescriptions(Types(topology_type))
  BY DEF SInv
<1>2. /\ hello[s].rtt \in RoundTripTimes /\ hello[s].age \in Ages
      /\ hello[s].last_update_time \in HelloTimes
  BY <1>1 DEF ServerDescriptions
<1>3. /\ hello[s].rtt \in Nat /\ hello[s].age \in Nat
      /\ hello[s].last_update_time \in Nat
  BY <1>2, ServerSelectionAssumption
<1>4. last_write_date(s) \in Int
  BY <1>3 DEF last_write_date
<1> QED
  BY <1>3, <1>4

\* Of servers to choose from, the nearest one is within the threshold.
LEMMA Near ==
  ASSUME SInv, NEW S \in SUBSET Servers
  PROVE  /\ apply_local_threshold(S) \subseteq S
         /\ S # {} => apply_local_threshold(S) # {}
<1> DEFINE times == {hello[s].rtt : s \in S}
<1>1. times \in SUBSET Nat
  BY HelloIs
<1>2. ASSUME S # {} PROVE \E s \in S : hello[s].rtt = Min(times)
  <2>1. times # {}
    BY <1>2
  <2>2. Min(times) \in times
    BY <1>1, <2>1, LeastOf
  <2> QED
    BY <2>2
<1>3. ASSUME NEW s \in S, hello[s].rtt = Min(times) PROVE s \in apply_local_threshold(S)
  <2>1. hello[s].rtt - Min(times) <= LocalThreshold
    BY <1>3, HelloIs, ServerSelectionAssumption
  <2> QED
    BY <2>1 DEF apply_local_threshold
<1> QED
  BY <1>2, <1>3 DEF apply_local_threshold

\* Selectors without a read preference set no limit.
LEMMA SelectorIs ==
  ASSUME SInv
  PROVE  /\ selector.max_staleness \in Nat \cup {-1}
         /\ selector.mode \in {"Writable", "Primary"} => selector.max_staleness = -1
         /\ selector.mode \in {"Writable", "Primary"} \cup Modes
         /\ Len(selector.tag_sets) \in Nat
         /\ DOMAIN selector.tag_sets = 1 .. Len(selector.tag_sets)
<1>1. CASE selector \in [mode : {"Writable", "Primary"}, tag_sets : {<<{}>>},
                         max_staleness : {-1}]
  BY <1>1
<1>2. CASE selector \in [mode : Modes, tag_sets : TagSetLists, max_staleness : Stalenesses]
  <2>1. selector.mode \in Modes /\ selector.tag_sets \in TagSetLists
        /\ selector.max_staleness \in Stalenesses
    BY <1>2
  <2>2. selector.mode \notin {"Writable", "Primary"}
    BY <2>1 DEF Modes
  <2> QED
    BY <2>1, <2>2, ServerSelectionAssumption
<1> QED
  BY <1>1, <1>2 DEF SInv, Selectors

\* The primary of the selection is any member that is one.
LEMMA PrimaryIs ==
  ASSUME SInv
  PROVE  /\ primary_selection = Of("RSPrimary")
         /\ \A p \in Of("RSPrimary") : primary = p
<1>1. primary_selection = Of("RSPrimary")
  BY DEF primary_selection, known_servers, Of
<1>2. ASSUME NEW p \in Of("RSPrimary") PROVE primary = p
  <2>1. primary \in Of("RSPrimary")
    BY <1>1, <1>2 DEF primary
  <2> QED
    BY <2>1 DEF SInv
<1> QED
  BY <1>1, <1>2

\* The tags that count are the first that some server has.
LEMMA FirstTags ==
  ASSUME SInv, NEW S, NEW s \in apply_tag_sets(selector.tag_sets, S)
  PROVE  /\ s \in S
         /\ \E i \in DOMAIN selector.tag_sets :
              /\ selector.tag_sets[i] \subseteq hello[s].tags
              /\ \A j \in 1 .. i - 1, t \in S : ~(selector.tag_sets[j] \subseteq hello[t].tags)
<1> DEFINE list == selector.tag_sets
           hits == {i \in DOMAIN list : apply_single_tag_set(list[i], S) # {}}
<1>1. hits # {} /\ s \in apply_single_tag_set(list[Min(hits)], S)
  BY DEF apply_tag_sets
<1>2. Len(list) \in Nat /\ DOMAIN list = 1 .. Len(list)
  BY SelectorIs
<1>3. hits \in SUBSET Nat
  BY <1>2
<1>4. Min(hits) \in hits /\ \A j \in hits : Min(hits) <= j
  BY <1>1, <1>3, LeastOf
<1>5. Min(hits) \in DOMAIN list /\ \A j \in DOMAIN list : j < Min(hits) => j \notin hits
  <2>1. Min(hits) \in DOMAIN list /\ Min(hits) \in Nat /\ \A j \in DOMAIN list : j \in Nat
    BY <1>2, <1>3, <1>4
  <2>2. \A j \in DOMAIN list : j \in hits => ~(j < Min(hits))
    BY <1>4, <2>1
  <2> QED
    BY <2>1, <2>2
<1> HIDE DEF hits
<1>6. ASSUME NEW j \in 1 .. Min(hits) - 1, NEW t \in S PROVE ~(list[j] \subseteq hello[t].tags)
  <2>1. j \in DOMAIN list /\ j < Min(hits)
    BY <1>2, <1>5
  <2>2. apply_single_tag_set(list[j], S) = {}
    BY <1>5, <2>1 DEF hits
  <2> QED
    BY <2>2 DEF apply_single_tag_set
<1> QED
  BY <1>1, <1>5, <1>6 DEF apply_single_tag_set

\* A server that has the tags of one set is not turned away with all the others.
LEMMA SomeTags ==
  ASSUME SInv, NEW S, NEW t \in S, NEW i \in DOMAIN selector.tag_sets,
         selector.tag_sets[i] \subseteq hello[t].tags
  PROVE  apply_tag_sets(selector.tag_sets, S) # {}
<1> DEFINE list == selector.tag_sets
           hits == {k \in DOMAIN list : apply_single_tag_set(list[k], S) # {}}
<1>1. i \in hits
  BY DEF apply_single_tag_set
<1>2. hits \in SUBSET Nat
  BY SelectorIs
<1>3. Min(hits) \in hits
  BY <1>1, <1>2, LeastOf
<1> QED
  BY <1>1, <1>3 DEF apply_tag_sets

\* The filters add no server.
LEMMA SelectKeeps ==
  ASSUME SInv, NEW max, NEW S PROVE select(max, S) \subseteq S
  BY DEF select, _with_primary, _no_primary, Fresh

LEMMA TagsKeep ==
  ASSUME SInv, NEW S PROVE apply_tag_sets(selector.tag_sets, S) \subseteq S
  BY FirstTags

LEMMA CallKeeps ==
  ASSUME SInv
  PROVE  Call(known_servers) \subseteq known_servers
<1> DEFINE K == known_servers
           F == select(selector.max_staleness, K)
<1>1. F \subseteq K /\ primary_selection \subseteq K
  BY SelectKeeps DEF primary_selection
<1>2. secondary_with_tags(K) \subseteq K
  BY <1>1, TagsKeep DEF secondary_with_tags, secondary_server_selector
<1>3. apply_tag_sets(selector.tag_sets, readable_server_selector(F)) \subseteq K
  BY <1>1, TagsKeep DEF readable_server_selector, writable_server_selector,
                        secondary_server_selector
<1>4. writable_server_selector(K) \subseteq K
  BY DEF writable_server_selector
<1>5. SecondaryPreferred(K) \subseteq K
  BY <1>1, <1>2 DEF SecondaryPreferred
<1> HIDE DEF K
<1>6. selector.mode \in {"Writable", "Primary"} \cup Modes
  BY SelectorIs
<1> QED
  BY <1>1, <1>2, <1>3, <1>4, <1>5, <1>6 DEF Call, Modes, K

\* The choice depends on nothing that a call changes.
LEMMA SameChoice ==
  ASSUME UNCHANGED <<topology_type, hello, selector>>
  PROVE  Refused' = Refused /\ apply_selector' = apply_selector
<1> USE DEF primary_selection, primary, known_servers
<1>1. Refused' = Refused
  BY DEF Refused, _validate_max_staleness
<1> QED
  BY <1>1 DEF apply_selector, apply_local_threshold, Call, secondary_with_tags, SecondaryPreferred,
    apply_tag_sets, apply_single_tag_set, select, _with_primary, _no_primary, Fresh,
    last_write_date, secondary_server_selector, writable_server_selector,
    readable_server_selector

LEMMA SInvariance == SSpec => []SInv
<1>1. SInit => SInv
  <2> SUFFICES ASSUME SInit PROVE SInv
    OBVIOUS
  <2>1. IsFiniteSet(Of("RSPrimary")) /\ Cardinality(Of("RSPrimary")) <= 1
    BY FS_Subset, ServerSelectionAssumption DEF SInit, Of
  <2>2. ASSUME NEW p \in Of("RSPrimary"), NEW q \in Of("RSPrimary"), p # q PROVE FALSE
    <3>1. Cardinality(Of("RSPrimary")) \in Nat /\ Cardinality(Of("RSPrimary")) # 0
      BY <2>1, <2>2, FS_CardinalityType, FS_EmptySet
    <3>2. Cardinality(Of("RSPrimary")) = 1
      BY <2>1, <3>1
    <3> QED
      BY <2>1, <2>2, <3>2, FS_Singleton
  <2> QED
    BY <2>2 DEF SInit, SInv
<1>2. SInv /\ [SNext]_svars => SInv'
  <2> SUFFICES ASSUME SInv, [SNext]_svars PROVE SInv'
    OBVIOUS
  <2>1. CASE Select
    <3>1. /\ UNCHANGED <<topology_type, hello, selector>>
          /\ outcome' = "selected" => ~Refused /\ result' = apply_selector
      BY <2>1 DEF Select
    <3>2. outcome' = "selected" => ~Refused' /\ result' = apply_selector'
      BY <3>1, SameChoice
    <3> QED
      BY <3>1, <3>2 DEF SInv, Of
  <2>2. CASE UNCHANGED svars
    <3>1. UNCHANGED <<topology_type, hello, selector, outcome, result>>
      BY <2>2 DEF svars
    <3>2. Refused' = Refused /\ apply_selector' = apply_selector
      BY <3>1, SameChoice
    <3> QED
      BY <3>1, <3>2 DEF SInv, Of
  <2> QED
    BY <2>1, <2>2 DEF SNext
<1> QED
  BY <1>1, <1>2, PTL DEF SSpec

\* What is known of a call that has selected.
LEMMA Chosen ==
  ASSUME SInv, InReplicaSet
  PROVE  /\ ~Refused /\ Call(known_servers) \subseteq Servers
         /\ result \subseteq Call(known_servers)
         /\ Call(known_servers) # {} => result # {}
<1>1. ~Refused /\ result = apply_local_threshold(Call(known_servers))
  BY DEF SInv, InReplicaSet, apply_selector
<1>2. Call(known_servers) \subseteq Servers
  BY CallKeeps DEF known_servers
<1> QED
  BY <1>1, <1>2, Near

\* A secondary that is chosen has passed the filter by staleness.
LEMMA MembersChosen ==
  ASSUME SInv, Limited, NEW s \in result, hello[s].type = "RSSecondary"
  PROVE  s \in select(selector.max_staleness, known_servers)
<1> DEFINE F == select(selector.max_staleness, known_servers)
<1>1. s \in Call(known_servers) /\ selector.mode \in Modes
  BY Chosen, SelectorIs DEF Limited
<1>2. secondary_with_tags(known_servers) \subseteq F
  BY TagsKeep DEF secondary_with_tags, secondary_server_selector
<1>3. apply_tag_sets(selector.tag_sets, readable_server_selector(F)) \subseteq F
  BY TagsKeep DEF readable_server_selector, writable_server_selector,
                  secondary_server_selector
<1>4. s \notin primary_selection
  BY DEF primary_selection
<1> HIDE DEF F
<1> QED
  BY <1>1, <1>2, <1>3, <1>4 DEF Call, Modes, SecondaryPreferred, F

\* What that filter says if there is a primary.
LEMMA FreshWithPrimary ==
  ASSUME SInv, NEW p \in Of("RSPrimary"), NEW max, max # -1, NEW S
  PROVE  select(max, S) =
           {s \in S : hello[s].type = "RSSecondary" =>
                        hello[s].age - hello[p].age + HeartbeatFrequency <= max}
<1>1. primary = p /\ primary_selection # {}
  BY PrimaryIs
<1> QED
  BY <1>1 DEF select, _with_primary, Fresh

\* The filter by staleness leaves those that are up to date
\* (max_staleness_selectors).
LEMMA UpToDateStays ==
  ASSUME SInv, InReplicaSet, selector.mode = "Secondary",
         NEW s \in Of("RSSecondary"), UpToDate(s)
  PROVE  s \in select(selector.max_staleness, known_servers)
<1> USE ServerSelectionAssumption
<1> DEFINE max == selector.max_staleness
           secondaries == secondary_server_selector(known_servers)
<1>1. s \in known_servers /\ s \in Servers /\ secondaries = Of("RSSecondary")
  BY DEF known_servers, Of, secondary_server_selector
<1>2. CASE max = -1
  BY <1>1, <1>2 DEF select
<1>3. ASSUME max # -1
      PROVE  max \in Nat /\ max >= HeartbeatFrequency + IdleWritePeriod
  BY <1>3, Chosen, SelectorIs DEF InReplicaSet, Refused, _validate_max_staleness
<1>4. CASE max # -1 /\ Of("RSPrimary") # {}
  <2>1. PICK p \in Of("RSPrimary") : TRUE
    BY <1>4
  <2>2. hello[s].age \in Nat /\ hello[p].age \in Nat
    BY <1>1, HelloIs DEF Of
  <2>3. hello[s].age <= IdleWritePeriod
    BY <1>4 DEF UpToDate
  <2>4. hello[s].age - hello[p].age + HeartbeatFrequency <= max
    BY <1>3, <1>4, <2>2, <2>3
  <2> QED
    BY <1>1, <1>4, <2>4, FreshWithPrimary
<1>5. CASE max # -1 /\ Of("RSPrimary") = {}
  <2> DEFINE dates == {last_write_date(t) : t \in secondaries}
  <2>1. \A t \in secondaries : last_write_date(t) \in Int
    BY <1>1, HelloIs DEF Of, last_write_date
  <2>2. dates \in SUBSET Int /\ dates # {} /\ IsFiniteSet(dates)
    <3>1. IsFiniteSet(secondaries)
      BY <1>1, FS_Subset DEF Of
    <3>2. [t \in secondaries |-> last_write_date(t)] \in Surjection(secondaries, dates)
      BY DEF Surjection
    <3>3. IsFiniteSet(dates)
      BY <3>1, <3>2, FS_Surjection
    <3> QED
      BY <1>1, <2>1, <3>3
  <2>3. PICK t \in secondaries : last_write_date(t) = Max(dates)
    BY <2>2, GreatestOf
  <2>4. last_write_date(t) <= last_write_date(s)
    BY <1>1, <1>5, <2>3 DEF UpToDate
  <2>5. Max(dates) - last_write_date(s) + HeartbeatFrequency <= max
    BY <1>1, <1>3, <1>5, <2>1, <2>3, <2>4
  <2>6. primary_selection = {}
    BY <1>5, PrimaryIs
  <2> QED
    BY <1>1, <1>5, <2>5, <2>6 DEF select, _no_primary, Fresh
<1> QED
  BY <1>2, <1>4, <1>5

\* A later set of tags is used only if no secondary that is up to date, near or
\* far, has the tags of an earlier one, and a read finds a server as long as one
\* that is up to date has the tags of some set (apply_tag_sets, apply_selector).
THEOREM TagsInOrderHolds == SSpec => []TagsInOrder
<1> DEFINE left == secondary_server_selector(select(selector.max_staleness, known_servers))
<1>1. ASSUME SInv, InReplicaSet, selector.mode = "Secondary"
      PROVE  /\ Call(known_servers) = apply_tag_sets(selector.tag_sets, left)
             /\ \A t \in Of("RSSecondary") : UpToDate(t) => t \in left
  <2>1. Call(known_servers) = apply_tag_sets(selector.tag_sets, left)
    BY <1>1 DEF Call, secondary_with_tags
  <2>2. \A t \in Of("RSSecondary") : UpToDate(t) => t \in left
    BY <1>1, UpToDateStays DEF secondary_server_selector, Of
  <2> QED
    BY <2>1, <2>2
<1> HIDE DEF left
<1>2. ASSUME SInv, InReplicaSet, selector.mode = "Secondary", NEW s \in result
      PROVE  \E i \in DOMAIN selector.tag_sets :
               /\ selector.tag_sets[i] \subseteq hello[s].tags
               /\ \A j \in 1 .. i - 1, t \in Of("RSSecondary") :
                    UpToDate(t) => ~(selector.tag_sets[j] \subseteq hello[t].tags)
  <2>1. s \in apply_tag_sets(selector.tag_sets, left)
    BY <1>1, <1>2, Chosen
  <2>2. PICK i \in DOMAIN selector.tag_sets :
          /\ selector.tag_sets[i] \subseteq hello[s].tags
          /\ \A j \in 1 .. i - 1, t \in left : ~(selector.tag_sets[j] \subseteq hello[t].tags)
    BY <1>2, <2>1, FirstTags
  <2>3. \A t \in Of("RSSecondary") : UpToDate(t) => t \in left
    BY <1>1, <1>2
  <2>4. \A j \in 1 .. i - 1, t \in Of("RSSecondary") :
          UpToDate(t) => ~(selector.tag_sets[j] \subseteq hello[t].tags)
    BY <2>2, <2>3, Zenon
  <2> QED
    BY <2>2, <2>4
<1>3. ASSUME SInv, InReplicaSet, selector.mode = "Secondary",
             NEW t \in Of("RSSecondary"), NEW i \in DOMAIN selector.tag_sets,
             UpToDate(t), selector.tag_sets[i] \subseteq hello[t].tags
      PROVE  result # {}
  <2>1. t \in left
    BY <1>1, <1>3
  <2>2. Call(known_servers) # {}
    BY <1>1, <1>3, <2>1, SomeTags
  <2> QED
    BY <1>3, <2>2, Chosen
<1>4. SInv => TagsInOrder
  BY <1>2, <1>3 DEF TagsInOrder
<1> QED
  BY <1>4, SInvariance, PTL

\* A secondary that is chosen is not staler than asked, and a read is not left
\* without a server while a secondary is up to date, or while there is one and
\* no primary (max_staleness_selectors).
THEOREM StalenessBoundHolds == SSpec => []StalenessBound
<1> USE ServerSelectionAssumption
<1> DEFINE max == selector.max_staleness
           secondaries == secondary_server_selector(known_servers)
<1>1. ASSUME SInv, Limited, NEW s \in result, NEW p \in Of("RSPrimary"),
             hello[s].type = "RSSecondary", hello[p].age <= IdleWritePeriod
      PROVE  hello[s].age + HeartbeatFrequency <= max + IdleWritePeriod
  <2>1. s \in select(max, known_servers) /\ max # -1
    BY <1>1, MembersChosen DEF Limited
  <2>2. hello[s].age - hello[p].age + HeartbeatFrequency <= max
    BY <1>1, <2>1, FreshWithPrimary
  <2>3. hello[s].age \in Nat /\ hello[p].age \in Nat /\ max \in Nat
    <3>1. s \in Servers /\ p \in Servers
      BY <2>1, SelectKeeps, <1>1 DEF known_servers, Of
    <3> QED
      BY <1>1, <2>1, <3>1, HelloIs, SelectorIs
  <2> QED
    BY <1>1, <2>2, <2>3
<1>2. ASSUME SInv, Limited, selector.mode = "Secondary", selector.tag_sets = <<{}>>,
             NEW s \in Of("RSSecondary"),
             Of("RSPrimary") # {} => hello[s].age <= IdleWritePeriod
      PROVE  result # {}
  <2>1. \E t \in Of("RSSecondary") : UpToDate(t)
    <3>1. CASE Of("RSPrimary") # {}
      BY <1>2, <3>1 DEF UpToDate
    <3>2. CASE Of("RSPrimary") = {}
      <4> DEFINE S == Of("RSSecondary")
                 dates == {last_write_date(t) : t \in S}
      <4>1. \A t \in S : last_write_date(t) \in Int
        BY <1>2, HelloIs DEF Of, last_write_date
      <4>2. IsFiniteSet(S)
        BY FS_Subset DEF Of
      <4>3. [t \in S |-> last_write_date(t)] \in Surjection(S, dates)
        BY DEF Surjection
      <4>4. dates \in SUBSET Int /\ dates # {} /\ IsFiniteSet(dates)
        BY <1>2, <4>1, <4>2, <4>3, FS_Surjection
      <4>5. PICK t \in S : last_write_date(t) = Max(dates)
        BY <4>4, GreatestOf
      <4>6. \A r \in S : last_write_date(r) <= last_write_date(t)
        BY <4>4, <4>5, GreatestOf
      <4> QED
        BY <3>2, <4>6 DEF UpToDate
    <3> QED
      BY <3>1, <3>2
  <2>2. PICK t \in Of("RSSecondary") : UpToDate(t)
    BY <2>1
  <2>3. t \in secondary_server_selector(select(max, known_servers))
    BY <1>2, <2>2, UpToDateStays DEF Limited, secondary_server_selector, Of
  <2>4. secondary_with_tags(known_servers) # {}
    <3>1. 1 \in DOMAIN selector.tag_sets /\ selector.tag_sets[1] \subseteq hello[t].tags
      BY <1>2
    <3> QED
      BY <1>2, <2>3, <3>1, SomeTags DEF secondary_with_tags
  <2> QED
    BY <1>2, <2>4, Chosen DEF Call, Limited
<1>3. SInv => StalenessBound
  <2> SUFFICES ASSUME SInv, Limited PROVE StalenessBound
    BY DEF StalenessBound
  <2>1. \A s \in result, p \in Of("RSPrimary") :
          hello[s].type = "RSSecondary" /\ hello[p].age <= IdleWritePeriod
            => hello[s].age + HeartbeatFrequency <= max + IdleWritePeriod
    BY <1>1
  <2>2. \A s \in Of("RSSecondary") : hello[s].age \in Nat
    BY HelloIs DEF Of
  <2>3. selector.mode = "Secondary" /\ selector.tag_sets = <<{}>> =>
          \/ result # {}
          \/ Of("RSSecondary") = {}
          \/ /\ Of("RSPrimary") # {}
             /\ \A s \in Of("RSSecondary") : hello[s].age > IdleWritePeriod
    BY <1>2, <2>2
  <2> QED
    BY <2>1, <2>3 DEF StalenessBound
<1> QED
  BY <1>3, SInvariance, PTL
=============================================================================
