------------------------- MODULE TopologyDescription -------------------------
(***************************************************************************)
(* What a client believes about its deployment: topology_description.py of *)
(* pymongo, under the hello replies of the monitors, the results of SRV    *)
(* polling, and the close and the reopening of the topology.py around it.  *)
(* Replies come in any order and say anything a server may say; whether a  *)
(* reply is older than what is known of its server is not this module's    *)
(* question (Topology's is), except for the elections of primaries.        *)
(***************************************************************************)
EXTENDS Naturals, FiniteSets

CONSTANTS
  Addresses,
  Seeds,     \* the addresses of the connection string or of the first lookup
  SetNames,  \* replica set names
  Replies,   \* the descriptions that may come out of a check
  Polls,     \* the seedlists that SRV polling may find; {} without an fqdn
  None       \* Python's None

VARIABLES
  td,       \* the TopologyDescription
  opened,   \* Topology._opened
  polling,  \* the executor of the SrvMonitor is not stopped
  found,    \* the seedlist of a poll that is not applied yet
  newest    \* history: the greatest election of a primary taken so far

vars == <<td, opened, polling, found, newest>>

ServerType == {"Unknown", "Standalone", "Mongos", "RSPrimary", "RSSecondary",
               "RSArbiter", "RSOther", "RSGhost"}
Member == {"RSSecondary", "RSArbiter", "RSOther"}
TopologyType == {"Unknown", "Single", "Sharded", "ReplicaSetNoPrimary",
                 "ReplicaSetWithPrimary"}
SRV_POLLING_TOPOLOGIES == {"Unknown", "Sharded"}

Number == Nat \cup {None}
\* <<set_version, election_id>>
Election == Number \X Number
ServerDescription == [type : ServerType, election : Election]
\* hosts is all_hosts; me: the reply gives no other name for the server.
Reply == [type : ServerType, election : Election, set : SetNames \cup {None},
          hosts : SUBSET Addresses, me : BOOLEAN]

ASSUME TopologyAssumption ==
  /\ None \notin Nat /\ None \notin SetNames
  /\ Seeds \subseteq Addresses /\ Seeds # {}
  /\ Replies \subseteq Reply
  /\ Polls \subseteq SUBSET Addresses /\ {} \notin Polls

Unknown == [type |-> "Unknown", election |-> <<None, None>>]

Init ==
  /\ \E set \in SetNames \cup {None}, direct \in BOOLEAN :
       td = [type |-> IF direct THEN "Single"
                      ELSE IF set = None THEN "Unknown"
                      ELSE "ReplicaSetNoPrimary",
             sds |-> [a \in Seeds |-> Unknown],
             set |-> set, max |-> <<None, None>>]
       /\ (direct => Cardinality(Seeds) = 1)
  /\ opened = FALSE /\ polling = FALSE /\ found = None
  /\ newest = <<None, None>>

-----------------------------------------------------------------------------
Known(sds, type) == {a \in DOMAIN sds : sds[a].type = type}
Primaries(sds) == Known(sds, "RSPrimary")
Pop(sds, a) == [x \in DOMAIN sds \ {a} |-> sds[x]]
Add(sds, hosts) == [x \in DOMAIN sds \cup hosts |->
                      IF x \in DOMAIN sds THEN sds[x] ELSE Unknown]

_check_has_primary(sds) ==
  IF Primaries(sds) # {} THEN "ReplicaSetWithPrimary"
                         ELSE "ReplicaSetNoPrimary"

Complete(e) == e[1] # None /\ e[2] # None
Exceeds(m, e) == m[1] > e[1] \/ (m[1] = e[1] /\ m[2] > e[2])

\* Faulty variant: the greater election alone decides.
StaleById(max, e) == Complete(e) /\ Complete(max) /\ max[2] > e[2]
StalePrimary(max, e) == Complete(e) /\ Complete(max) /\ Exceeds(max, e)

NewMax(max, e) ==
  << IF e[1] # None /\ (max[1] = None \/ e[1] > max[1]) THEN e[1] ELSE max[1],
     IF Complete(e) THEN e[2] ELSE max[2] >>

\* Faulty variant: the primary before keeps its type.
NotReset(sds, a) == sds
\* "There can be only one prior primary": the loop ends with the first one.
ResetPrior(sds, a) ==
  IF Primaries(sds) \ {a} = {} THEN sds
  ELSE [sds EXCEPT ![CHOOSE p \in Primaries(sds) \ {a} : TRUE] = Unknown]

\* t is the description, sds its servers with the reply r of a put in.
_update_rs_from_primary(t, sds, a, r) ==
  LET set == IF t.set = None THEN r.set ELSE t.set
      others == ResetPrior(sds, a)
      hosts == [x \in r.hosts |-> IF x \in DOMAIN others THEN others[x]
                                  ELSE Unknown]
      popped == Pop(sds, a)
      stale == [sds EXCEPT ![a] = Unknown]
  IN IF set # r.set
     THEN [t EXCEPT !.sds = popped, !.type = _check_has_primary(popped)]
     ELSE IF StalePrimary(t.max, r.election)
     THEN [t EXCEPT !.sds = stale, !.type = _check_has_primary(stale),
                    !.set = set]
     ELSE [type |-> _check_has_primary(hosts), sds |-> hosts, set |-> set,
           max |-> NewMax(t.max, r.election)]

_update_rs_with_primary_from_member(t, sds, a, r) ==
  LET new == IF t.set # r.set \/ ~r.me THEN Pop(sds, a) ELSE sds
  IN [t EXCEPT !.sds = new, !.type = _check_has_primary(new)]

_update_rs_no_primary_from_member(t, sds, a, r) ==
  LET set == IF t.set = None THEN r.set ELSE t.set
      new == IF set # r.set THEN Pop(sds, a)
             ELSE IF r.me THEN Add(sds, r.hosts)
             ELSE Pop(Add(sds, r.hosts), a)
  IN [t EXCEPT !.sds = new, !.set = set, !.type = "ReplicaSetNoPrimary"]

\* The type that the first server with a known type gives the topology.
FirstType(t, r) ==
  IF t.type # "Unknown" THEN t.type
  ELSE CASE r.type = "Standalone" /\ Cardinality(Seeds) = 1 -> "Single"
         [] r.type = "Mongos" -> "Sharded"
         [] r.type = "RSPrimary" -> "ReplicaSetWithPrimary"
         [] r.type \in Member -> "ReplicaSetNoPrimary"
         [] OTHER -> "Unknown"

updated_topology_description(t, a, r) ==
  LET sds == [t.sds EXCEPT ![a] = [type |-> r.type, election |-> r.election]]
      type == FirstType(t, r)
      new == [t EXCEPT !.sds = sds, !.type = type]
      popped == Pop(sds, a)
  IN CASE t.type = "Single" /\ t.set # None /\ t.set # r.set ->
            [new EXCEPT !.sds[a] = Unknown]
       [] \/ t.type = "Unknown" /\ type = "Unknown" /\ r.type = "Standalone"
          \/ type = "Sharded" /\ r.type \notin {"Mongos", "Unknown"}
          \/ type = "ReplicaSetNoPrimary" /\ r.type \in {"Standalone", "Mongos"}
            -> [new EXCEPT !.sds = popped]
       [] type = "ReplicaSetWithPrimary" /\ r.type \in {"Standalone", "Mongos"}
            -> [new EXCEPT !.sds = popped, !.type = _check_has_primary(popped)]
       [] type \in {"ReplicaSetNoPrimary", "ReplicaSetWithPrimary"}
          /\ r.type = "RSPrimary" -> _update_rs_from_primary(t, sds, a, r)
       [] type = "ReplicaSetNoPrimary" /\ r.type \in Member ->
            _update_rs_no_primary_from_member(t, sds, a, r)
       [] type = "ReplicaSetWithPrimary" /\ r.type \in Member ->
            _update_rs_with_primary_from_member(t, sds, a, r)
       [] type = "ReplicaSetWithPrimary" /\ r.type \in {"Unknown", "RSGhost"} ->
            [new EXCEPT !.type = _check_has_primary(sds)]
       [] OTHER -> new

-----------------------------------------------------------------------------
\* _ensure_opened: SRV polling starts with the monitors, if at all.
Open ==
  /\ ~opened /\ opened' = TRUE
  /\ polling' = (polling \/ (Polls # {} /\ td.type \in SRV_POLLING_TOPOLOGIES))
  /\ UNCHANGED <<td, found, newest>>

\* A check of the server a ended; a may have left the description meanwhile.
on_change(a, r) ==
  /\ opened /\ a \in DOMAIN td.sds
  /\ td' = updated_topology_description(td, a, r)
  /\ polling' = (polling /\ ~(td.type = "Unknown"
                              /\ td'.type \notin SRV_POLLING_TOPOLOGIES))
  /\ newest' = IF a \in Primaries(td'.sds) /\ r.type = "RSPrimary"
                  /\ Complete(r.election)
                  /\ (newest[1] = None \/ Exceeds(r.election, newest))
               THEN r.election ELSE newest
  /\ UNCHANGED <<opened, found>>

\* The SrvMonitor has looked the records up, with no lock held. A lookup that
\* fails leaves everything as it is.
Lookup(seedlist) ==
  /\ polling /\ found = None /\ found' = seedlist
  /\ UNCHANGED <<td, opened, polling, newest>>

on_srv_update ==
  /\ found # None /\ found' = None
  /\ td' = IF opened /\ found # DOMAIN td.sds
           THEN [td EXCEPT !.sds = [x \in found |-> IF x \in DOMAIN td.sds
                                                    THEN td.sds[x] ELSE Unknown]]
           ELSE td
  /\ UNCHANGED <<opened, polling, newest>>

reset(t) ==
  [t EXCEPT !.sds = [x \in DOMAIN @ |-> Unknown],
            !.type = IF @ = "ReplicaSetWithPrimary" THEN "ReplicaSetNoPrimary"
                     ELSE @]

\* Topology.close. A lookup under way goes on.
Close ==
  /\ opened /\ opened' = FALSE /\ polling' = FALSE
  /\ td' = reset(td)
  /\ UNCHANGED <<found, newest>>

Next ==
  \/ Open \/ Close \/ on_srv_update
  \/ \E a \in Addresses, r \in Replies : on_change(a, r)
  \/ \E s \in Polls : Lookup(s)

Spec == Init /\ [][Next]_vars

-----------------------------------------------------------------------------
TypeOK ==
  /\ td.type \in TopologyType /\ td.set \in SetNames \cup {None}
  /\ DOMAIN td.sds \subseteq Addresses
  /\ td.sds \in [DOMAIN td.sds -> ServerDescription]
  /\ td.max \in Election /\ newest \in Election
  /\ opened \in BOOLEAN /\ polling \in BOOLEAN
  /\ found \in (SUBSET Addresses) \cup {None}

\* No two servers are taken for the primary, so that the writes of a client
\* go to one server: the loop of _update_rs_from_primary, which resets one
\* prior primary, is enough. (Of a Single topology the replies are taken as
\* they are, and SRV polling may have given it more than one server.)
OnePrimary == td.type # "Single" => Cardinality(Primaries(td.sds)) <= 1

\* A primary whose election is older than one that was taken before is not
\* taken, however late its reply comes, and across a close of the client.
NoStepBack ==
  \A a \in Primaries(td.sds) :
    td.type # "Single" /\ Complete(td.sds[a].election) /\ newest[1] # None
      => ~Exceeds(newest, td.sds[a].election)

=============================================================================
