--------------------------- MODULE ServerSelection ---------------------------
(***************************************************************************)
(* The choice of a server: TopologyDescription.apply_selector with the     *)
(* read preferences and the selector of writes, as functions of what the   *)
(* monitors learned about the servers. One step is one call; Topology has  *)
(* the loop around it. Where there is no choice (a single server, a load   *)
(* balancer, a call for a given address) and custom selectors are left out.*)
(***************************************************************************)
EXTENDS Integers, Sequences, FiniteSets, FiniteSetsExt

CONSTANTS
  Servers,
  Ages,             \* how long before its last hello a server had last written
  HelloTimes,       \* when that hello came
  RoundTripTimes,
  TagSets,          \* the tags of a server
  TagSetLists,      \* tag_sets of a read preference
  Stalenesses,      \* max_staleness of a read preference, -1 for no limit
  LocalThreshold,
  HeartbeatFrequency, IdleWritePeriod, SmallestMaxStaleness

ASSUME ServerSelectionAssumption ==
  /\ IsFiniteSet(Servers)
  /\ Ages \subseteq Nat /\ HelloTimes \subseteq Nat
  /\ RoundTripTimes \subseteq Nat /\ LocalThreshold \in Nat
  /\ HeartbeatFrequency \in Nat /\ IdleWritePeriod \in Nat
  /\ SmallestMaxStaleness \in Nat /\ Stalenesses \subseteq Nat \cup {-1}
  /\ \A list \in TagSetLists : Len(list) \in Nat /\ DOMAIN list = 1 .. Len(list)

VARIABLES
  topology_type,
  hello,            \* the ServerDescriptions, as of the last hello
  selector,         \* the read preference, or the selector of writes
  outcome, result

svars == <<topology_type, hello, selector, outcome, result>>

Types(topology) ==
  CASE topology = "Sharded" -> {"Unknown", "Mongos"}
    [] topology = "ReplicaSet" -> {"Unknown", "RSPrimary", "RSSecondary", "RSArbiter"}

ServerDescriptions(types) ==
  [type : types, rtt : RoundTripTimes, tags : TagSets, age : Ages,
   last_update_time : HelloTimes]

Modes == {"PrimaryPreferred", "Secondary", "SecondaryPreferred", "Nearest"}

Selectors ==
  [mode : {"Writable", "Primary"}, tag_sets : {<<{}>>}, max_staleness : {-1}]
    \cup [mode : Modes, tag_sets : TagSetLists, max_staleness : Stalenesses]

SInit ==
  /\ topology_type \in {"Sharded", "ReplicaSet"}
  /\ hello \in [Servers -> ServerDescriptions(Types(topology_type))]
  /\ Cardinality({s \in Servers : hello[s].type = "RSPrimary"}) <= 1
  /\ selector \in Selectors
  /\ outcome = "pending" /\ result = {}

-----------------------------------------------------------------------------
(* Selection: a set of servers, and the primary.                           *)

known_servers == {s \in Servers : hello[s].type # "Unknown"}

\* The primary, if there is one.
primary_selection == {s \in known_servers : hello[s].type = "RSPrimary"}
primary == CHOOSE s \in primary_selection : TRUE

secondary_server_selector(S) == {s \in S : hello[s].type = "RSSecondary"}
writable_server_selector(S) ==
  {s \in S : hello[s].type \in {"RSPrimary", "Mongos"}}
readable_server_selector(S) ==
  writable_server_selector(S) \cup secondary_server_selector(S)

apply_single_tag_set(tag_set, S) == {s \in S : tag_set \subseteq hello[s].tags}

\* Faulty variant: the set is chosen before the members are turned away.
TagSetOfAll(tag_sets, S) ==
  LET all == {s \in Servers : hello[s].type = "RSSecondary"}
      hits == {i \in DOMAIN tag_sets : apply_single_tag_set(tag_sets[i], all) # {}}
  IN IF hits = {} THEN {} ELSE apply_single_tag_set(tag_sets[Min(hits)], S)

apply_tag_sets(tag_sets, S) ==
  LET hits == {i \in DOMAIN tag_sets : apply_single_tag_set(tag_sets[i], S) # {}}
  IN IF hits = {} THEN {} ELSE apply_single_tag_set(tag_sets[Min(hits)], S)

-----------------------------------------------------------------------------
(* max_staleness_selectors.                                                *)

_validate_max_staleness(max) ==
  max >= HeartbeatFrequency + IdleWritePeriod /\ max >= SmallestMaxStaleness

last_write_date(s) == hello[s].last_update_time - hello[s].age

Fresh(S, Staleness(_), max) ==
  {s \in S : hello[s].type = "RSSecondary" => Staleness(s) <= max}

\* Faulty variant: as of the last hello, not of the next one.
With_primary_now(max, S) ==
  LET Staleness(s) == hello[s].age - hello[primary].age IN Fresh(S, Staleness, max)

_with_primary(max, S) ==
  LET Staleness(s) == hello[s].age - hello[primary].age + HeartbeatFrequency
  IN Fresh(S, Staleness, max)

_no_primary(max, S) ==
  LET secondaries == secondary_server_selector(S)
      smax == Max({last_write_date(s) : s \in secondaries})
      Staleness(s) == smax - last_write_date(s) + HeartbeatFrequency
  IN IF secondaries = {} THEN {} ELSE Fresh(S, Staleness, max)

select(max, S) ==
  CASE max = -1 -> S
    [] max # -1 /\ primary_selection # {} -> _with_primary(max, S)
    [] max # -1 /\ primary_selection = {} -> _no_primary(max, S)

-----------------------------------------------------------------------------
secondary_with_tags(S) ==
  apply_tag_sets(selector.tag_sets,
                 secondary_server_selector(select(selector.max_staleness, S)))

SecondaryPreferred(S) ==
  IF secondary_with_tags(S) # {} THEN secondary_with_tags(S)
  ELSE primary_selection

\* The selector, or __call__ of the read preference.
Call(S) ==
  CASE selector.mode = "Writable" -> writable_server_selector(S)
    [] selector.mode = "Primary" -> primary_selection
    [] selector.mode = "PrimaryPreferred" ->
         IF primary_selection # {} THEN primary_selection ELSE secondary_with_tags(S)
    [] selector.mode = "Secondary" -> secondary_with_tags(S)
    [] selector.mode = "SecondaryPreferred" -> SecondaryPreferred(S)
    [] selector.mode = "Nearest" ->
         apply_tag_sets(selector.tag_sets,
           readable_server_selector(select(selector.max_staleness, S)))

\* Whether the call looks at max_staleness, and refuses it.
Refused ==
  /\ topology_type = "ReplicaSet" /\ selector.max_staleness # -1
  /\ ~(selector.mode = "PrimaryPreferred" /\ primary_selection # {})
  /\ ~_validate_max_staleness(selector.max_staleness)

apply_local_threshold(S) ==
  LET fastest == Min({hello[s].rtt : s \in S})
  IN {s \in S : hello[s].rtt - fastest <= LocalThreshold}

apply_selector ==
  CASE topology_type = "Sharded" -> apply_local_threshold(known_servers)
    [] topology_type = "ReplicaSet" -> apply_local_threshold(Call(known_servers))

Select ==
  /\ outcome = "pending"
  /\ IF Refused THEN outcome' = "ConfigurationError" /\ UNCHANGED result
     ELSE outcome' = "selected" /\ result' = apply_selector
  /\ UNCHANGED <<topology_type, hello, selector>>

SNext == Select
SSpec == SInit /\ [][SNext]_svars

-----------------------------------------------------------------------------
Of(type) == {s \in Servers : hello[s].type = type}
InReplicaSet == topology_type = "ReplicaSet" /\ outcome = "selected"

\* A secondary that no limit of staleness may turn away: it has written within
\* IDLE_WRITE_PERIOD of its hello, or, as there is no primary, none has written later.
UpToDate(t) ==
  \/ selector.max_staleness = -1
  \/ Of("RSPrimary") # {} /\ hello[t].age <= IdleWritePeriod
  \/ Of("RSPrimary") = {} /\ \A s \in Of("RSSecondary") :
                               last_write_date(s) <= last_write_date(t)

\* A later set of tags is a fallback (apply_tag_sets), and the filters by
\* staleness, tags and distance come one after the other (apply_selector). With
\* Secondary, none is chosen by a later set while one that is up to date, near
\* or far, has the tags of an earlier set; and as long as one that is up to date
\* has those of any set the read finds a server, if those that have the
\* tags of an earlier set were turned away for their staleness.
TagsInOrder ==
  InReplicaSet /\ selector.mode = "Secondary" =>
    /\ \A s \in result : \E i \in DOMAIN selector.tag_sets :
         /\ selector.tag_sets[i] \subseteq hello[s].tags
         /\ \A j \in 1 .. i - 1, t \in Of("RSSecondary") :
              UpToDate(t) => ~(selector.tag_sets[j] \subseteq hello[t].tags)
    /\ \A t \in Of("RSSecondary"), i \in DOMAIN selector.tag_sets :
         UpToDate(t) /\ selector.tag_sets[i] \subseteq hello[t].tags => result # {}

Limited == InReplicaSet /\ selector.max_staleness # -1

\* The maxStalenessSeconds of a read bounds how old the data is that a chosen
\* secondary had, counted to the time when its next hello is due, if the
\* primary has written within IDLE_WRITE_PERIOD; and it never leaves a read
\* without a server while a secondary is up to date, or while there are
\* secondaries and no primary to compare them with. This is what the least
\* value that is allowed for it is for.
StalenessBound ==
  Limited =>
    /\ \A s \in result, p \in Of("RSPrimary") :
         hello[s].type = "RSSecondary" /\ hello[p].age <= IdleWritePeriod
           => hello[s].age + HeartbeatFrequency
                <= selector.max_staleness + IdleWritePeriod
    /\ selector.mode = "Secondary" /\ selector.tag_sets = <<{}>> =>
         \/ result # {}
         \/ Of("RSSecondary") = {}
         \/ /\ Of("RSPrimary") # {}
            /\ \A s \in Of("RSSecondary") : hello[s].age > IdleWritePeriod
=============================================================================
