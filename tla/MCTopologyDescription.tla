----------------------- MODULE MCTopologyDescription -----------------------
(* Two or three servers and the replies that tell the cases apart. *)
EXTENDS TopologyDescription, TLC

CONSTANTS a, b, c, rs, other

MCElections == {<<None, None>>, <<2, None>>, <<1, 1>>, <<1, 2>>, <<2, 1>>}
Plain(type) == [type |-> type, election |-> <<None, None>>, set |-> None,
                hosts |-> {}, me |-> TRUE]
MCReplies ==
  {Plain(type) : type \in {"Unknown", "Standalone", "Mongos", "RSGhost"}}
  \cup {[type |-> "RSPrimary", election |-> e, set |-> s, hosts |-> h,
         me |-> TRUE] :
          e \in MCElections, s \in {rs, other}, h \in {{a, b}, {b, c}}}
  \cup {[type |-> "RSSecondary", election |-> <<None, None>>, set |-> s,
         hosts |-> {a, b, c}, me |-> m] :
          s \in {rs, other}, m \in BOOLEAN}
MCPolls == {{a, b}, {c}}
=============================================================================
