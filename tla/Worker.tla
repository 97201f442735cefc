-------------------------------- MODULE Worker --------------------------------
(***************************************************************************)
(* The worker pods: the processes of Mimesis, each in a pod that PodStart  *)
(* boots. Users run only where locust has started; when locust ends, or    *)
(* the node is lost, the users of the process are gone with it and the pod *)
(* boots again, from the files of the image.                               *)
(***************************************************************************)
EXTENDS Mimesis

CONSTANTS Image, Lists, Imports  \* see PodStart

VARIABLES
  boot,                             \* pc of PodStart
  requirements, installed, served   \* see PodStart

Pod == INSTANCE PodStart WITH Pods <- Workers, pc <- boot

pods == <<boot, requirements, installed, served>>
wvars == <<mvars, pods>>

WInit == MInit /\ Pod!Init

\* A user is constructed in a process that runs.
Construct(u) ==
  /\ boot[Of[u]] = "running"
  /\ Loader__init__(u) \/ Loader__init__Raises(u)

Work ==
  /\ \/ \E u \in Users : Construct(u) \/ Loader_bulkinsert(u)
     \/ Other
  /\ UNCHANGED pods

\* run.sh, and a list that is published.
Boot ==
  /\ (\E w \in Workers : Pod!Boot(w)) \/ Pod!Publish
  /\ UNCHANGED mvars

Ends(w) == Pod!Ends(w) /\ Restart(w)

WNext == Work \/ Boot \/ \E w \in Workers : Ends(w)

WSpec == WInit /\ [][WNext]_wvars
WFairSpec == WSpec /\ \A w \in Workers : Pod!Fair(w)

-----------------------------------------------------------------------------
\* A worker never runs with libraries of the list in the image, nor with a mixture
\* of two lists, one of them published between two starts of the pod: whichever
\* commands of run.sh fail or break off half-way, it runs not at all or with what
\* was served together; and users are in no process but one that runs.
ServedTogether ==
  /\ Pod!ServedTogether
  /\ \A u \in Users : pc[u] # "none" => boot[Of[u]] = "running"

\* A worker that was lost, or whose download or installation failed, comes to
\* run in the end, if every list that is served has what its locustfile
\* imports: no failure leaves anything behind for the next start.
Recovers == \A w \in Workers : boot[w] = "ended" ~> boot[w] = "running"
=============================================================================
