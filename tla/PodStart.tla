------------------------------ MODULE PodStart ------------------------------
(***************************************************************************)
(* How a pod of the deployment locust-worker comes to run locust: run.sh,  *)
(* in a container of the image that Kubernetes starts again whenever the   *)
(* script ends. The image has Python, and of the libraries only a list;    *)
(* run.sh goes on when a command of it fails, as it has no "set -e". The   *)
(* master's pod runs the same script without the download.                 *)
(***************************************************************************)
EXTENDS FiniteSets

CONSTANTS
  Pods,      \* the pods with a LOCUST_REQTS_PATH
  Image,     \* requirements.txt of the image, a set of requirements
  Lists,     \* what LOCUST_REQTS_PATH may serve
  Imports    \* locust, and the libraries that locustfile.py imports

VARIABLES
  pc,            \* the command of run.sh that is next
  requirements,  \* /locust-tasks/requirements.txt
  installed,     \* what pip has installed
  served         \* what LOCUST_REQTS_PATH serves

vars == <<pc, requirements, installed, served>>

Libraries(list) == {r.lib : r \in list}

Init ==
  /\ pc = [p \in Pods |-> "wget"]
  /\ requirements = [p \in Pods |-> Image]
  /\ installed = [p \in Pods |-> {}]
  /\ served \in Lists

\* -O empties the file first; what had come when the connection broke is kept.
Left(p) == SUBSET served

Wget(p) ==
  /\ pc[p] = "wget"
  /\ requirements' = [requirements EXCEPT ![p] = served]
  /\ pc' = [pc EXCEPT ![p] = "pip"]
  /\ UNCHANGED <<installed, served>>

WgetFails(p) ==
  /\ pc[p] = "wget"
  /\ \E left \in Left(p) : requirements' = [requirements EXCEPT ![p] = left]
  /\ pc' = [pc EXCEPT ![p] = "pip"]
  /\ UNCHANGED <<installed, served>>

\* pip puts a library in the place of another version of it.
Install(p, part) ==
  /\ installed' = [installed EXCEPT ![p] =
                     {r \in @ : r.lib \notin Libraries(part)} \cup part]
  /\ pc' = [pc EXCEPT ![p] = "locust"]
  /\ UNCHANGED <<requirements, served>>

Pip(p) == pc[p] = "pip" /\ Install(p, requirements[p])

\* A library is not found, before any is installed, or pip breaks off in
\* between.
PipFails(p) ==
  pc[p] = "pip" /\ \E part \in SUBSET requirements[p] : Install(p, part)

Locust(p) ==
  /\ pc[p] = "locust"
  /\ pc' = [pc EXCEPT ![p] =
              IF Imports \subseteq Libraries(installed[p])
              THEN "running" ELSE "ended"]
  /\ UNCHANGED <<requirements, installed, served>>

\* locust ends, or the node of the pod is lost.
Ends(p) ==
  /\ pc[p] = "running" /\ pc' = [pc EXCEPT ![p] = "ended"]
  /\ UNCHANGED <<requirements, installed, served>>

\* Faulty variants: the files of the container that ended are used again,
\* without another download or with one.
RestartInPlace(p) ==
  /\ pc[p] = "ended" /\ pc' = [pc EXCEPT ![p] = "pip"]
  /\ UNCHANGED <<requirements, installed, served>>

RestartKeepsFiles(p) ==
  /\ pc[p] = "ended" /\ pc' = [pc EXCEPT ![p] = "wget"]
  /\ UNCHANGED <<requirements, installed, served>>

\* Kubernetes: a new container, with the files of the image.
Restart(p) ==
  /\ pc[p] = "ended" /\ pc' = [pc EXCEPT ![p] = "wget"]
  /\ requirements' = [requirements EXCEPT ![p] = Image]
  /\ installed' = [installed EXCEPT ![p] = {}]
  /\ UNCHANGED served

\* Somebody publishes another list.
Publish == served' \in Lists /\ UNCHANGED <<pc, requirements, installed>>

\* The steps of run.sh up to the start of locust, and the container that is
\* started anew.
Boot(p) ==
  \/ Wget(p) \/ WgetFails(p) \/ Pip(p) \/ PipFails(p) \/ Locust(p) \/ Restart(p)

\* A script goes on, Kubernetes starts containers again, and of the downloads,
\* and of the installations of what is needed, some succeed.
Fair(p) ==
  /\ WF_vars(Pip(p) \/ PipFails(p)) /\ WF_vars(Locust(p)) /\ WF_vars(Restart(p))
  /\ SF_vars(Wget(p))
  /\ SF_vars(Pip(p) /\ Imports \subseteq Libraries(requirements[p]))

-----------------------------------------------------------------------------
\* What a pod that runs has installed was all served together, in one list: no
\* library comes from the image's list or from an earlier life of the pod,
\* whatever was published meanwhile and however far wget and pip came (run.sh).
ServedTogether ==
  \A p \in Pods : pc[p] = "running" =>
    \E list \in Lists : installed[p] \subseteq list
=============================================================================
