--------------------------- MODULE MCMetricsLocust ---------------------------
(* Small instances of MetricsLocust for TLC. *)
EXTENDS MetricsLocust, TLC

CONSTANTS
  two,     \* locustfile-faker.py, batches of two documents, on cluster east
  loose,   \* locustfile-faker-custom.py, batches of two, on cluster west
  zero,    \* locustfile-faker.py, batch size 0, on cluster east
  query,   \* locustfile.py, on cluster west
  broken,  \* a host that __init__ cannot parse
  east, west

MCSrv == two :> east @@ loose :> west @@ zero :> east @@ query :> west
         @@ broken :> east
MCBulkSize == two :> 2 @@ loose :> 2 @@ zero :> 0 @@ query :> 0 @@ broken :> 1
=============================================================================
