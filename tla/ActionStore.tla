---------------------------- MODULE ActionStore ----------------------------
(***************************************************************************)
(* How the controller sees one Action: the object in the API server, the   *)
(* informer's copy that every Get of the manager's client returns, and the *)
(* work queue.                                                             *)
(*                                                                         *)
(* The controller writes by reading cache, changing that copy and sending  *)
(* an Update, which the API server refuses unless the copy is current.  So *)
(* a write of the controller succeeds only while synced holds, and at most *)
(* one version of its own is ever undelivered.                             *)
(***************************************************************************)
VARIABLES
    act,      \* the Action stored in the API server
    cache,    \* the informer's copy of it
    synced,   \* cache holds the newest version
    queued    \* the work queue holds the Action's key

store == <<act, cache, synced>>

\* A new Action: its Create event filled the cache and queued the key.
StoreInit(obj) == act = obj /\ cache = obj /\ synced = TRUE /\ queued = TRUE

\* An Update that the API server accepts.  An object equal in every field is
\* not a new version and raises no event; completionTime, which the models
\* leave out, decides which it is for a terminal status written twice.
Put(obj) ==
    /\ synced
    /\ act' = obj
    /\ synced' \in IF obj = act THEN BOOLEAN ELSE {FALSE}
    /\ UNCHANGED cache

\* The watch delivers the newest version and its event queues the key.
DeliverNewest ==
    /\ ~synced
    /\ cache' = act
    /\ synced' = TRUE
    /\ queued' = TRUE
    /\ UNCHANGED act

\* A worker takes the key; events that arrive from here on queue it again.
TakeKey == queued /\ queued' = FALSE

\* The informer's periodic resync, by default every ten hours.
ResyncKey == ~queued /\ queued' = TRUE
=============================================================================
