------------------------- MODULE MCNgxHttpFileCache -------------------------
(***************************************************************************)
(* NgxHttpFileCache for TLC.  The settings of a cache are constants of the *)
(* module; a behaviour runs one of the settings below, on the same         *)
(* requests, keys and places for nodes.                                    *)
(***************************************************************************)
EXTENDS NgxHttpFileCache, TLC

VARIABLE part       \* the setting: "share" (that of the cfg), or one of the others

Perms == Permutations(Requests) \union Permutations(Nodes)

\* A cache that starts with files on disk, and stores what is asked for twice.
Starting == INSTANCE NgxHttpFileCache WITH
    MinUses <- 2, UsesMod <- 3, MaxSize <- 2, UseStale <- TRUE, TimeoutsHappen <- FALSE,
    Bypass <- FALSE, ErrorsCached <- FALSE, Cold <- TRUE, InitialFiles <- Keys

\* A lock that nobody passes: no bypass and no timeout.
Strict == INSTANCE NgxHttpFileCache WITH
    UsesMod <- 3, UseStale <- TRUE, TimeoutsHappen <- FALSE, Bypass <- FALSE, ErrorsCached <- FALSE

\* A disk that fails.
Failing == INSTANCE NgxHttpFileCache WITH
    TimeoutsHappen <- FALSE, Bypass <- FALSE, ErrorsCached <- FALSE, Faults <- TRUE

MCInit ==
    \/ part = "share" /\ Init
    \/ part = "cold" /\ Starting!Init
    \/ part = "strict" /\ Strict!Init
    \/ part = "failing" /\ Failing!Init
MCNext ==
    /\ \/ part = "share" /\ Next
       \/ part = "cold" /\ Starting!Next
       \/ part = "strict" /\ Strict!Next
       \/ part = "failing" /\ Failing!Next
    /\ UNCHANGED part
mcvars == <<part, node, queue, inactive, size, cold, mutex, file, pc, c, del, load, crashes, leaked, drifted>>
MCSpec == MCInit /\ [][MCNext]_mcvars

\* While the slab has room every key has one node, the flag that requests wait
\* for has an owner, sh->size follows the nodes, and with a lock nobody passes
\* one request at a time fetches a key and every file on disk has a node that
\* knows of it.  With them the types, the places of the processes and LockInv,
\* which together with RefCounts and QueueMatchesTree make the inductive
\* invariants of the proofs.
CacheSafe ==
    /\ IF part \in {"cold", "strict"} THEN Strict!TypeOK ELSE TypeOK
    /\ PlacesOK /\ UpdatingHasOwner
    /\ OneNodePerKey
    /\ SizeTracksNodes
    /\ part = "strict" => LockInv /\ OneFetcher /\ NoOrphanFile

-----------------------------------------------------------------------------
(* Progress, of the setting of the cfg and of one request that asks for two *)
(* keys where one node fits, in a worker that may exit abnormally.          *)
Scarce == INSTANCE NgxHttpFileCache WITH
    Requests <- {"r1"}, Keys <- {"k1", "k2"}, Nodes <- {"n1"}, MaxCrashes <- 1

LiveInit == \/ part = "ends" /\ Init
            \/ part = "scarce" /\ Scarce!Init
LiveNext ==
    /\ \/ part = "ends" /\ Next
       \/ part = "scarce" /\ Scarce!Next
    /\ UNCHANGED part

\* Worker and manager processes run, upstreams answer, and a process that
\* keeps trying gets the mutex.  wait_time is set by the first wait of a
\* request and never moved, so a request cannot wait again and again.
LiveStep(r) == \/ part = "ends" /\ r \in Requests /\ (RequestStep(r) \/ DeleteStep(r))
               \/ part = "scarce" /\ r = "r1" /\ (Scarce!RequestStep(r) \/ Scarce!DeleteStep(r))
LiveTimeout(r) == \/ part = "ends" /\ WaitTimeout(r)
                  \/ part = "scarce" /\ r = "r1" /\ Scarce!WaitTimeout(r)
LiveManager == \/ part = "ends" /\ ManagerStep
               \/ part = "scarce" /\ Scarce!ManagerStep
LiveSpec ==
    /\ LiveInit /\ [][LiveNext]_mcvars
    /\ \A r \in Requests : SF_mcvars(LiveStep(r) /\ UNCHANGED part) /\ SF_mcvars(LiveTimeout(r) /\ UNCHANGED part)
    /\ WF_mcvars(LiveManager /\ UNCHANGED part)

\* Every request ends, also when the one it waits for never does, when others
\* take the lock each time it is free, and when its node's place is taken (the
\* requests are alike, so it is checked of one).
RequestsEnd == pc["r1"] # "idle" ~> pc["r1"] = "idle"

\* An inactive node that nobody holds is removed or used again (or a worker
\* dies while it deletes the node's file).
InactiveGoes ==
    (part = "scarce" /\ "n1" \in inactive /\ node["n1"].count = 0) ~> ("n1" \notin inactive \/ leaked["n1"] > 0)
=============================================================================
