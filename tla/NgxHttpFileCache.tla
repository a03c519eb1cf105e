-------------------------- MODULE NgxHttpFileCache --------------------------
(***************************************************************************)
(* The response cache of src/http/ngx_http_file_cache.c: worker processes  *)
(* that share, under one mutex, a slab of nodes (one per cached key, in an *)
(* rbtree and in an inactivity queue), the files the nodes stand for, the  *)
(* cache manager that removes nodes and files, and the loader that fills   *)
(* the nodes from the files found on disk.                                 *)
(*                                                                         *)
(* A step of a process is one region between lock and unlock of the mutex, *)
(* or one access to the file system outside it.  A request goes through    *)
(* ngx_http_upstream_cache: look the key up, try the file, serve it, wait  *)
(* for another request that is already fetching it, or fetch it and store  *)
(* or drop the answer.  Time is abstracted: an error or a file becomes     *)
(* outdated, a node becomes inactive, a waiting request times out.         *)
(* Spec uses no definition marked as a mutant.                             *)
(***************************************************************************)
EXTENDS Integers, Sequences, FiniteSets, SequencesExt, FiniteSetsExt

CONSTANTS
    Requests,       \* each in a worker process of its own
    Keys,
    Nodes,          \* places for a node in the slab
    None,
    Manager,        \* the cache manager process
    MinUses,        \* proxy_cache_min_uses
    UsesMod,        \* number of values of the uses field (2^10 in the code)
    MaxSize,        \* cache->max_size, in blocks
    Tries,          \* busy nodes forced_expire passes over (20 in the code)
    Lock,           \* proxy_cache_lock
    UseStale,       \* proxy_cache_use_stale updating
    TimeoutsHappen, \* whether a wait may last longer than lock_timeout
    Bypass,         \* whether requests may bypass the cache (proxy_cache_bypass)
    ErrorsCached,   \* whether proxy_cache_valid covers errors
    Faults,         \* whether opening, reading and renaming files may fail
    Cold,           \* whether the behaviour starts before the loader's walk
    MaxCrashes,     \* bound: worker processes that exit abnormally
    SizeBound,      \* bound: no request starts with the size beyond it
    InitialFiles    \* keys whose file is on disk when the cache starts

ASSUME ProcessAssumption ==
    /\ IsFiniteSet(Requests) /\ Manager \notin Requests
    /\ None \notin Keys \union Nodes \union Requests \union {Manager}
ASSUME SettingAssumption ==
    /\ MinUses \in Nat \ {0} /\ UsesMod \in Nat /\ UsesMod > MinUses
    /\ Tries \in Nat \ {0} /\ InitialFiles \subseteq Keys
    /\ {Lock, UseStale, TimeoutsHappen, Bypass, ErrorsCached, Faults, Cold}
           \subseteq BOOLEAN

VARIABLES
    node,       \* the slab: ngx_http_file_cache_node_t of every place
    queue,      \* sh->queue, most recently used first
    inactive,   \* nodes whose expire time has passed
    size,       \* sh->size
    cold,       \* sh->cold
    mutex,      \* the process that keeps shpool->mutex from step to step
    file,       \* per key: the file on disk
    pc,         \* per process
    c,          \* per request: its ngx_http_cache_t
    del,        \* per process: the node it is deleting
    load,       \* the loader: state, keys still to visit, file at hand
    crashes,    \* workers lost so far
    leaked,     \* per node: references lost with a worker (history)
    drifted     \* a node was taken while its file was being deleted, or its
                \* file was forgotten with an expired error (history)

vars == <<node, queue, inactive, size, cold, mutex, file, pc, c, del, load,
          crashes, leaked, drifted>>

Procs == Requests \union {Manager}

NoFile == [size |-> 0, fresh |-> FALSE]
NewFile == [size |-> 1, fresh |-> TRUE]
Files == {NoFile, NewFile, [NewFile EXCEPT !.fresh = FALSE]}

FreeNode == [key |-> None, count |-> 0, uses |-> 0, error |-> "none",
             exists |-> FALSE, updating |-> FALSE, deleting |-> FALSE, size |-> 0]

NoCache == [key |-> None, node |-> None, bypass |-> FALSE, lock |-> FALSE,
            updating |-> FALSE, cacheable |-> FALSE, expired |-> FALSE,
            error |-> FALSE, exists |-> FALSE, rc |-> "none", fd |-> NoFile]

Init ==
    /\ node = [n \in Nodes |-> FreeNode]
    /\ queue = <<>> /\ inactive = {}
    /\ size = 0
    /\ cold = Cold
    /\ mutex = None
    /\ file \in {f \in [Keys -> Files] :
                    \A k \in Keys : f[k] # NoFile <=> k \in InitialFiles}
    /\ pc = [p \in Procs |-> "idle"]
    /\ c = [r \in Requests |-> NoCache]
    /\ del = [p \in Procs |-> None]
    /\ load = [at |-> "idle", todo |-> {}, key |-> None, size |-> 0]
    /\ crashes = 0
    /\ leaked = [n \in Nodes |-> 0]
    /\ drifted = FALSE

Unlocked == mutex = None
Allocated == {n \in Nodes : node[n].key # None}

\* ngx_http_file_cache_lookup: the nodes of a key in the rbtree.
Lookup(k) == {n \in Allocated : node[n].key = k}

Goto(p, to) == pc' = [pc EXCEPT ![p] = to]

\* ngx_queue_remove: the queue without a node.
Unlinked(n) ==
    LET at == {i \in DOMAIN queue : queue[i] = n}
    IN  IF at = {} THEN queue ELSE RemoveAt(queue, CHOOSE i \in at : TRUE)

\* Mutant: the node is not taken out of its old place.
TouchWithoutRemove(n) ==
    /\ queue' = <<n>> \o queue
    /\ inactive' = inactive \ {n}

\* Moves a node to the head of the queue and restarts its inactivity time.
Touch(n) ==
    /\ queue' = <<n>> \o Unlinked(n)
    /\ inactive' = inactive \ {n}

\* Takes a node out of the tree and the queue and frees its memory.
Release(n) ==
    /\ node' = [node EXCEPT ![n] = FreeNode]
    /\ queue' = Unlinked(n)
    /\ inactive' = inactive \ {n}

shared == <<node, queue, inactive, size, drifted>>
others == <<cold, mutex, load, crashes, leaked>>

-----------------------------------------------------------------------------
(* ngx_http_upstream_cache: a new request, or one that bypasses the cache *)
(* and looks the key up when the answer has arrived.                      *)

Start(r) ==
    /\ pc[r] = "idle"
    /\ size \in -SizeBound..SizeBound
    /\ \E k \in Keys, bypass \in {FALSE, Bypass} :
          c' = [c EXCEPT ![r] = [NoCache EXCEPT !.key = k, !.bypass = bypass,
                                    !.lock = Lock, !.cacheable = TRUE]]
    /\ Goto(r, "exists")
    /\ UNCHANGED <<shared, others, file, del>>

\* ngx_http_file_cache_exists, when the node is known or found in the tree.
AfterExists(r) == IF c[r].bypass THEN "fetch" ELSE "route"

\* Mutant: a request that comes back after a wait is counted again.
CountedAgain(r, n) ==
    [node[n] EXCEPT !.uses = (@ + 1) % UsesMod, !.count = @ + 1]

\* A request that finds a node counts itself, once.
Taken(r, n) ==
    IF c[r].node # None
      THEN node[n]
      ELSE [node[n] EXCEPT !.uses = (@ + 1) % UsesMod, !.count = @ + 1]

ExistsFound(r) ==
    /\ pc[r] = "exists" /\ Unlocked
    /\ \E n \in IF c[r].node # None THEN {c[r].node} ELSE Lookup(c[r].key) :
       LET new   == c[r].node = None
           fcn   == Taken(r, n)
           renew == fcn.error = "expired"
           rc    == CASE fcn.error = "fresh" -> "error"
                      [] renew -> "declined"
                      [] fcn.error = "none" /\ (fcn.exists \/ fcn.uses >= MinUses)
                           -> "ok"
                      [] OTHER -> "again"
       IN /\ node' = [node EXCEPT ![n] =
                IF renew THEN [fcn EXCEPT !.error = "none", !.exists = FALSE,
                                          !.size = 0]
                         ELSE fcn]
          /\ Touch(n)
          /\ c' = [c EXCEPT ![r].node = n, ![r].rc = rc,
                            ![r].error = rc = "error",
                            ![r].exists = rc = "ok" /\ fcn.exists]
          /\ drifted' = (drifted \/ (new /\ fcn.deleting) \/ (renew /\ fcn.exists))
    /\ Goto(r, AfterExists(r))
    /\ UNCHANGED <<size, others, file, del>>

\* The same for a key without a node.  When the slab is full the mutex is
\* released for a forced expire, and the tree is not searched again.
Insert(r, n) ==
    /\ node' = [node EXCEPT ![n] = [FreeNode EXCEPT !.key = c[r].key,
                                                    !.count = 1, !.uses = 1]]
    /\ Touch(n)
    /\ c' = [c EXCEPT ![r].node = n, ![r].rc = "declined"]
    /\ Goto(r, AfterExists(r))

ExistsNew(r) ==
    /\ pc[r] = "exists" /\ Unlocked
    /\ c[r].node = None /\ Lookup(c[r].key) = {}
    /\ IF Allocated = Nodes
         THEN Goto(r, "forced") /\ UNCHANGED <<node, queue, inactive, c>>
         ELSE \E n \in Nodes \ Allocated : Insert(r, n)
    /\ UNCHANGED <<size, drifted, others, file, del>>

\* Without memory even now the request fails; it holds nothing.
ExistsRetry(r) ==
    /\ pc[r] = "alloc" /\ Unlocked
    /\ IF Allocated = Nodes
         THEN /\ Goto(r, "idle")
              /\ c' = [c EXCEPT ![r] = NoCache]
              /\ UNCHANGED <<node, queue, inactive>>
         ELSE \E n \in Nodes \ Allocated : Insert(r, n)
    /\ UNCHANGED <<size, drifted, others, file, del>>

\* ngx_http_file_cache_open after exists: cached error, too few uses, try the
\* file, or go for the lock.
Route(r) ==
    LET rare == c[r].rc = "declined" /\ MinUses > 1
        test == IF c[r].rc = "ok" THEN c[r].exists ELSE cold
        miss == IF rare THEN "fetch" ELSE "lock"
    IN
    /\ pc[r] = "route"
    /\ \/ /\ c[r].rc = "error"
          /\ Goto(r, "done")
          /\ c' = [c EXCEPT ![r].rc = "none"]
       \/ /\ c[r].rc = "again"
          /\ Goto(r, "fetch")
          /\ c' = [c EXCEPT ![r].rc = "none", ![r].cacheable = FALSE]
       \/ /\ c[r].rc \in {"ok", "declined"}
          /\ ~test \/ file[c[r].key] = NoFile
          /\ Goto(r, miss)
          /\ c' = [c EXCEPT ![r].rc = "none", ![r].cacheable = ~rare]
       \/ /\ c[r].rc \in {"ok", "declined"}
          /\ test /\ file[c[r].key] # NoFile
          /\ Goto(r, "read")
          /\ c' = [c EXCEPT ![r].rc = "none", ![r].fd = file[c[r].key]]
       \/ /\ c[r].rc \in {"ok", "declined"}     \* the file cannot be opened
          /\ Faults /\ test /\ file[c[r].key] # NoFile
          /\ Goto(r, "done")
          /\ c' = [c EXCEPT ![r].rc = "none"]
    /\ UNCHANGED <<shared, others, file, del>>

\* ngx_http_file_cache_read: reading fails, or the file is broken and fetched
\* anew, or its header says whether it is outdated.
AfterRead(r) == IF c[r].fd.fresh THEN "hit" ELSE "stale"

Read(r) ==
    /\ pc[r] = "read"
    /\ \/ Faults /\ Goto(r, "done") /\ c' = [c EXCEPT ![r].fd = NoFile]
       \/ Faults /\ Goto(r, "fetch") /\ c' = [c EXCEPT ![r].fd = NoFile]
       \/ cold /\ Goto(r, "learn") /\ UNCHANGED c
       \/ ~cold /\ Goto(r, AfterRead(r)) /\ c' = [c EXCEPT ![r].fd = NoFile]
    /\ UNCHANGED <<shared, others, file, del>>

\* While the cache is cold the node learns of its file from its reader.
Learn(r) ==
    LET n == c[r].node
        fs_size == c[r].fd.size
    IN
    /\ pc[r] = "learn" /\ Unlocked
    /\ IF node[n].exists
         THEN UNCHANGED <<node, size>>
         ELSE /\ node' = [node EXCEPT ![n].uses = 1, ![n].exists = TRUE,
                                      ![n].size = fs_size]
              /\ size' = size + fs_size
    /\ Goto(r, AfterRead(r))
    /\ c' = [c EXCEPT ![r].fd = NoFile]
    /\ UNCHANGED <<queue, inactive, drifted, others, file, del>>

\* Mutant: the node is not marked.
LockedNodeLost(n) == node

\* A request makes itself the one that updates the node.
LockedNode(n) == [node EXCEPT ![n].updating = TRUE]

\* The end of read for an outdated file: the first request to find it
\* outdated updates it, the others serve it or fetch it too.
ReadStale(r) ==
    /\ pc[r] = "stale" /\ Unlocked
    /\ LET n == c[r].node IN
       IF node[n].updating
         THEN /\ Goto(r, IF UseStale THEN "hit" ELSE "fetch")
              /\ c' = [c EXCEPT ![r].expired = ~UseStale]
              /\ UNCHANGED node
         ELSE /\ Goto(r, "fetch")
              /\ node' = LockedNode(n)
              /\ c' = [c EXCEPT ![r].updating = TRUE, ![r].expired = TRUE]
    /\ UNCHANGED <<queue, inactive, size, drifted, others, file, del>>

\* ngx_http_file_cache_lock
TakeLock(r) ==
    /\ pc[r] = "lock" /\ Unlocked
    /\ LET n == c[r].node IN
       \/ /\ ~c[r].lock
          /\ Goto(r, "fetch")
          /\ UNCHANGED <<node, c>>
       \/ /\ c[r].lock /\ ~node[n].updating
          /\ Goto(r, "fetch")
          /\ node' = LockedNode(n)
          /\ c' = [c EXCEPT ![r].updating = TRUE]
       \/ /\ c[r].lock /\ node[n].updating
          /\ Goto(r, "waiting")
          /\ UNCHANGED <<node, c>>
    /\ UNCHANGED <<queue, inactive, size, drifted, others, file, del>>

\* ngx_http_file_cache_lock_wait_handler: the timer finds the node no longer
\* updated and the request starts again at open.
WaitOver(r) ==
    /\ pc[r] = "waiting" /\ Unlocked
    /\ ~node[c[r].node].updating
    /\ Goto(r, "exists")
    /\ UNCHANGED <<shared, others, file, c, del>>

\* Mutant: the request waits for the lock again.
TimeoutKeepsLock(r) ==
    /\ TimeoutsHappen
    /\ pc[r] = "waiting"
    /\ Goto(r, "exists")
    /\ UNCHANGED <<shared, others, file, c, del>>

\* A request that has waited for lock_timeout goes on without the lock.
WaitTimeout(r) ==
    /\ TimeoutsHappen
    /\ pc[r] = "waiting"
    /\ c' = [c EXCEPT ![r].lock = FALSE]
    /\ Goto(r, "exists")
    /\ UNCHANGED <<shared, others, file, del>>

-----------------------------------------------------------------------------
(* The answer of the upstream server, or of the cache file. *)

\* The header in the file is of no use and the request goes to the upstream, or
\* the upstream failed and the outdated file is served instead.
Detour(r) ==
    /\ \/ Faults /\ pc[r] = "hit" /\ ~c[r].expired /\ Goto(r, "fetch")
       \/ pc[r] = "fetch" /\ c[r].expired /\ Goto(r, "hit")
    /\ UNCHANGED <<shared, others, file, c, del>>

\* ngx_http_file_cache_update: the temporary file is renamed and its size read;
\* either may fail,
Rename(r) ==
    /\ pc[r] = "fetch" /\ c[r].cacheable
    /\ \/ /\ file' = [file EXCEPT ![c[r].key] = NewFile]
          /\ c' = [c EXCEPT ![r].fd = NewFile, ![r].updating = FALSE]
       \/ /\ Faults
          /\ file' \in {file, [file EXCEPT ![c[r].key] = NewFile]}
          /\ c' = [c EXCEPT ![r].fd = NoFile, ![r].updating = FALSE]
    /\ Goto(r, "update")
    /\ UNCHANGED <<shared, others, del>>

\* and then the node is brought up to date.
UpdatedNode(r) ==
    LET n == node[c[r].node] IN
    [n EXCEPT !.count = @ - 1, !.size = c[r].fd.size,
              !.exists = @ \/ c[r].fd # NoFile, !.updating = FALSE]

UpdatedSize(r) == size + c[r].fd.size - node[c[r].node].size

Update(r) ==
    /\ pc[r] = "update" /\ Unlocked
    /\ node' = [node EXCEPT ![c[r].node] = UpdatedNode(r)]
    /\ size' = UpdatedSize(r)
    /\ c' = [c EXCEPT ![r] = NoCache]
    /\ Goto(r, "idle")
    /\ UNCHANGED <<queue, inactive, drifted, others, file, del>>

\* ngx_http_file_cache_free, called when the answer is not cached, when it is
\* an error that is cached in the node, or by the cleanup of the request.
FreedNode(r, err) ==
    LET n == node[c[r].node] IN
    [n EXCEPT !.count = @ - 1,
              !.updating = @ /\ ~c[r].updating,
              !.error = CASE err -> "fresh"
                          [] ~err /\ c[r].error /\ @ = "none" -> "expired"
                          [] OTHER -> @]

Useless(r, fcn, err) ==
    ~err /\ ~c[r].error /\ ~fcn.exists /\ fcn.count = 0 /\ MinUses = 1

Free(r) ==
    /\ pc[r] \in {"fetch", "hit", "done"} /\ Unlocked
    /\ \E err \in IF pc[r] = "fetch" THEN {FALSE, ErrorsCached} ELSE {FALSE} :
          LET n == c[r].node
              fcn == FreedNode(r, err)
          IN IF Useless(r, fcn, err)
               THEN Release(n)
               ELSE /\ node' = [node EXCEPT ![n] = fcn]
                    /\ UNCHANGED <<queue, inactive>>
    /\ c' = [c EXCEPT ![r] = NoCache]
    /\ Goto(r, "idle")
    /\ UNCHANGED <<size, drifted, others, file, del>>

-----------------------------------------------------------------------------
(* ngx_http_file_cache_delete, called with the mutex held and count = 0. *)

SizeWithout(n) == size - node[n].size

\* The node has a file: it is marked and the mutex released for the unlink.
DeleteFile(p, n, to) ==
    /\ node[n].exists
    /\ size' = SizeWithout(n)
    /\ node' = [node EXCEPT ![n].count = @ + 1, ![n].deleting = TRUE]
    /\ del' = [del EXCEPT ![p] = n]
    /\ mutex' = None
    /\ Goto(p, to)
    /\ UNCHANGED <<queue, inactive>>

\* The unlink itself, outside the mutex.
Unlink(p) ==
    /\ pc[p] \in {"expire_unlink", "forced_unlink"}
    /\ \/ file' = [file EXCEPT ![node[del[p]].key] = NoFile]
       \/ Faults /\ UNCHANGED file
    /\ Goto(p, IF pc[p] = "expire_unlink" THEN "expire_end" ELSE "forced_end")
    /\ UNCHANGED <<shared, others, c, del>>

\* Mutant: the mark and the reference are left.
StillDeleting(n) == node[n]

Undeleted(n) == [node[n] EXCEPT !.count = @ - 1, !.deleting = FALSE]

\* The mutex is taken again: the node goes, unless it was taken meanwhile.
DeletedNode(n) ==
    IF Undeleted(n).count = 0
      THEN Release(n)
      ELSE /\ node' = [node EXCEPT ![n] = Undeleted(n)]
           /\ UNCHANGED <<queue, inactive>>

DeleteEnd(p) ==
    /\ pc[p] \in {"expire_end", "forced_end"} /\ Unlocked
    /\ DeletedNode(del[p])
    /\ del' = [del EXCEPT ![p] = None]
    /\ IF pc[p] = "expire_end"
         THEN Goto(p, "expire") /\ mutex' = p
         ELSE Goto(p, IF p = Manager THEN "size" ELSE "alloc") /\ UNCHANGED mutex
    /\ UNCHANGED <<size, cold, file, c, load, crashes, leaked, drifted>>

\* ngx_http_file_cache_forced_expire: the least recently used idle node, if
\* fewer than Tries busy ones come before it.
Oldest(i) == queue[Len(queue) + 1 - i]

Idle == {i \in 1..Len(queue) : node[Oldest(i)].count = 0}

ForcedExpire(p) ==
    LET back == IF p = Manager THEN "idle" ELSE "alloc"
    IN
    /\ pc[p] = "forced" /\ Unlocked
    /\ IF Idle = {} \/ Min(Idle) > Tries
         THEN Goto(p, back) /\ UNCHANGED <<node, queue, inactive, size, del, mutex>>
         ELSE LET n == Oldest(Min(Idle)) IN
              \/ DeleteFile(p, n, "forced_unlink")
              \/ /\ ~node[n].exists
                 /\ Release(n)
                 /\ Goto(p, IF p = Manager THEN "size" ELSE "alloc")
                 /\ UNCHANGED <<size, del, mutex>>
    /\ UNCHANGED <<cold, file, c, load, crashes, leaked, drifted>>

-----------------------------------------------------------------------------
(* ngx_http_file_cache_manager *)

ManagerStart ==
    /\ pc[Manager] = "idle" /\ Unlocked
    /\ Goto(Manager, "expire")
    /\ mutex' = Manager
    /\ UNCHANGED <<shared, cold, file, c, del, load, crashes, leaked>>

TailInactive == queue # <<>> /\ Oldest(1) \in inactive

\* One turn of the loop of ngx_http_file_cache_expire, under the mutex.
Expire ==
    /\ pc[Manager] = "expire" /\ mutex = Manager
    /\ \/ /\ ~TailInactive
          /\ Goto(Manager, "size") /\ mutex' = None
          /\ UNCHANGED <<node, queue, inactive, size, del>>
       \/ /\ TailInactive
          /\ LET n == Oldest(1) IN
             \/ node[n].count = 0 /\ DeleteFile(Manager, n, "expire_unlink")
             \/ /\ node[n].count = 0 /\ ~node[n].exists
                /\ Release(n)
                /\ UNCHANGED <<pc, mutex, size, del>>
             \/ /\ node[n].count > 0 /\ node[n].deleting
                /\ Goto(Manager, "size") /\ mutex' = None
                /\ UNCHANGED <<node, queue, inactive, size, del>>
             \/ /\ node[n].count > 0 /\ ~node[n].deleting
                /\ Touch(n)
                /\ UNCHANGED <<node, size, pc, mutex, del>>
    /\ UNCHANGED <<cold, file, c, load, crashes, leaked, drifted>>

\* The cache is small enough, or the oldest idle node is expired by force.
ManagerSize ==
    /\ pc[Manager] = "size" /\ Unlocked
    /\ Goto(Manager, IF size < MaxSize THEN "idle" ELSE "forced")
    /\ UNCHANGED <<shared, others, file, c, del>>

-----------------------------------------------------------------------------
(* ngx_http_file_cache_loader *)

LoaderStart ==
    /\ cold /\ load.at = "idle"
    /\ load' = [load EXCEPT !.at = "walk", !.todo = Keys]
    /\ UNCHANGED <<shared, cold, mutex, file, pc, c, del, crashes, leaked>>

\* ngx_walk_tree meets the next name and, if the file is there, its size; a
\* file too small to be one of the cache is deleted.
LoaderVisit ==
    /\ load.at = "walk"
    /\ \E k \in load.todo :
          \/ /\ file[k] = NoFile
             /\ load' = [load EXCEPT !.todo = @ \ {k}]
          \/ /\ file[k] # NoFile
             /\ load' = [at |-> "add", todo |-> load.todo \ {k}, key |-> k,
                         size |-> file[k].size]
          \/ /\ file[k] # NoFile /\ Faults
             /\ load' = [at |-> "drop", todo |-> load.todo \ {k}, key |-> k, size |-> 0]
    /\ UNCHANGED <<shared, cold, mutex, file, pc, c, del, crashes, leaked>>

LoaderNodes == Lookup(load.key)

\* ngx_http_file_cache_add; without memory for a node the file is deleted.
LoaderAdd ==
    /\ load.at = "add" /\ Unlocked
    /\ \/ \E n \in LoaderNodes :
             /\ Touch(n)
             /\ load' = [load EXCEPT !.at = "walk", !.key = None, !.size = 0]
             /\ UNCHANGED <<node, size>>
       \/ /\ LoaderNodes = {}
          /\ \E n \in Nodes \ Allocated :
                /\ node' = [node EXCEPT ![n] =
                              [FreeNode EXCEPT !.key = load.key, !.uses = 1,
                                               !.exists = TRUE, !.size = load.size]]
                /\ Touch(n)
          /\ size' = size + load.size
          /\ load' = [load EXCEPT !.at = "walk", !.key = None, !.size = 0]
       \/ /\ LoaderNodes = {} /\ Allocated = Nodes
          /\ load' = [load EXCEPT !.at = "drop", !.size = 0]
          /\ UNCHANGED <<node, queue, inactive, size>>
    /\ UNCHANGED <<drifted, cold, mutex, file, pc, c, del, crashes, leaked>>

LoaderDrop ==
    /\ load.at = "drop"
    /\ file' = [file EXCEPT ![load.key] = NoFile]
    /\ load' = [load EXCEPT !.at = "walk", !.key = None]
    /\ UNCHANGED <<shared, cold, mutex, pc, c, del, crashes, leaked>>

\* The walk is complete, or the process is told to quit.
LoaderEnd ==
    /\ load.at = "walk"
    /\ \/ load.todo = {} /\ cold' = FALSE
       \/ UNCHANGED cold
    /\ load' = [at |-> "idle", todo |-> {}, key |-> None, size |-> 0]
    /\ UNCHANGED <<shared, mutex, file, pc, c, del, crashes, leaked>>

-----------------------------------------------------------------------------
(* Time, and workers that exit abnormally *)

\* The header's valid_sec of a file, or the valid_sec of an error, passes.
FileExpires(k) ==
    /\ file[k].fresh
    /\ file' = [file EXCEPT ![k].fresh = FALSE]
    /\ UNCHANGED <<shared, others, pc, c, del>>

ErrorExpires(n) ==
    /\ node[n].error = "fresh"
    /\ node' = [node EXCEPT ![n].error = "expired"]
    /\ UNCHANGED <<queue, inactive, size, drifted, others, file, pc, c, del>>

\* The least recently used active node reaches its expire time.  Only expire
\* looks at it, and compares with a time it reads once, before its loop.
NodeExpires ==
    /\ pc[Manager] \notin {"expire", "expire_unlink", "expire_end"}
    /\ \E i \in 1..Len(queue) :
          /\ Oldest(i) \notin inactive
          /\ \A j \in 1..(i - 1) : Oldest(j) \in inactive
          /\ inactive' = inactive \union {Oldest(i)}
    /\ UNCHANGED <<node, queue, size, drifted, others, file, pc, c, del>>

\* Outside the mutex: what the request held stays counted in the node.
Crash(r) ==
    /\ pc[r] # "idle" /\ crashes < MaxCrashes
    /\ crashes' = crashes + 1
    /\ leaked' = [n \in Nodes |-> leaked[n]
                     + (IF c[r].node = n THEN 1 ELSE 0)
                     + (IF del[r] = n THEN 1 ELSE 0)]
    /\ c' = [c EXCEPT ![r] = NoCache]
    /\ del' = [del EXCEPT ![r] = None]
    /\ Goto(r, "idle")
    /\ UNCHANGED <<shared, cold, mutex, file, load>>

-----------------------------------------------------------------------------
RequestStep(r) ==
    \/ ExistsFound(r) \/ ExistsNew(r) \/ ExistsRetry(r) \/ Route(r) \/ Read(r)
    \/ Learn(r) \/ ReadStale(r) \/ TakeLock(r) \/ WaitOver(r) \/ WaitTimeout(r)
    \/ Detour(r) \/ Rename(r) \/ Update(r) \/ Free(r)

DeleteStep(p) == Unlink(p) \/ DeleteEnd(p) \/ ForcedExpire(p)

ManagerStep == ManagerStart \/ Expire \/ ManagerSize \/ DeleteStep(Manager)

LoaderStep == LoaderStart \/ LoaderVisit \/ LoaderAdd \/ LoaderDrop \/ LoaderEnd

Next ==
    \/ \E r \in Requests : Start(r) \/ RequestStep(r) \/ DeleteStep(r) \/ Crash(r)
    \/ ManagerStep
    \/ LoaderStep
    \/ NodeExpires
    \/ \E k \in Keys : FileExpires(k)
    \/ \E n \in Nodes : ErrorExpires(n)

Spec == Init /\ [][Next]_vars

\* Worker and manager processes run, upstreams answer, and a process that
\* keeps trying gets the mutex.  wait_time is set by the first wait of a
\* request and never moved, so a request cannot wait again and again.
Fairness ==
    /\ \A r \in Requests :
          /\ SF_vars(RequestStep(r) \/ DeleteStep(r))
          /\ SF_vars(WaitTimeout(r))
    /\ WF_vars(ManagerStep)

-----------------------------------------------------------------------------
(* Properties *)

Held(n) == {r \in Requests : c[r].node = n}
Deleters(n) == {p \in Procs : del[p] = n}
Updates(r) == c[r].updating \/ pc[r] = "update"

NodeRecords ==
    [key : Keys \union {None}, count : Int, uses : 0..(UsesMod - 1),
     error : {"none", "fresh", "expired"}, exists : BOOLEAN, updating : BOOLEAN,
     deleting : BOOLEAN, size : {0, 1}]

CacheRecords ==
    [key : Keys \union {None}, node : Nodes \union {None}, bypass : BOOLEAN,
     lock : BOOLEAN, updating : BOOLEAN, cacheable : BOOLEAN, expired : BOOLEAN,
     error : BOOLEAN, exists : BOOLEAN,
     rc : {"none", "ok", "declined", "again", "error"}, fd : Files]

\* Where a request has its node, and where a process deletes a file.
Holding == {"route", "read", "learn", "stale", "lock", "waiting", "fetch", "hit",
            "done", "update"}
Deleting == {"expire_unlink", "expire_end", "forced_unlink", "forced_end"}
RequestPcs == Holding \union
    {"idle", "exists", "forced", "forced_unlink", "forced_end", "alloc"}
ManagerPcs == Deleting \union {"idle", "expire", "size", "forced"}

TypeOK ==
    /\ node \in [Nodes -> NodeRecords]
    /\ queue \in Seq(Nodes) /\ inactive \subseteq Nodes
    /\ size \in Int /\ cold \in BOOLEAN /\ mutex \in {None, Manager}
    /\ file \in [Keys -> Files]
    /\ pc \in [Procs -> RequestPcs \union ManagerPcs]
    /\ pc[Manager] \in ManagerPcs /\ \A r \in Requests : pc[r] \in RequestPcs
    /\ c \in [Requests -> CacheRecords]
    /\ del \in [Procs -> Nodes \union {None}]
    /\ load \in [at : {"idle", "walk", "add", "drop"}, todo : SUBSET Keys,
                 key : Keys \union {None}, size : {0, 1}]
    /\ leaked \in [Nodes -> Nat]

\* A request that is past the lookup has a node, one that looks for memory has
\* none, and a process has a node to delete exactly while it deletes its file.
PlacesOK ==
    /\ \A r \in Requests :
          /\ pc[r] \in Holding => c[r].node \in Nodes
          /\ pc[r] \notin Holding \union {"exists"} => c[r].node = None
          /\ pc[r] # "idle" => c[r].key \in Keys
    /\ \A p \in Procs : pc[p] \in Deleting <=> del[p] # None
    /\ \A p, q \in Procs : del[p] = del[q] /\ del[p] # None => p = q
    /\ \A n \in Nodes : node[n].key = None => node[n] = FreeNode
    /\ load.at = "add" => load.key \in Keys

\* A node's count is the number of requests that hold it, plus the process
\* that deletes its file, plus what crashed workers left behind.  So a node
\* in use is never freed or given to another key, although it is looked up,
\* re-used after a wait, released by four paths and deleted outside the mutex.
RefCounts ==
    \A n \in Nodes :
       /\ node[n].count = Cardinality(Held(n)) + Cardinality(Deleters(n)) + leaked[n]
       /\ \A r \in Held(n) : node[n].key = c[r].key
       /\ Deleters(n) # {} => node[n].key # None /\ node[n].deleting
       /\ node[n].deleting /\ leaked[n] = 0 => Cardinality(Deleters(n)) = 1

\* The queue holds exactly the nodes of the tree, each once, and the inactive
\* ones at its end: expire may stop at the first node that is still active.
QueueMatchesTree ==
    /\ ToSet(queue) = Allocated
    /\ IsInjective(queue)
    /\ \A i, j \in 1..Len(queue) :
          i < j /\ queue[i] \in inactive => queue[j] \in inactive

\* While the slab has room every key has one node: two requests for a new key
\* share it.
OneNodePerKey ==
    \A m, n \in Allocated : node[m].key = node[n].key => m = n

\* The updating flag of a node belongs to a request that will clear it (or a
\* worker died with it): requests that wait for it do not wait in vain.
UpdatingHasOwner ==
    \A n \in Nodes : node[n].updating /\ leaked[n] = 0 =>
       \E r \in Held(n) : Updates(r)

\* sh->size is the sum of the sizes of the nodes with a file, but for the two
\* ways the code loses track of it: a node taken while its file is being
\* deleted keeps its size, and a node whose cached error expires forgets the
\* size of its file.
SizeSum == FoldSet(LAMBDA n, s : s + (IF node[n].exists /\ ~node[n].deleting
                                        THEN node[n].size ELSE 0), 0, Nodes)
SizeTracksNodes == ~drifted => size = SizeSum

\* With proxy_cache_lock and use_stale updating, without bypass, timeouts and
\* faults of the file system, at most one request at a time fetches a key to
\* store it.
OneFetcher ==
    \A n \in Nodes :
       Cardinality({r \in Held(n) : pc[r] \in {"fetch", "update"} /\ c[r].cacheable}) <= 1

\* In a warm cache a file on disk has a node that knows of it, or is about to,
\* although files are renamed and unlinked outside the mutex: the manager can
\* find it.  Excluded are the two ways in which the code loses a file: a node
\* taken while its file is being deleted may go with the file just stored, and
\* a node whose cached error expires forgets its file.
NoOrphanFile ==
    \A k \in Keys : file[k] # NoFile /\ ~drifted =>
       \E n \in Lookup(k) : node[n].exists \/ \E r \in Held(n) : pc[r] = "update"

\* With all of them together the steps of any number of requests preserve them.
IndInv == TypeOK /\ PlacesOK /\ RefCounts /\ QueueMatchesTree /\ UpdatingHasOwner

\* What the lock of a node comes to when nobody passes it: a request that fetches
\* to store has the updating flag of its node, and has it alone.
LockStrict == Lock /\ UseStale /\ ~TimeoutsHappen /\ ~Bypass /\ ~Faults
LockInv ==
    /\ \A r \in Requests :
          /\ pc[r] # "idle" => c[r].lock /\ ~c[r].bypass
          /\ c[r].updating => pc[r] \in {"fetch", "hit"}
          /\ pc[r] = "fetch" /\ c[r].cacheable => c[r].updating
          /\ Updates(r) => node[c[r].node].updating
    /\ \A r, s \in Requests :
          Updates(r) /\ Updates(s) /\ c[r].node = c[s].node => r = s

=============================================================================
