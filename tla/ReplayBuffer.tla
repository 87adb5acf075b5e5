----------------------------- MODULE ReplayBuffer ------------------------------
(***************************************************************************)
(* The TrajectoryReplayBuffer of one rank.  The training thread adds       *)
(* trajectories, writes checkpoints and, when the program is started       *)
(* again, loads them.  Samples are drawn by the same thread in between or, *)
(* with preload, by a thread of their own.  With auto_save, the threads of *)
(* an executor write every trajectory to a file and, after those of a call *)
(* of add_trajectories, the metadata and the index.                        *)
(*                                                                         *)
(* A trajectory is named by its id and has one sample.  Its data are kept  *)
(* in slots of the cache, which are reused in a ring.                      *)
(***************************************************************************)
EXTENDS Integers, Sequences, SequencesExt

CONSTANTS
    Ways,           \* configurations: save: auto_save, preload: enable_preload, and
                    \* trajs, loads: bounds on the ids given out and on restarts
    CacheSize,      \* cache_size, used with auto_save
    Window,         \* sample_window_size, 0: all
    Pool,           \* threads of _save_executor
    World           \* ranks that share the trajectories of a directory

ASSUME WaysAssumption ==
    /\ Ways \subseteq [save : BOOLEAN, preload : BOOLEAN, trajs : Nat, loads : Nat]
    /\ \A w \in Ways : w.save \/ Window > 0
ASSUME SizesAssumption ==
    /\ CacheSize \in Nat \ {0} /\ Window \in Nat
    /\ Pool \in Nat \ {0} /\ World \in Nat \ {0}

VARIABLES
    way,            \* the configuration of the buffer
    ids,            \* _trajectory_id_list
    size, counter,  \* size, _trajectory_counter
    version,        \* _index_version
    window,         \* _window_cache_version and _window_cache_ids
    slotOf,         \* cache of TrajectoryCache: the slot of a cached id
    owner,          \* _slot_to_id: the last id a slot was given to
    next,           \* _last_slot: the slot to be given next
    content,        \* content[s]: the id whose data are in slot s
    main,           \* the training thread: where it is in add_trajectories
    sampler,        \* the thread that samples
    queue, working, \* jobs of _save_executor: waiting, and with a thread
    disk,           \* the directory of auto_save
    checkpoint,     \* what save_checkpoint wrote last
    origin          \* the directory the buffer was loaded from

indexVars == <<ids, size, counter, version>>
cacheVars == <<slotOf, owner, next, content>>
jobVars == <<queue, working>>
vars == <<way, indexVars, window, cacheVars, main, sampler, jobVars, disk, checkpoint, origin>>

NoId == -1
Absent == [ids |-> <<>>, meta |-> [size |-> 0, counter |-> 0], whole |-> {}, partial |-> {}]

(* Slots of the cache, which without auto_save is as large as the window.   *)
SlotsOf(w) == IF w.save THEN CacheSize ELSE Window

(* s[-n:]                                                                   *)
LastN(s, n) == IF n = 0 \/ n >= Len(s) THEN s ELSE SubSeq(s, Len(s) - n + 1, Len(s))

Ids(s) == ToSet(s)

Idle == [at |-> "idle", left |-> 0, saves |-> {}]
Resting == [at |-> "idle", id |-> NoId, from |-> {}, recent |-> {}, slot |-> 0, data |-> NoId]

Job(what, of) == [job |-> what, ids |-> of, at |-> "begun"]

Meta == [size |-> size, counter |-> counter]

Init ==
    /\ way \in Ways
    /\ ids = <<>> /\ size = 0 /\ counter = 0 /\ version = 0
    /\ window = [version |-> -1, ids |-> <<>>]
    /\ slotOf = <<>> /\ owner = <<>> /\ next = 0 /\ content = <<>>
    /\ main = Idle
    /\ sampler = Resting
    /\ queue = <<>> /\ working = {}
    /\ disk = Absent /\ checkpoint = Absent
    /\ origin = [kind |-> "none", loads |-> 0, whole |-> {}, size |-> 0]

(* Without preload the two threads are one.                                 *)
MainRuns == way.preload \/ sampler.at = "idle"
SamplerMayStart == way.preload \/ main.at = "idle"

-----------------------------------------------------------------------------
(* add_trajectories. *)

StartAdd(n) ==
    /\ MainRuns /\ main.at = "idle"
    /\ counter + n <= way.trajs
    /\ main' = [at |-> "submit", left |-> n, saves |-> {}]
    /\ UNCHANGED <<way, indexVars, window, cacheVars, sampler, jobVars, disk, checkpoint, origin>>

Submit ==
    /\ MainRuns /\ main.at = "submit"
    /\ IF way.save
       THEN /\ queue' = Append(queue, Job("save", {counter}))
            /\ main' = [main EXCEPT !.at = "index", !.saves = @ \cup {counter}]
       ELSE /\ main' = [main EXCEPT !.at = "index"]
            /\ UNCHANGED queue
    /\ UNCHANGED <<way, indexVars, window, cacheVars, sampler, working, disk, checkpoint, origin>>

(* Mutant: the window is not known to be out of date. *)
AddToIndex_SameVersion ==
    /\ MainRuns /\ main.at = "index"
    /\ ids' = Append(ids, counter)
    /\ size' = size + 1
    /\ counter' = counter + 1
    /\ main' = [main EXCEPT !.at = "put"]
    /\ UNCHANGED <<way, version, window, cacheVars, sampler, jobVars, disk, checkpoint, origin>>

(* Under the index lock. *)
AddToIndex ==
    /\ MainRuns /\ main.at = "index"
    /\ ids' = Append(ids, counter)
    /\ size' = size + 1
    /\ counter' = counter + 1
    /\ version' = version + 1
    /\ main' = [main EXCEPT !.at = "put"]
    /\ UNCHANGED <<way, window, cacheVars, sampler, jobVars, disk, checkpoint, origin>>

(* The cached ids once slot s is given away. *)
Evict_Stays(s) == DOMAIN slotOf

Evict(s) == DOMAIN slotOf \ (IF s \in DOMAIN owner THEN {owner[s]} ELSE {})

(* TrajectoryCache.put gives the next slot of the ring to the new id ...    *)
CachePut ==
    /\ MainRuns /\ main.at = "put"
    /\ LET id == Last(ids)
       IN /\ slotOf' = [i \in Evict(next) \cup {id} |-> IF i = id THEN next ELSE slotOf[i]]
          /\ owner' = [s \in DOMAIN owner \cup {next} |-> IF s = next THEN id ELSE owner[s]]
    /\ next' = (next + 1) % SlotsOf(way)
    /\ main' = [main EXCEPT !.at = "insert"]
    /\ UNCHANGED <<way, indexVars, window, content, sampler, jobVars, disk, checkpoint, origin>>

(* ... and only then writes the data into it.                               *)
CacheInsert ==
    /\ MainRuns /\ main.at = "insert"
    /\ LET s == slotOf[Last(ids)]
       IN content' = [t \in DOMAIN content \cup {s} |-> IF t = s THEN Last(ids) ELSE content[t]]
    /\ main' = [main EXCEPT !.at = IF main.left = 1 THEN "flush" ELSE "submit", !.left = @ - 1]
    /\ UNCHANGED <<way, indexVars, window, slotOf, owner, next, sampler, jobVars, disk, checkpoint,
                   origin>>

EndAdd ==
    /\ MainRuns /\ main.at = "flush"
    /\ queue' = IF way.save THEN Append(queue, Job("flush", main.saves)) ELSE queue
    /\ main' = Idle
    /\ UNCHANGED <<way, indexVars, window, cacheVars, sampler, working, disk, checkpoint, origin>>

-----------------------------------------------------------------------------
(* The threads of _save_executor. *)

Take ==
    /\ queue # <<>>
    /\ Cardinality(working) < Pool
    /\ working' = working \cup {Head(queue)}
    /\ queue' = Tail(queue)
    /\ UNCHANGED <<way, indexVars, window, cacheVars, main, sampler, disk, checkpoint, origin>>

(* _save_trajectory: the file exists before it is complete.                 *)
OpenFile(j) ==
    /\ j \in working /\ j.job = "save" /\ j.at = "begun"
    /\ disk' = [disk EXCEPT !.partial = @ \cup j.ids]
    /\ working' = (working \ {j}) \cup {[j EXCEPT !.at = "open"]}
    /\ UNCHANGED <<way, indexVars, window, cacheVars, main, sampler, queue, checkpoint, origin>>

CloseFile(j) ==
    /\ j \in working /\ j.job = "save" /\ j.at = "open"
    /\ disk' = [disk EXCEPT !.partial = @ \ j.ids, !.whole = @ \cup j.ids]
    /\ working' = working \ {j}
    /\ UNCHANGED <<way, indexVars, window, cacheVars, main, sampler, queue, checkpoint, origin>>

(* Are the saves of a flush done: fut.result() for each of them.            *)
Saved(j) == \A k \in working \cup ToSet(queue) : k.job = "save" => k.ids \cap j.ids = {}

FlushMetadata(j) ==
    /\ j \in working /\ j.job = "flush" /\ j.at = "begun"
    /\ Saved(j)
    /\ disk' = [disk EXCEPT !.meta = Meta]
    /\ working' = (working \ {j}) \cup {[j EXCEPT !.at = "open"]}
    /\ UNCHANGED <<way, indexVars, window, cacheVars, main, sampler, queue, checkpoint, origin>>

(* Mutant: a flush writes the index as of its own call. *)
FlushIndex_OwnCall(j) ==
    /\ j \in working /\ j.job = "flush" /\ j.at = "open"
    /\ disk' = [disk EXCEPT !.ids = SelectSeq(ids, LAMBDA i : \E k \in j.ids : i <= k)]
    /\ working' = working \ {j}
    /\ UNCHANGED <<way, indexVars, window, cacheVars, main, sampler, queue, checkpoint, origin>>

FlushIndex(j) ==
    /\ j \in working /\ j.job = "flush" /\ j.at = "open"
    /\ disk' = [disk EXCEPT !.ids = ids]
    /\ working' = working \ {j}
    /\ UNCHANGED <<way, indexVars, window, cacheVars, main, sampler, queue, checkpoint, origin>>

-----------------------------------------------------------------------------
(* sample_chunks. *)

(* Under the index lock: the window is made anew when the index has changed *)
(* since it was made. One of its trajectories is drawn.                     *)
Draw ==
    /\ SamplerMayStart /\ sampler.at = "idle"
    /\ main.at # "failed" /\ size > 0
    /\ window' = IF window.version = version THEN window
                 ELSE [version |-> version, ids |-> LastN(ids, Window)]
    /\ \E id \in Ids(window'.ids) :
           sampler' = [sampler EXCEPT !.at = "drawn", !.id = id, !.from = Ids(window'.ids),
                                      !.recent = Ids(LastN(ids, Window))]
    /\ UNCHANGED <<way, indexVars, cacheVars, main, jobVars, disk, checkpoint, origin>>

Mask ==
    /\ sampler.at = "drawn"
    /\ sampler' = [sampler EXCEPT !.at = IF sampler.id \in DOMAIN slotOf THEN "hit" ELSE "miss"]
    /\ UNCHANGED <<way, indexVars, window, cacheVars, main, jobVars, disk, checkpoint, origin>>

(* A hit: the slot is looked up again, after the check, and may be gone.    *)
FindSlot ==
    /\ sampler.at = "hit"
    /\ sampler' = IF sampler.id \in DOMAIN slotOf
                  THEN [sampler EXCEPT !.at = "slot", !.slot = slotOf[sampler.id]]
                  ELSE [sampler EXCEPT !.at = "dead"]
    /\ UNCHANGED <<way, indexVars, window, cacheVars, main, jobVars, disk, checkpoint, origin>>

Gather ==
    /\ sampler.at = "slot"
    /\ sampler' = [sampler EXCEPT !.at = "given", !.data =
                       IF sampler.slot \in DOMAIN content THEN content[sampler.slot] ELSE NoId]
    /\ UNCHANGED <<way, indexVars, window, cacheVars, main, jobVars, disk, checkpoint, origin>>

Loaded == Ids(SubSeq(ids, 1, origin.size))

(* A miss: the trajectory is loaded from where it is said to be, and the    *)
(* call raises when there is no file, or none that is complete.             *)
LoadMiss ==
    /\ sampler.at = "miss"
    /\ sampler' = IF sampler.id \in IF sampler.id \in Loaded THEN origin.whole ELSE disk.whole
                  THEN [sampler EXCEPT !.at = "given", !.data = sampler.id]
                  ELSE [sampler EXCEPT !.at = "dead"]
    /\ UNCHANGED <<way, indexVars, window, cacheVars, main, jobVars, disk, checkpoint, origin>>

Give ==
    /\ sampler.at = "given"
    /\ sampler' = Resting
    /\ UNCHANGED <<way, indexVars, window, cacheVars, main, jobVars, disk, checkpoint, origin>>

-----------------------------------------------------------------------------
(* save_checkpoint and load_checkpoint. *)

(* With auto_save the files of the window are copied as they are, those of  *)
(* other trajectories are not; without it what is cached is written. None   *)
(* is written that could not be loaded within the bound.                    *)
SaveCheckpoint ==
    /\ MainRuns /\ main.at = "idle"
    /\ origin.loads < way.loads
    /\ checkpoint' =
           [ids |-> ids, meta |-> Meta,
            whole |-> IF way.save THEN Ids(window.ids) \cap disk.whole
                      ELSE {i \in DOMAIN slotOf : content[slotOf[i]] = i},
            partial |-> IF way.save THEN Ids(window.ids) \cap disk.partial ELSE {}]
    /\ UNCHANGED <<way, indexVars, window, cacheVars, main, sampler, jobVars, disk, origin>>

(* Mutant: the oldest trajectories are cached. *)
Recent_Oldest(list, n) == SubSeq(list, 1, IF Len(list) < n THEN Len(list) ELSE n)

(* The trajectories that load_checkpoint puts into the cache.               *)
Recent(list, n) == LastN(list, n)

(* A new process loads list from a directory; it raises when a trajectory   *)
(* to be cached has no file there. New trajectories go to a new directory.  *)
Load(kind, dir, list, meta) ==
    LET recent == Recent(list, SlotsOf(way'))
        cached == Ids(recent) \subseteq dir.whole
        filled == IF cached THEN recent ELSE <<>>
        at == [s \in 0 .. Len(filled) - 1 |-> filled[s + 1]]
    IN /\ ids' = list /\ size' = meta.size /\ counter' = meta.counter /\ version' = 0
       /\ window' = [version |-> -1, ids |-> <<>>]
       /\ slotOf' = [i \in Ids(filled) |-> CHOOSE s \in DOMAIN at : at[s] = i]
       /\ owner' = at /\ content' = at
       /\ next' = Len(filled) % SlotsOf(way')
       /\ main' = [Idle EXCEPT !.at = IF cached THEN "idle" ELSE "failed"]
       /\ sampler' = Resting
       /\ queue' = <<>> /\ working' = {}
       /\ disk' = Absent
       /\ origin' = [kind |-> kind, loads |-> origin.loads + 1, whole |-> dir.whole, size |-> Len(list)]

(* The program ends, in the middle of anything, and resumes a checkpoint.   *)
Resume ==
    /\ origin.loads < way.loads
    /\ checkpoint.meta.size > 0
    /\ way' = way
    /\ Load("checkpoint", checkpoint, checkpoint.ids, checkpoint.meta)
    /\ UNCHANGED checkpoint

(* The part of n trajectories that rank r of a distributed load takes.      *)
PartStart(n, r) == r * (n \div World) + (IF r < n % World THEN r ELSE n % World)
PartLen(n, r) == (n \div World) + (IF r < n % World THEN 1 ELSE 0)

(* A buffer with auto_save that was closed is loaded, in parts, by others.  *)
LoadPart(r) ==
    /\ origin.loads < way.loads
    /\ way.save /\ main.at = "idle" /\ queue = <<>> /\ working = {}
    /\ disk.meta.size > 0
    /\ way' \in Ways
    /\ LET n == Len(disk.ids)
           list == SubSeq(disk.ids, PartStart(n, r) + 1, PartStart(n, r) + PartLen(n, r))
           nextId == IF list = <<>> THEN 0 ELSE Max(Ids(list)) + 1
       IN Load("closed", disk, list, [size |-> Len(list), counter |-> nextId])
    /\ checkpoint' = Absent

-----------------------------------------------------------------------------
AddStep == Submit \/ AddToIndex \/ CachePut \/ CacheInsert \/ EndAdd

SampleStep == Mask \/ FindSlot \/ Gather \/ LoadMiss \/ Give

JobStep == \E j \in working : OpenFile(j) \/ CloseFile(j) \/ FlushMetadata(j) \/ FlushIndex(j)

Next ==
    \/ \E n \in 1 .. 2 : StartAdd(n)
    \/ AddStep
    \/ Draw \/ SampleStep
    \/ Take \/ JobStep
    \/ SaveCheckpoint \/ Resume \/ (\E r \in 0 .. World - 1 : LoadPart(r))

(* A call that has begun ends, and the executor's threads run.              *)
Fairness == WF_vars(AddStep) /\ WF_vars(SampleStep) /\ WF_vars(Take) /\ WF_vars(JobStep)

Spec == Init /\ [][Next]_vars /\ Fairness

-----------------------------------------------------------------------------
(* sample_chunks draws from the most recent trajectories of the time when   *)
(* it takes the index lock: a window made earlier is used only while the    *)
(* index is still the same.                                                 *)
SampleFromRecent == sampler.from = sampler.recent

(* Without preload a sample is of the trajectory it was drawn from, however *)
(* slots are reused, and sample_chunks raises only when it has to load a    *)
(* trajectory: without auto_save everything in the window is cached.        *)
SampleIsRight ==
    ~way.preload =>
        /\ sampler.at = "given" => sampler.data = sampler.id
        /\ sampler.at = "dead" => way.save

(* A checkpoint written without auto_save can be loaded, whenever it was    *)
(* written and whenever the program ended; so can every part of the         *)
(* directory of a buffer that was closed, unless that had itself loaded     *)
(* trajectories: the index lists them, and their files are elsewhere.       *)
LoadSucceeds ==
    main.at = "failed" =>
        IF origin.kind = "checkpoint" THEN way.save ELSE origin.loads > 1

(* Trajectories added since the program was started are all on disk at      *)
(* last, and so are the index and the metadata of the last of them, however *)
(* the jobs of several calls overlap: none waits for a thread for ever, and *)
(* none writes over what a later one wrote.                                 *)
OnDisk ==
    /\ queue = <<>> /\ working = {}
    /\ Len(ids) > origin.size =>
           /\ Ids(ids) \ Loaded \subseteq disk.whole
           /\ disk.ids = ids
           /\ disk.meta = Meta
DiskCatchesUp == <>[](way.save => OnDisk)
=============================================================================
