---------------------------- MODULE CachePersist ----------------------------
(***************************************************************************)
(* The cache file (dns_mw_cache.rs): the task DnsCacheMiddleware::new      *)
(* spawns, which loads the file and then saves the cache at every          *)
(* checkpoint and on termination; the blocking writers it starts; and the  *)
(* end of the process (app.rs, main.rs), orderly or not.                   *)
(*                                                                         *)
(* Nobody owns the file.  The writer of a checkpoint is not awaited, and a *)
(* reload makes a second cache with a task of its own while the task of    *)
(* the first one goes on: writers overlap, each truncates the file and     *)
(* each writes at an offset of its own.  A crash leaves what was written.  *)
(*                                                                         *)
(* An entry is its key and the whole seconds it has left (0: expired).  In *)
(* memory it keeps an instant, so that `left` runs down; in the file it    *)
(* keeps the number.  An encoded entry of key k takes Size[k] cells.       *)
(***************************************************************************)
EXTENDS Integers, Sequences, FiniteSets

CONSTANTS
  Shards,      \* the keys, in the order the shards are visited (a shard each)
  Size,        \* the length of an encoded entry
  TTL,         \* the seconds a fresh entry has left
  MAX_JOBS,    \* bound: writers at a time
  MAX_CHANGES, \* bound: entries cached or evicted and reloads, together
  Absent,      \* no such file, no such entry
  Torn         \* what does not decode

Key == {Shards[i] : i \in DOMAIN Shards}
Entry == [key : Key, left : 0..TTL]
Hole == <<0, 0, 0>>
Cell == (Key \X (0..TTL) \X (Nat \ {0})) \cup {Hole}

ASSUME PersistAssumption ==
  /\ Shards \in Seq(Key) /\ Shards # <<>>
  /\ \A i, j \in DOMAIN Shards : Shards[i] = Shards[j] => i = j
  /\ Size \in [Key -> Nat \ {0}]
  /\ TTL \in Nat \ {0} /\ MAX_JOBS \in Nat \ {0} /\ MAX_CHANGES \in Nat
  /\ Absent \notin 0..TTL /\ Absent \notin Seq(Cell) /\ Torn \notin Seq(Entry)

VARIABLES
  file,     \* the cells of the cache file
  process,  \* "up", "stopping" (the signal has come), "draining" (the runtime is shut down), "down"
  cache,    \* the caches of this process, the one in use last
  task,     \* the task of each cache
  job,      \* the blocking writers
  changes,  \* entries cached or evicted and reloads so far
  mixed,    \* history: the file was opened while another writer had it open
  broken,   \* history: a write was cut short since
  wrote     \* history: the entries written since, if neither

history == <<mixed, broken, wrote>>
vars == <<file, process, cache, task, job, changes, history>>

Writer == 1..MAX_JOBS
NoJob == [st |-> "free", entries |-> <<>>, off |-> 0, by |-> 0]
Idle(pc) == [pc |-> pc, todo |-> <<>>, at |-> 0, last |-> FALSE]
Empty == [k \in Key |-> Absent]

Caches == [Key -> 0..TTL \cup {Absent}]
Tasks == [pc : {"load", "push", "wait", "signalled", "snap", "await", "done"},
          todo : Seq(Entry), at : 0..Len(Shards), last : BOOLEAN]
Jobs == [st : {"free", "queued", "open"}, entries : Seq(Entry), off : Nat, by : 0..MAX_CHANGES + 1]

TypeOK ==
  /\ file = Absent \/ file \in Seq(Cell)
  /\ process \in {"up", "stopping", "draining", "down"}
  /\ cache \in Seq(Caches) /\ Len(cache) <= MAX_CHANGES + 1
  /\ task \in Seq(Tasks) /\ Len(task) = Len(cache)
  /\ job \in [Writer -> Jobs]
  /\ changes \in 0..MAX_CHANGES
  /\ mixed \in BOOLEAN /\ broken \in BOOLEAN /\ wrote \in Seq(Entry)

Init ==
  /\ file = Absent
  /\ process = "up"
  /\ cache = <<Empty>> /\ task = <<Idle("load")>>
  /\ job = [j \in Writer |-> NoJob]
  /\ changes = 0
  /\ mixed = FALSE /\ broken = FALSE /\ wrote = <<>>

Running == process \in {"up", "stopping"}

\* Mutant of Older: the time left of an expired entry is not cut at zero.
OlderStill(l) == IF l = Absent THEN l ELSE l - 1

\* A second passes: what is kept as an instant comes closer, and is 0 once it is over.
Older(l) == IF l = Absent \/ l = 0 THEN l ELSE l - 1
AllOlder(es) == [i \in DOMAIN es |-> [es[i] EXCEPT !.left = Older(@)]]
Tick ==
  /\ process # "down"
  /\ cache' = [c \in DOMAIN cache |-> [k \in Key |-> Older(cache[c][k])]]
  /\ task' = [c \in DOMAIN task |-> [task[c] EXCEPT !.todo = AllOlder(@)]]
  /\ job' = [j \in Writer |-> [job[j] EXCEPT !.entries = AllOlder(@)]]
  /\ UNCHANGED <<file, process, changes, history>>

\* An answer is cached; one that is under way in an old chain goes to the old cache.
Insert(c, k) ==
  /\ Running /\ changes < MAX_CHANGES
  /\ cache' = [cache EXCEPT ![c][k] = TTL]
  /\ changes' = changes + 1
  /\ UNCHANGED <<file, process, task, job, history>>

\* An entry is evicted, or cleared.
Remove(c, k) ==
  /\ Running /\ changes < MAX_CHANGES
  /\ cache[c][k] # Absent
  /\ cache' = [cache EXCEPT ![c][k] = Absent]
  /\ changes' = changes + 1
  /\ UNCHANGED <<file, process, task, job, history>>

-----------------------------------------------------------------------------
\* The file.

\* A whole entry is encoded at cell i of f.
Whole(f, i) ==
  /\ f[i] # Hole
  /\ i + Size[f[i][1]] - 1 <= Len(f)
  /\ \A n \in 1..Size[f[i][1]] : f[i + n - 1] = <<f[i][1], f[i][2], n>>

\* deserialize_many: entry after entry, and all is lost if one does not decode.  The
\* rest of an entry that was overwritten, and a hole, do not.
Decode(f) ==
  LET from[i \in 1..Len(f) + 1] ==
        IF i = Len(f) + 1 THEN <<>>
        ELSE IF ~Whole(f, i) THEN Torn
        ELSE LET rest == from[i + Size[f[i][1]]] IN
             IF rest = Torn THEN Torn
             ELSE <<[key |-> f[i][1], left |-> f[i][2]]>> \o rest
  IN from[1]

\* emit: the seconds left at the time of the write, 0 if it has expired.
Encode(e) == [n \in 1..Size[e.key] |-> <<e.key, e.left, n>>]

\* write_all: the first n cells of e are written at the offset; what lies between the
\* end of the file and the offset becomes a hole.
Overwrite(off, e, n) ==
  [i \in 1..(IF off + n > Len(file) THEN off + n ELSE Len(file)) |->
     IF i > off /\ i <= off + n THEN Encode(e)[i - off]
     ELSE IF i <= Len(file) THEN file[i] ELSE Hole]

\* Mutant of Open: the file is not truncated.
OpenOver(j) ==
  /\ job[j].st = "queued"
  /\ file' = IF file = Absent THEN <<>> ELSE file
  /\ job' = [job EXCEPT ![j].st = "open"]
  /\ mixed' = \E i \in Writer : job[i].st = "open"
  /\ broken' = FALSE
  /\ wrote' = <<>>
  /\ UNCHANGED <<process, cache, task, changes>>

\* A writer creates or truncates the file ...
Open(j) ==
  /\ job[j].st = "queued"
  /\ file' = <<>>
  /\ job' = [job EXCEPT ![j].st = "open"]
  /\ mixed' = \E i \in Writer : job[i].st = "open"
  /\ broken' = FALSE
  /\ wrote' = <<>>
  /\ UNCHANGED <<process, cache, task, changes>>

\* ... writes an entry ...
Write(j) ==
  /\ job[j].st = "open" /\ job[j].entries # <<>>
  /\ LET e == Head(job[j].entries) IN
       /\ file' = Overwrite(job[j].off, e, Size[e.key])
       /\ job' = [job EXCEPT ![j].off = @ + Size[e.key], ![j].entries = Tail(@)]
       /\ wrote' = IF mixed \/ broken THEN wrote ELSE Append(wrote, e)
  /\ UNCHANGED <<process, cache, task, changes, mixed, broken>>

\* ... or a part of it, an error that is not looked at: the next one follows the part.
WriteFails(j, n) ==
  /\ job[j].st = "open" /\ job[j].entries # <<>>
  /\ LET e == Head(job[j].entries) IN
       /\ n < Size[e.key]
       /\ file' = Overwrite(job[j].off, e, n)
       /\ job' = [job EXCEPT ![j].off = @ + n, ![j].entries = Tail(@)]
  /\ broken' = (broken \/ (n > 0 /\ ~mixed))
  /\ wrote' = IF broken' THEN <<>> ELSE wrote
  /\ UNCHANGED <<process, cache, task, changes, mixed>>

\* A writer ends, at the end or because it cannot open the file; who awaits it goes on.
Close(j) ==
  /\ job[j].st = "queued" \/ (job[j].st = "open" /\ job[j].entries = <<>>)
  /\ job' = [job EXCEPT ![j] = NoJob]
  /\ task' = IF job[j].by = 0 THEN task ELSE [task EXCEPT ![job[j].by] = Idle("done")]
  /\ UNCHANGED <<file, process, cache, changes, history>>

-----------------------------------------------------------------------------
\* The task of cache c.

\* Mutant of Load: a file that does not decode ends the task.
LoadOrGiveUp(c) ==
  /\ Running /\ task[c].pc = "load"
  /\ task' = [task EXCEPT ![c] =
       IF file = Absent \/ file = <<>> THEN Idle("wait")
       ELSE IF Decode(file) = Torn THEN Idle("done")
       ELSE [Idle("push") EXCEPT !.todo = Decode(file)]]
  /\ UNCHANGED <<file, process, cache, job, changes, history>>

\* load_from reads and decodes the file; an error is only logged.
Load(c) ==
  /\ Running /\ task[c].pc = "load"
  /\ task' = [task EXCEPT ![c] =
       IF file = Absent \/ file = <<>> \/ Decode(file) = Torn THEN Idle("wait")
       ELSE [Idle("push") EXCEPT !.todo = Decode(file)]]
  /\ UNCHANGED <<file, process, cache, job, changes, history>>

\* The entries go into the shards one by one, and replace what is there.
Push(c) ==
  /\ Running /\ task[c].pc = "push"
  /\ LET e == Head(task[c].todo) IN cache' = [cache EXCEPT ![c][e.key] = e.left]
  /\ task' = [task EXCEPT ![c] =
       IF Len(@.todo) = 1 THEN Idle("wait") ELSE [task[c] EXCEPT !.todo = Tail(@)]]
  /\ UNCHANGED <<file, process, job, changes, history>>

\* The interval elapses, perhaps together with the signal ...
Interval(c) ==
  /\ Running /\ task[c].pc \in {"wait", "signalled"}
  /\ task' = [task EXCEPT ![c] = [Idle("snap") EXCEPT !.at = 1]]
  /\ UNCHANGED <<file, process, cache, job, changes, history>>

\* ... or the signal is taken.
Terminate(c) ==
  /\ Running /\ task[c].pc = "signalled"
  /\ task' = [task EXCEPT ![c] = [Idle("snap") EXCEPT !.at = 1, !.last = TRUE]]
  /\ UNCHANGED <<file, process, cache, job, changes, history>>

\* snapshot_entries takes the shards one after the other; after the last one the writer
\* is started.  Only the writer of persist_to is awaited.
Snapshot(c) ==
  /\ Running /\ task[c].pc = "snap"
  /\ LET t == task[c]
         k == Shards[t.at]
         es == IF cache[c][k] = Absent THEN t.todo
               ELSE Append(t.todo, [key |-> k, left |-> cache[c][k]])
     IN \/ /\ t.at < Len(Shards)
           /\ task' = [task EXCEPT ![c] = [t EXCEPT !.todo = es, !.at = @ + 1]]
           /\ UNCHANGED job
        \/ /\ t.at = Len(Shards)
           /\ \E j \in Writer :
                /\ job[j] = NoJob /\ \A i \in 1..j - 1 : job[i] # NoJob
                /\ job' = [job EXCEPT ![j] = [st |-> "queued", entries |-> es, off |-> 0,
                                              by |-> IF t.last THEN c ELSE 0]]
           /\ task' = [task EXCEPT ![c] = Idle(IF t.last THEN "await" ELSE "wait")]
  /\ UNCHANGED <<file, process, cache, changes, history>>

-----------------------------------------------------------------------------
\* The process.

\* A reload builds a cache, and leaves the task of the old one alone.
Reload ==
  /\ process = "up" /\ changes < MAX_CHANGES
  /\ cache' = Append(cache, Empty)
  /\ task' = Append(task, Idle("load"))
  /\ changes' = changes + 1
  /\ UNCHANGED <<file, process, job, history>>

\* The signal reaches the tasks that listen: signal::terminate registers anew in every
\* turn of the loop, so that the others miss it.
Signal ==
  /\ process = "up"
  /\ process' = "stopping"
  /\ task' = [c \in DOMAIN task |->
                IF task[c].pc = "wait" THEN Idle("signalled") ELSE task[c]]
  /\ UNCHANGED <<file, cache, job, changes, history>>

\* main closes the listeners and shuts the runtime down: the tasks are dropped where
\* they wait, and so may be a writer that has not begun.
Shutdown ==
  /\ process = "stopping"
  /\ process' = "draining"
  /\ cache' = <<>> /\ task' = <<>>
  /\ \E dropped \in SUBSET {j \in Writer : job[j].st = "queued"} :
       job' = [j \in Writer |-> IF j \in dropped THEN NoJob ELSE [job[j] EXCEPT !.by = 0]]
  /\ UNCHANGED <<file, changes, history>>

\* The process is gone: after its writers, after the five seconds it gives them, or at
\* any time in a crash.  A write under way is cut short (WriteFails).
Exit ==
  /\ process # "down"
  /\ process' = "down"
  /\ cache' = <<>> /\ task' = <<>> /\ job' = [j \in Writer |-> NoJob]
  /\ UNCHANGED <<file, changes, history>>

Start ==
  /\ process = "down"
  /\ process' = "up"
  /\ cache' = <<Empty>> /\ task' = <<Idle("load")>>
  /\ UNCHANGED <<file, job, changes, history>>

-----------------------------------------------------------------------------
Task(c) == Load(c) \/ Push(c) \/ Interval(c) \/ Terminate(c) \/ Snapshot(c)
Job(j) ==
  \/ Open(j) \/ Write(j) \/ Close(j)
  \/ \E n \in UNION {0..Size[k] - 1 : k \in Key} : WriteFails(j, n)

Next ==
  \/ Tick
  \/ \E c \in DOMAIN cache : Task(c) \/ \E k \in Key : Insert(c, k) \/ Remove(c, k)
  \/ \E j \in Writer : Job(j)
  \/ Reload \/ Signal \/ Shutdown \/ Exit \/ Start

\* The runtime polls its tasks, the interval elapses, and a blocking write ends.
Fairness ==
  /\ \A c \in 1..MAX_CHANGES + 1 : WF_vars(c \in DOMAIN cache /\ Task(c))
  /\ \A j \in Writer : WF_vars(Job(j))

Spec == Init /\ [][Next]_vars
FairSpec == Spec /\ Fairness

-----------------------------------------------------------------------------
\* What a start would load is what was written, no more and no less: at any time since
\* the file was last opened, in the middle of a save and after a crash in it, the file
\* decodes to the entries written so far with the seconds they had left then -- unless
\* another writer had the file open, or a write was cut short.
WhatWasWritten ==
  file # Absent /\ ~mixed /\ ~broken => Decode(file) = wrote

\* A server that stays up saves again and again, whatever the file it found was like:
\* neither a torn file nor a writer that fails stops the checkpoints of the cache in use.
CheckpointsGoOn ==
  <>[](process = "up") => []<>(task # <<>> /\ task[Len(task)].pc = "snap")
=============================================================================
