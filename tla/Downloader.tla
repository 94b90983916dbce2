----------------------------- MODULE Downloader -----------------------------
(***************************************************************************)
(* DownloadSession of aetherbond/client/downloader.py: initialize cuts the *)
(* file into ranges; up to eight worker tasks take them off a queue, fetch *)
(* each over the link the Scheduler picks, write it at its offset of the   *)
(* output file, retry three times and then put it back.                    *)
(*                                                                         *)
(* A byte stands for a block; the source file's block at offset k is k.  A *)
(* session runs over physical links, writing as the data comes, or over    *)
(* simulated ones, where a chunk of mock data is written at the end.  The  *)
(* semaphore of 12 never blocks 8 workers.  The clock and the speed are    *)
(* left out.                                                               *)
(***************************************************************************)
EXTENDS Naturals, Sequences, FiniteSets

CONSTANTS total_size,    \* blocks of the file
          chunk_size,    \* blocks of a range
          MaxWorkers,    \* 8
          MaxRetries,    \* max_retries, 3
          Link,          \* the interfaces of the scheduler
          MaxFailures,   \* bound: failures of requests and streams
          MaxToggles     \* bound: links going online and offline

ASSUME DownloaderAssumption ==
    /\ total_size \in Nat \ {0} /\ chunk_size \in Nat \ {0}
    /\ MaxWorkers \in Nat \ {0} /\ MaxRetries \in Nat \ {0}
    /\ Link # {} /\ MaxFailures \in Nat \ {0} /\ MaxToggles \in Nat

\* The ranges initialize makes: one of the whole file without Accept-Ranges.
Ranges(accept_ranges) ==
    LET num_chunks == IF accept_ranges
                      THEN (total_size + chunk_size - 1) \div chunk_size ELSE 1
        End(i) == IF accept_ranges /\ i * chunk_size <= total_size
                  THEN i * chunk_size - 1 ELSE total_size - 1
    IN  [i \in 1..num_chunks |-> [start |-> (i - 1) * chunk_size, end |-> End(i)]]

Worker == 1..MaxWorkers
Block == 0..(total_size - 1)
NoChunk == 0
Hole == total_size      \* a block of the file nothing was written to
Mock == total_size + 1  \* a block of the mock data of a simulated link

VARIABLES chunks,      \* the ranges
          is_sim,      \* whether the session's links are simulated
          honours,     \* whether the server answers a range with a 206
          queue,       \* chunks waiting for a worker
          unfinished,  \* the queue's count of puts without a task_done
          status,      \* chunk -> PENDING, DOWNLOADING, COMPLETED or FAILED
          bytes,       \* chunk -> bytes_downloaded
          pc,          \* where each worker is
          cur,         \* the chunk it works on
          retries,     \* its failed attempts with this chunk
          link,        \* the interface of its attempt
          offset,      \* where its next write goes
          source,      \* which block the server sends it next; on a simulated
                       \*   link, its variable `downloaded`
          file,        \* the output file
          total,       \* total_downloaded_bytes
          is_completed,
          online,      \* the links the scheduler may pick
          failures, toggles

vars == <<chunks, is_sim, honours, queue, unfinished, status, bytes, pc, cur,
          retries, link, offset, source, file, total, is_completed, online,
          failures, toggles>>

modeVars == <<chunks, is_sim, honours>>
queueVars == <<queue, unfinished>>
streamVars == <<link, offset, source>>
envVars == <<online, failures, toggles>>

Chunk == DOMAIN chunks
Start(c) == chunks[c].start
End(c) == chunks[c].end
Size(c) == End(c) - Start(c) + 1

\* The end of initialize, the file truncated to its size, and the head of start.
\* A server that says "Accept-Ranges: bytes" honours ranges.
Init ==
    /\ is_sim \in BOOLEAN
    /\ honours \in BOOLEAN
    /\ \E accept_ranges \in BOOLEAN :
         /\ accept_ranges \/ is_sim => honours
         /\ chunks = Ranges(accept_ranges)
    /\ queue = [c \in Chunk |-> c]
    /\ unfinished = Len(chunks)
    /\ status = [c \in Chunk |-> "PENDING"]
    /\ bytes = [c \in Chunk |-> 0]
    /\ pc = [w \in Worker |-> IF w <= Len(chunks) THEN "loop" ELSE "done"]
    /\ cur = [w \in Worker |-> NoChunk]
    /\ retries = [w \in Worker |-> 0]
    /\ link \in [Worker -> {CHOOSE l \in Link : TRUE}]
    /\ offset = [w \in Worker |-> 0]
    /\ source = [w \in Worker |-> 0]
    /\ file = [k \in Block |-> Hole]
    /\ total = 0
    /\ is_completed = FALSE
    /\ online = Link
    /\ failures = 0
    /\ toggles = 0

Goto(w, l) == pc' = [pc EXCEPT ![w] = l]
SetStatus(w, s) == status' = [status EXCEPT ![cur[w]] = s]

----------------------------------------------------------------------------
\* Mutant: the worker looks at the head of the queue and leaves it there.
TakePeeks(w) ==
    /\ pc[w] = "loop"
    /\ queue # <<>>
    /\ cur' = [cur EXCEPT ![w] = Head(queue)]
    /\ retries' = [retries EXCEPT ![w] = 0]
    /\ Goto(w, "attempt")
    /\ UNCHANGED <<modeVars, queueVars, status, bytes, streamVars, file, total, is_completed, envVars>>

\* The test of the worker's loop, and queue.get, which does not suspend.
Take(w) ==
    /\ pc[w] = "loop"
    /\ queue # <<>>
    /\ cur' = [cur EXCEPT ![w] = Head(queue)]
    /\ queue' = Tail(queue)
    /\ retries' = [retries EXCEPT ![w] = 0]
    /\ Goto(w, "attempt")
    /\ UNCHANGED <<modeVars, unfinished, status, bytes, streamVars, file, total, is_completed, envVars>>

Exit(w) ==
    /\ pc[w] = "loop"
    /\ queue = <<>>
    /\ Goto(w, "done")
    /\ UNCHANGED <<modeVars, queueVars, status, bytes, cur, retries, streamVars, file,
                   total, is_completed, envVars>>

\* select_interface_wrr; then a request for what is missing of the chunk, or the
\* simulated delay.
Request(w) ==
    /\ pc[w] = "attempt"
    /\ \E l \in online : link' = [link EXCEPT ![w] = l]
    /\ SetStatus(w, "DOWNLOADING")
    /\ Goto(w, "request")
    /\ UNCHANGED <<modeVars, queueVars, bytes, cur, retries, offset, source, file,
                   total, is_completed, envVars>>

\* Mutant: a resumed range is written from the chunk's start.
RespondRewinds(w) ==
    LET c == cur[w]
        at == Start(c) + bytes[c]
    IN  /\ pc[w] = "request" /\ ~ is_sim
        /\ honours => at <= End(c)
        /\ offset' = [offset EXCEPT ![w] = Start(c)]
        /\ source' = [source EXCEPT ![w] = at]
        /\ Goto(w, "stream")
        /\ UNCHANGED <<modeVars, queueVars, status, bytes, cur, retries, link, file,
                       total, is_completed, envVars>>

\* A 206 starts at the block asked for, a 200 at the first of the file; either
\* is written from the chunk's start plus what was downloaded of it.
Respond(w) ==
    LET c == cur[w]
        at == Start(c) + bytes[c]
    IN  /\ pc[w] = "request" /\ ~ is_sim
        /\ honours => at <= End(c)
        /\ offset' = [offset EXCEPT ![w] = at]
        /\ source' = [source EXCEPT ![w] = IF honours THEN at ELSE 0]
        /\ Goto(w, "stream")
        /\ UNCHANGED <<modeVars, queueVars, status, bytes, cur, retries, link, file,
                       total, is_completed, envVars>>

Last(w) == IF honours THEN End(cur[w]) ELSE total_size - 1

Written(f, k, b) == [j \in DOMAIN f \cup {k} |-> IF j = k THEN b ELSE f[j]]

\* A block comes in and is written; the file grows if need be.
Receive(w) ==
    /\ pc[w] = "stream" /\ ~ is_sim
    /\ source[w] <= Last(w)
    /\ file' = Written(file, offset[w], source[w])
    /\ offset' = [offset EXCEPT ![w] = @ + 1]
    /\ source' = [source EXCEPT ![w] = @ + 1]
    /\ bytes' = [bytes EXCEPT ![cur[w]] = @ + 1]
    /\ total' = total + 1
    /\ UNCHANGED <<modeVars, queueVars, status, pc, cur, retries, link, is_completed, envVars>>

\* The chunk is done, and so is its task.
Done(w) ==
    /\ SetStatus(w, "COMPLETED")
    /\ unfinished' = unfinished - 1
    /\ cur' = [cur EXCEPT ![w] = NoChunk]
    /\ Goto(w, "loop")

\* The end of the stream.
Complete(w) ==
    /\ pc[w] = "stream" /\ ~ is_sim
    /\ source[w] > Last(w)
    /\ Done(w)
    /\ UNCHANGED <<modeVars, queue, bytes, retries, streamVars, file, total, is_completed, envVars>>

\* simulate_delay passes: a simulated attempt starts from 0 again.
Delay(w) ==
    /\ pc[w] = "request" /\ is_sim
    /\ source' = [source EXCEPT ![w] = 0]
    /\ Goto(w, "stream")
    /\ UNCHANGED <<modeVars, queueVars, status, bytes, cur, retries, link, offset, file,
                   total, is_completed, envVars>>

\* throttle_stream passes for one block more; after the last one the mock data
\* of the whole chunk are written.
Throttle(w) ==
    LET c == cur[w]
    IN  /\ pc[w] = "stream" /\ is_sim
        /\ source' = [source EXCEPT ![w] = @ + 1]
        /\ bytes' = [bytes EXCEPT ![c] = source'[w]]
        /\ total' = total + 1
        /\ IF source'[w] < Size(c)
           THEN UNCHANGED <<unfinished, status, cur, pc, file>>
           ELSE /\ file' = [k \in DOMAIN file |->
                              IF k \in Start(c)..End(c) THEN Mock ELSE file[k]]
                /\ Done(w)
        /\ UNCHANGED <<modeVars, queue, retries, link, offset, is_completed, envVars>>

\* What may raise an exception: no link to pick, the link going away, a range
\* that is already complete (416), or an error on the way.
Raises(w) ==
    \/ pc[w] = "attempt" /\ online = {}
    \/ pc[w] \in {"request", "stream"} /\ link[w] \notin online
    \/ /\ pc[w] = "request" /\ ~ is_sim
       /\ honours
       /\ Start(cur[w]) + bytes[cur[w]] > End(cur[w])
    \/ pc[w] \in {"request", "stream"} /\ failures < MaxFailures

\* Mutant: what a failed attempt fetched is taken back, and resumed all the same.
FailSubtracts(w) ==
    /\ Raises(w)
    /\ failures' = IF failures < MaxFailures THEN failures + 1 ELSE failures
    /\ retries' = [retries EXCEPT ![w] = @ + 1]
    /\ total' = total - bytes[cur[w]]
    /\ SetStatus(w, "FAILED")
    /\ Goto(w, "sleep")
    /\ UNCHANGED <<modeVars, queueVars, bytes, cur, streamVars, file,
                   is_completed, online, toggles>>

\* The exception handler, up to its sleep of a second.
Fail(w) ==
    /\ Raises(w)
    /\ failures' = IF failures < MaxFailures THEN failures + 1 ELSE failures
    /\ retries' = [retries EXCEPT ![w] = @ + 1]
    /\ SetStatus(w, "FAILED")
    /\ Goto(w, "sleep")
    /\ UNCHANGED <<modeVars, queueVars, bytes, cur, streamVars, file, total,
                   is_completed, online, toggles>>

Retry(w) ==
    /\ pc[w] = "sleep"
    /\ retries[w] < MaxRetries
    /\ Goto(w, "attempt")
    /\ UNCHANGED <<modeVars, queueVars, status, bytes, cur, retries, streamVars, file,
                   total, is_completed, envVars>>

\* Mutants: the chunk goes back without task_done, or task_done without the
\* chunk.
RequeueNotDone(w) ==
    /\ pc[w] = "sleep"
    /\ retries[w] >= MaxRetries
    /\ SetStatus(w, "PENDING")
    /\ bytes' = [bytes EXCEPT ![cur[w]] = 0]
    /\ queue' = Append(queue, cur[w])
    /\ unfinished' = unfinished + 1
    /\ cur' = [cur EXCEPT ![w] = NoChunk]
    /\ Goto(w, "loop")
    /\ UNCHANGED <<modeVars, retries, streamVars, file, total, is_completed, envVars>>

GiveUp(w) ==
    /\ pc[w] = "sleep"
    /\ retries[w] >= MaxRetries
    /\ unfinished' = unfinished - 1
    /\ cur' = [cur EXCEPT ![w] = NoChunk]
    /\ Goto(w, "loop")
    /\ UNCHANGED <<modeVars, queue, status, bytes, retries, streamVars, file, total,
                   is_completed, envVars>>

\* Out of retries: the chunk goes back to the queue as if it were new, which is
\* one put more and, with the task done, one open put less.
Requeue(w) ==
    /\ pc[w] = "sleep"
    /\ retries[w] >= MaxRetries
    /\ SetStatus(w, "PENDING")
    /\ bytes' = [bytes EXCEPT ![cur[w]] = 0]
    /\ queue' = Append(queue, cur[w])
    /\ cur' = [cur EXCEPT ![w] = NoChunk]
    /\ Goto(w, "loop")
    /\ UNCHANGED <<modeVars, unfinished, retries, streamVars, file, total, is_completed, envVars>>

\* queue.join returns: the workers are cancelled, the session is complete.
Join ==
    /\ ~ is_completed
    /\ unfinished = 0
    /\ is_completed' = TRUE
    /\ pc' = [w \in Worker |-> "done"]
    /\ UNCHANGED <<modeVars, queueVars, status, bytes, cur, retries, streamVars, file, total, envVars>>

\* A link goes offline or comes back.
Toggle(l) ==
    /\ toggles < MaxToggles
    /\ toggles' = toggles + 1
    /\ online' = IF l \in online THEN online \ {l} ELSE online \cup {l}
    /\ UNCHANGED <<modeVars, queueVars, status, bytes, pc, cur, retries, streamVars, file,
                   total, is_completed, failures>>

Next ==
    \/ \E w \in Worker :
         \/ Take(w) \/ Exit(w) \/ Request(w) \/ Respond(w) \/ Receive(w)
         \/ Complete(w) \/ Delay(w) \/ Throttle(w) \/ Fail(w) \/ Retry(w)
         \/ Requeue(w)
    \/ Join
    \/ \E l \in Link : Toggle(l)

\* Workers run; requests and streams end one way or the other.
Fairness ==
    /\ \A w \in Worker :
         WF_vars(\/ Take(w) \/ Exit(w) \/ Request(w) \/ Respond(w) \/ Receive(w)
                 \/ Complete(w) \/ Delay(w) \/ Throttle(w) \/ Fail(w) \/ Retry(w)
                 \/ Requeue(w))
    /\ WF_vars(Join)

Spec == Init /\ [][Next]_vars
FairSpec == Spec /\ Fairness

----------------------------------------------------------------------------
Held == {cur[w] : w \in Worker} \ {NoChunk}
Queued == {queue[k] : k \in DOMAIN queue}

TypeOK ==
    /\ is_sim \in BOOLEAN /\ honours \in BOOLEAN
    /\ queue \in Seq(Chunk)
    /\ unfinished \in 0..Len(chunks)
    /\ status \in [Chunk -> {"PENDING", "DOWNLOADING", "COMPLETED", "FAILED"}]
    /\ bytes \in [Chunk -> Nat]
    /\ pc \in [Worker -> {"loop", "attempt", "request", "stream", "sleep", "done"}]
    /\ cur \in [Worker -> Chunk \cup {NoChunk}]
    /\ retries \in [Worker -> 0..MaxRetries]
    /\ link \in [Worker -> Link]
    /\ offset \in [Worker -> Nat] /\ source \in [Worker -> Nat]
    /\ \A k \in DOMAIN file : file[k] \in 0..Mock
    /\ total \in Nat
    /\ is_completed \in BOOLEAN
    /\ online \subseteq Link
    /\ failures \in 0..MaxFailures /\ toggles \in 0..MaxToggles

(* A chunk is in one place: in the queue once, with one worker, or completed.
   None gets lost between its failure and its next attempt, and none is worked
   on twice. *)
EachChunkOnce ==
    /\ Queued \cap Held = {}
    /\ \A c \in Chunk :
         /\ Cardinality({k \in DOMAIN queue : queue[k] = c}) <= 1
         /\ Cardinality({w \in Worker : cur[w] = c}) <= 1
         /\ (status[c] = "COMPLETED") <=> (c \notin Queued \cup Held)

(* queue.join waits for exactly the chunks that are not completed: it neither
   returns early nor waits for nothing, whatever was put back. *)
JoinCountsOpenChunks ==
    unfinished = Cardinality({c \in Chunk : status[c] # "COMPLETED"})

(* A completed download has every block at its place and no other, after any
   number of failures in mid-stream: a retry resumes at the right offset of the
   right chunk.  (Not so with a server that ignores ranges, whose 200 is taken
   for the rest of the chunk when an attempt is resumed, downloader.py:191.) *)
CompletedIsCorrect ==
    is_completed /\ (honours \/ failures = 0) =>
        file = [k \in Block |-> IF is_sim THEN Mock ELSE k]

(* The bytes reported reach the size of the file by the time the download is
   complete, and pass it only if an attempt failed, whose bytes stay counted. *)
ProgressReachesSize ==
    /\ is_completed => total >= total_size
    /\ failures = 0 => total <= total_size

(* The download ends if the failures do and a link stays online. *)
Terminates == (<>[](online # {})) => <>is_completed
=============================================================================
