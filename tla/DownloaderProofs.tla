-------------------------- MODULE DownloaderProofs --------------------------
(***************************************************************************)
(* Proofs about Downloader, for files, ranges, numbers of workers and      *)
(* retries of any size: no chunk is lost or worked on twice, queue.join    *)
(* waits for what is open, a completed file is the one that was asked for, *)
(* and the bytes reported reach its size.                                  *)
(***************************************************************************)
EXTENDS Downloader, TLAPS, FiniteSetTheorems, SequenceTheorems

----------------------------------------------------------------------------
(* Where chunks are. *)
Busy == {"attempt", "request", "stream", "sleep"}
Open == {c \in Chunk : status[c] # "COMPLETED"}

QueueOnce == \A i, j \in DOMAIN queue : queue[i] = queue[j] => i = j
HeldOnce == \A w, v \in Worker : cur[w] = cur[v] /\ cur[w] # NoChunk => w = v
Apart == \A i \in DOMAIN queue, w \in Worker : queue[i] # cur[w]
CompletedIsGone ==
    \A c \in Chunk : status[c] = "COMPLETED" <=>
      /\ \A i \in DOMAIN queue : queue[i] # c
      /\ \A w \in Worker : cur[w] # c
BusyHolds == \A w \in Worker : pc[w] \in Busy <=> cur[w] # NoChunk

Places == /\ QueueOnce /\ HeldOnce /\ Apart /\ CompletedIsGone /\ BusyHolds
          /\ unfinished = Cardinality(Open)

(* The ranges cut the file up. *)
Shape ==
    /\ Len(chunks) \in Nat \ {0} /\ Chunk = 1..Len(chunks)
    /\ \A c \in Chunk : /\ Start(c) \in Block /\ End(c) \in Block
                        /\ Start(c) <= End(c)
    /\ \A k \in Block : \E c \in Chunk : k \in Start(c)..End(c)
    /\ is_sim => honours
    /\ ~ honours => \A c \in Chunk : Start(c) = 0 /\ End(c) = total_size - 1

(* Retries are left in an attempt. *)
Attempts == \A w \in Worker :
    pc[w] \in {"attempt", "request", "stream"} => retries[w] < MaxRetries

(* What a worker has of its chunk. *)
Streams ==
    /\ \A c \in Chunk : bytes[c] <= Size(c)
    /\ \A w \in Worker : pc[w] = "stream" =>
         IF is_sim THEN source[w] < Size(cur[w])
         ELSE /\ offset[w] = Start(cur[w]) + bytes[cur[w]]
              /\ source[w] = offset[w]

(* What it has written. *)
Content(k) == IF is_sim THEN Mock ELSE k

WrittenRight ==
    /\ file = [k \in Block |-> file[k]]
    /\ ~ is_sim => \A c \in Chunk : \A k \in Start(c)..(Start(c) + bytes[c] - 1) :
                     file[k] = Content(k)
    /\ \A c \in Chunk : status[c] = "COMPLETED" =>
         \A k \in Start(c)..End(c) : file[k] = Content(k)

(* With a server that ignores ranges, as long as nothing failed. *)
FirstAttempts ==
    ~ honours =>
      /\ \A w \in Worker : pc[w] # "sleep"
      /\ \A w \in Worker : pc[w] \in {"attempt", "request"} => bytes[cur[w]] = 0
      /\ \A i \in DOMAIN queue : bytes[queue[i]] = 0

Data == Streams /\ WrittenRight /\ FirstAttempts

IInv == /\ TypeOK /\ Shape /\ Places /\ Attempts
        /\ is_completed => unfinished = 0
        /\ honours \/ failures = 0 => Data

----------------------------------------------------------------------------
(* Ranges. *)

LEMMA Monotone ==
    ASSUME NEW i \in Nat, NEW j \in Nat, i <= j, NEW n \in Nat
    PROVE  i * n <= j * n
<1>1. PICK d \in Nat : j = i + d
  <2>1. j - i \in Nat /\ j = i + (j - i)
    OBVIOUS
  <2>. QED  BY <2>1
<1>2. j * n = i * n + d * n /\ d * n \in Nat /\ i * n \in Nat
  BY <1>1
<1>. QED  BY <1>2

(* How often n goes into m. *)
LEMMA Quotient ==
    ASSUME NEW m \in Nat, NEW n \in Nat \ {0}
    PROVE  /\ m \div n \in Nat
           /\ (m \div n) * n <= m
           /\ m < (m \div n) * n + n
  OBVIOUS

(* The ranges of initialize cover the file, last one included. *)
LEMMA RangesCover ==
    ASSUME NEW accept_ranges \in BOOLEAN, chunks = Ranges(accept_ranges),
           accept_ranges \/ is_sim => honours
    PROVE  Shape
<1>. USE DownloaderAssumption
<1>1. CASE ~ accept_ranges
  <2>1. chunks = [i \in 1..1 |-> [start |-> (i - 1) * chunk_size, end |-> total_size - 1]]
    BY <1>1 DEF Ranges
  <2>2. /\ Len(chunks) = 1 /\ Chunk = 1..1
        /\ Start(1) = 0 /\ End(1) = total_size - 1
    BY <2>1 DEF Chunk, Start, End
  <2>. QED  BY <2>2 DEF Shape, Block
<1>2. CASE accept_ranges
  <2>. DEFINE n == (total_size + chunk_size - 1) \div chunk_size
  <2>1. /\ n \in Nat
        /\ n * chunk_size <= total_size + chunk_size - 1
        /\ total_size + chunk_size - 1 < n * chunk_size + chunk_size
    BY Quotient
  <2>2. n # 0
    BY <2>1
  <2>3. chunks = [i \in 1..n |->
                    [start |-> (i - 1) * chunk_size,
                     end |-> IF i * chunk_size <= total_size
                             THEN i * chunk_size - 1 ELSE total_size - 1]]
    BY <1>2 DEF Ranges
  <2>4. Len(chunks) = n /\ Chunk = 1..n
    BY <2>1, <2>3 DEF Chunk
  <2>. HIDE DEF n
  <2>5. ASSUME NEW c \in 1..n
        PROVE  /\ Start(c) = (c - 1) * chunk_size
               /\ End(c) = IF c * chunk_size <= total_size
                           THEN c * chunk_size - 1 ELSE total_size - 1
    BY <2>3 DEF Start, End
  <2>6. ASSUME NEW c \in 1..n
        PROVE  Start(c) \in Block /\ End(c) \in Block /\ Start(c) <= End(c)
    <3>1. /\ (c - 1) * chunk_size \in Nat /\ c * chunk_size \in Nat
          /\ c * chunk_size = (c - 1) * chunk_size + chunk_size
      <4>1. c - 1 \in Nat /\ c = (c - 1) + 1
        BY <2>1
      <4>. QED  BY <4>1
    <3>2. c * chunk_size <= n * chunk_size
      BY <2>1, Monotone
    <3>. QED  BY <2>1, <2>5, <3>1, <3>2 DEF Block
  <2>7. ASSUME NEW k \in Block
        PROVE  \E c \in 1..n : k \in Start(c)..End(c)
    <3>. DEFINE q == k \div chunk_size
    <3>1. /\ q \in Nat /\ q * chunk_size <= k /\ k < q * chunk_size + chunk_size
          /\ k \in Nat /\ k <= total_size - 1
      BY Quotient DEF Block
    <3>. HIDE DEF q
    <3>2. q + 1 <= n
      <4>. SUFFICES ASSUME n <= q PROVE FALSE
        BY <2>1, <3>1
      <4>1. n * chunk_size <= q * chunk_size /\ q * chunk_size \in Nat /\ n * chunk_size \in Nat
        BY <2>1, <3>1, Monotone
      <4>. QED  BY <2>1, <3>1, <4>1
    <3>3. /\ q + 1 \in 1..n
          /\ Start(q + 1) = q * chunk_size
          /\ (q + 1) * chunk_size = q * chunk_size + chunk_size
      <4>1. q + 1 \in 1..n /\ (q + 1) - 1 = q
        BY <2>1, <3>1, <3>2
      <4>. QED  BY <2>5, <3>1, <4>1
    <3>4. k <= End(q + 1)
      BY <2>5, <3>1, <3>3
    <3>. QED  BY <2>6, <3>1, <3>3, <3>4 DEF Block
  <2>. QED  BY <1>2, <2>1, <2>2, <2>4, <2>6, <2>7 DEF Shape
<1>. QED  BY <1>1, <1>2

----------------------------------------------------------------------------
(* Places: what can happen to a chunk. *)

LEMMA OpenFinite ==
    ASSUME Shape
    PROVE  IsFiniteSet(Chunk) /\ IsFiniteSet(Open) /\ Cardinality(Open) \in Nat
<1>1. 1 \in Int /\ Len(chunks) \in Int
  BY DEF Shape
<1>2. IsFiniteSet(Chunk)
  BY <1>1, FS_Interval DEF Shape
<1>3. Open \in SUBSET Chunk
  BY DEF Open
<1>. QED  BY <1>2, <1>3, FS_Subset, FS_CardinalityType

(* A worker goes on with the chunk it has. *)
LEMMA PlacesMove ==
    ASSUME TypeOK, Shape, Places, NEW w \in Worker, NEW l \in Busy,
           pc[w] \in Busy, pc' = [pc EXCEPT ![w] = l],
           UNCHANGED <<modeVars, queueVars, cur>>,
           \/ status' = status
           \/ \E s \in {"DOWNLOADING", "FAILED"} : SetStatus(w, s)
    PROVE  Places'
<1>. USE DEF modeVars, queueVars, Chunk
<1>1. cur[w] \in Chunk /\ status[cur[w]] # "COMPLETED"
  BY DEF TypeOK, Places, BusyHolds, CompletedIsGone
<1>2. \A c \in Chunk : status'[c] = "COMPLETED" <=> status[c] = "COMPLETED"
  BY <1>1 DEF TypeOK, SetStatus
<1>3. Open' = Open
  BY <1>2 DEF Open
<1>4. BusyHolds'
  BY DEF TypeOK, Places, BusyHolds
<1>5. CompletedIsGone'
  BY <1>2 DEF Places, CompletedIsGone
<1>. QED  BY <1>3, <1>4, <1>5 DEF Places, QueueOnce, HeldOnce, Apart

(* A worker takes the head of the queue. *)
LEMMA PlacesTake ==
    ASSUME TypeOK, Shape, Places, NEW w \in Worker, Take(w)
    PROVE  Places'
<1>. USE DEF modeVars, Chunk
<1>1. /\ queue \in Seq(Chunk) /\ queue # <<>> /\ cur[w] = NoChunk /\ pc[w] = "loop"
      /\ Len(queue) \in Nat /\ Len(queue) # 0
  <2>1. queue \in Seq(Chunk) /\ queue # <<>> /\ pc[w] = "loop"
    BY DEF Take, TypeOK
  <2>2. cur[w] = NoChunk
    BY <2>1 DEF Places, BusyHolds, Busy
  <2>. QED  BY <2>1, <2>2, EmptySeq
<1>2. /\ Head(queue) \in Chunk /\ Head(queue) = queue[1] /\ 1 \in DOMAIN queue
      /\ Len(queue') = Len(queue) - 1 /\ DOMAIN queue' = 1..(Len(queue) - 1)
      /\ \A i \in DOMAIN queue' : i + 1 \in DOMAIN queue /\ queue'[i] = queue[i + 1]
  BY <1>1 DEF Take
<1>3. /\ cur' = [cur EXCEPT ![w] = queue[1]] /\ pc' = [pc EXCEPT ![w] = "attempt"]
      /\ status' = status /\ chunks' = chunks /\ unfinished' = unfinished
      /\ queue[1] # NoChunk
  BY <1>2 DEF Take, Goto, Shape, NoChunk
<1>4. QueueOnce'
  <2>. SUFFICES ASSUME NEW i \in DOMAIN queue', NEW j \in DOMAIN queue',
                       queue'[i] = queue'[j]
                PROVE  i = j
    BY DEF QueueOnce
  <2>1. i + 1 = j + 1
    BY <1>2 DEF Places, QueueOnce
  <2>. QED  BY <1>1, <1>2, <2>1
<1>5. HeldOnce'
  BY <1>2, <1>3 DEF Places, HeldOnce, Apart, TypeOK
<1>6. Apart'
  <2>. SUFFICES ASSUME NEW i \in DOMAIN queue', NEW v \in Worker
                PROVE  queue'[i] # cur'[v]
    BY DEF Apart
  <2>1. CASE v = w
    <3>1. i + 1 # 1
      BY <1>1, <1>2
    <3>. QED  BY <1>2, <1>3, <2>1, <3>1 DEF Places, QueueOnce, TypeOK
  <2>2. CASE v # w
    BY <1>2, <1>3, <2>2 DEF Places, Apart, TypeOK
  <2>. QED  BY <2>1, <2>2
<1>7. ASSUME NEW c \in Chunk
      PROVE  (/\ \A i \in DOMAIN queue : queue[i] # c
              /\ \A v \in Worker : cur[v] # c)
             <=> (/\ \A i \in DOMAIN queue' : queue'[i] # c
                  /\ \A v \in Worker : cur'[v] # c)
  <2>1. c # NoChunk
    BY DEF Shape, NoChunk
  <2>2. ASSUME NEW i \in DOMAIN queue, queue[i] = c
        PROVE  (\E j \in DOMAIN queue' : queue'[j] = c) \/ cur'[w] = c
    <3>1. CASE i = 1
      BY <1>3, <2>2, <3>1 DEF TypeOK
    <3>2. CASE i # 1
      <4>1. i - 1 \in DOMAIN queue' /\ (i - 1) + 1 = i
        BY <1>1, <1>2, <3>2
      <4>. QED  BY <1>2, <2>2, <4>1
    <3>. QED  BY <3>1, <3>2
  <2>3. ASSUME NEW v \in Worker, cur[v] = c PROVE cur'[v] = c
    BY <1>1, <1>3, <2>1, <2>3 DEF TypeOK
  <2>4. ASSUME NEW i \in DOMAIN queue', queue'[i] = c
        PROVE  \E j \in DOMAIN queue : queue[j] = c
    BY <1>2, <2>4
  <2>5. ASSUME NEW v \in Worker, cur'[v] = c
        PROVE  (\E j \in DOMAIN queue : queue[j] = c) \/ cur[v] = c
    BY <1>2, <1>3, <2>5 DEF TypeOK
  <2>. QED  BY <2>2, <2>3, <2>4, <2>5
<1>8. CompletedIsGone'
  BY <1>3, <1>7 DEF Places, CompletedIsGone
<1>9. BusyHolds'
  BY <1>1, <1>3 DEF Places, BusyHolds, TypeOK, Busy
<1>10. Open' = Open
  BY <1>3 DEF Open
<1>. QED  BY <1>3, <1>4, <1>5, <1>6, <1>8, <1>9, <1>10 DEF Places

(* A worker is done with its chunk: one open chunk less, one task_done more. *)
LEMMA PlacesDone ==
    ASSUME TypeOK, Shape, Places, NEW w \in Worker, pc[w] \in Busy, Done(w),
           UNCHANGED <<modeVars, queue>>
    PROVE  Places' /\ unfinished' \in Nat
<1>. USE DEF modeVars, Chunk
<1>1. /\ cur[w] \in Chunk /\ status[cur[w]] # "COMPLETED" /\ cur[w] # NoChunk
  BY DEF TypeOK, Places, BusyHolds, CompletedIsGone
<1>2. /\ cur' = [cur EXCEPT ![w] = NoChunk] /\ pc' = [pc EXCEPT ![w] = "loop"]
      /\ status' = [status EXCEPT ![cur[w]] = "COMPLETED"]
      /\ unfinished' = unfinished - 1
  BY DEF Done, SetStatus, Goto
<1>3. QueueOnce' /\ HeldOnce'
  BY <1>2 DEF Places, QueueOnce, HeldOnce, TypeOK
<1>4. Apart'
  <2>1. \A i \in DOMAIN queue : queue[i] # NoChunk
    BY DEF TypeOK, Shape, NoChunk
  <2>. QED  BY <1>2, <2>1 DEF Places, Apart, TypeOK
<1>5. CompletedIsGone'
  <2>. SUFFICES ASSUME NEW c \in Chunk
                PROVE  status'[c] = "COMPLETED" <=>
                         /\ \A i \in DOMAIN queue : queue[i] # c
                         /\ \A v \in Worker : cur'[v] # c
    BY DEF CompletedIsGone
  <2>1. c # NoChunk
    BY DEF Shape, NoChunk
  <2>2. CASE c = cur[w]
    BY <1>1, <1>2, <2>1, <2>2 DEF Places, Apart, HeldOnce, TypeOK
  <2>3. CASE c # cur[w]
    <3>1. status'[c] = status[c]
      BY <1>2, <2>3 DEF TypeOK
    <3>2. \A v \in Worker : cur'[v] = c <=> cur[v] = c
      BY <1>2, <2>1, <2>3 DEF TypeOK
    <3>. QED  BY <3>1, <3>2 DEF Places, CompletedIsGone
  <2>. QED  BY <2>2, <2>3
<1>6. BusyHolds'
  BY <1>2 DEF Places, BusyHolds, TypeOK, Busy
<1>7. Open' = Open \ {cur[w]} /\ cur[w] \in Open
  BY <1>1, <1>2 DEF Open, TypeOK
<1>8. Cardinality(Open') = Cardinality(Open) - 1 /\ Cardinality(Open') \in Nat
  <2>1. IsFiniteSet(Open) /\ Cardinality(Open) \in Nat
    BY OpenFinite
  <2>2. Cardinality(Open') = Cardinality(Open) - 1 /\ IsFiniteSet(Open')
    BY <1>7, <2>1, FS_RemoveElement
  <2>. QED  BY <2>2, FS_CardinalityType
<1>. QED  BY <1>2, <1>3, <1>4, <1>5, <1>6, <1>8 DEF Places

(* A worker puts its chunk back. *)
LEMMA PlacesRequeue ==
    ASSUME TypeOK, Shape, Places, NEW w \in Worker, Requeue(w)
    PROVE  Places'
<1>. USE DEF modeVars, Chunk
<1>. DEFINE n == Len(queue)
<1>1. /\ cur[w] \in Chunk /\ status[cur[w]] # "COMPLETED" /\ cur[w] # NoChunk
      /\ queue \in Seq(Chunk) /\ n \in Nat /\ DOMAIN queue = 1..n
  BY DEF Requeue, TypeOK, Places, BusyHolds, Busy, CompletedIsGone
<1>2. /\ cur' = [cur EXCEPT ![w] = NoChunk] /\ pc' = [pc EXCEPT ![w] = "loop"]
      /\ status' = [status EXCEPT ![cur[w]] = "PENDING"]
      /\ queue' = Append(queue, cur[w]) /\ unfinished' = unfinished /\ chunks' = chunks
  BY DEF Requeue, SetStatus, Goto
<1>3. /\ DOMAIN queue' = 1..(n + 1) /\ queue'[n + 1] = cur[w]
      /\ \A i \in 1..n : queue'[i] = queue[i]
  BY <1>1, <1>2
<1>4. QueueOnce'
  BY <1>1, <1>3 DEF Places, QueueOnce, Apart
<1>5. HeldOnce'
  BY <1>2 DEF Places, HeldOnce, TypeOK
<1>6. Apart'
  <2>. SUFFICES ASSUME NEW i \in 1..(n + 1), NEW v \in Worker
                PROVE  queue'[i] # cur'[v]
    BY <1>3 DEF Apart
  <2>0. i = n + 1 \/ i \in 1..n
    BY <1>1
  <2>1. queue'[i] # NoChunk
    <3>1. i \in 1..n => queue[i] \in Chunk
      BY <1>1
    <3>2. \A c \in Chunk : c # NoChunk
      BY DEF Shape, NoChunk
    <3>. QED  BY <1>1, <1>3, <2>0, <3>1, <3>2
  <2>2. CASE v = w
    BY <1>2, <2>1, <2>2 DEF TypeOK
  <2>3. CASE v # w
    <3>1. cur'[v] = cur[v] /\ cur[v] # cur[w]
      BY <1>1, <1>2, <2>3 DEF Places, HeldOnce, TypeOK
    <3>2. i \in 1..n => queue[i] # cur[v]
      BY <1>1 DEF Places, Apart
    <3>. QED  BY <1>3, <2>0, <3>1, <3>2
  <2>. QED  BY <2>2, <2>3
<1>7. CompletedIsGone'
  <2>. SUFFICES ASSUME NEW c \in Chunk
                PROVE  status'[c] = "COMPLETED" <=>
                         /\ \A i \in 1..(n + 1) : queue'[i] # c
                         /\ \A v \in Worker : cur'[v] # c
    BY <1>2, <1>3 DEF CompletedIsGone
  <2>1. c # NoChunk
    BY DEF Shape, NoChunk
  <2>2. CASE c = cur[w]
    <3>1. n + 1 \in 1..(n + 1)
      BY <1>1
    <3>. QED  BY <1>2, <1>3, <2>2, <3>1 DEF TypeOK
  <2>3. CASE c # cur[w]
    <3>1. status'[c] = status[c]
      BY <1>2, <2>3 DEF TypeOK
    <3>2. \A v \in Worker : cur'[v] = c <=> cur[v] = c
      BY <1>2, <2>1, <2>3 DEF TypeOK
    <3>3. (\A i \in 1..(n + 1) : queue'[i] # c) <=> (\A i \in 1..n : queue[i] # c)
      BY <1>1, <1>3, <2>3
    <3>. QED  BY <1>1, <3>1, <3>2, <3>3 DEF Places, CompletedIsGone
  <2>. QED  BY <2>2, <2>3
<1>8. BusyHolds'
  BY <1>2 DEF Places, BusyHolds, TypeOK, Busy
<1>9. Open' = Open
  BY <1>1, <1>2 DEF Open, TypeOK
<1>. QED  BY <1>2, <1>4, <1>5, <1>6, <1>7, <1>8, <1>9 DEF Places

----------------------------------------------------------------------------
(* The inductive step, part by part. *)

LEMMA ShapeStep ==
    ASSUME Shape, [Next]_vars
    PROVE  Shape' /\ UNCHANGED modeVars
<1>1. UNCHANGED modeVars
  BY DEF Next, Take, Exit, Request, Respond, Receive, Complete, Delay, Throttle, Fail,
         Retry, Requeue, Join, Toggle, vars, modeVars
<1>. QED  BY <1>1 DEF Shape, modeVars, Chunk, Start, End

(* Every step keeps each chunk in one place. *)
LEMMA PlacesStep ==
    ASSUME TypeOK, Shape, Places, [Next]_vars
    PROVE  Places'
<1>same. ASSUME UNCHANGED <<modeVars, queueVars, status, cur>>,
                \A w \in Worker : pc'[w] \in Busy <=> pc[w] \in Busy
         PROVE  Places'
  BY <1>same DEF Places, QueueOnce, HeldOnce, Apart, CompletedIsGone, BusyHolds, Open,
                 modeVars, queueVars, Chunk
<1>1. ASSUME NEW w \in Worker, Take(w) PROVE Places'
  BY <1>1, PlacesTake
<1>2. ASSUME NEW w \in Worker, Exit(w) PROVE Places'
  BY <1>2, <1>same DEF Exit, Goto, TypeOK, Busy
<1>3. ASSUME NEW w \in Worker, Request(w) PROVE Places'
  BY <1>3, PlacesMove DEF Request, Goto, Busy
<1>4. ASSUME NEW w \in Worker, Respond(w) PROVE Places'
  BY <1>4, PlacesMove DEF Respond, Goto, Busy
<1>5. ASSUME NEW w \in Worker, Receive(w) PROVE Places'
  BY <1>5, <1>same DEF Receive
<1>6. ASSUME NEW w \in Worker, Complete(w) PROVE Places'
  BY <1>6, PlacesDone DEF Complete, Busy
<1>7. ASSUME NEW w \in Worker, Delay(w) PROVE Places'
  BY <1>7, PlacesMove DEF Delay, Goto, Busy
<1>8. ASSUME NEW w \in Worker, Throttle(w) PROVE Places'
  <2>1. CASE source'[w] < Size(cur[w])
    BY <1>8, <1>same, <2>1 DEF Throttle, queueVars
  <2>2. CASE ~ (source'[w] < Size(cur[w]))
    BY <1>8, <2>2, PlacesDone DEF Throttle, Busy
  <2>. QED  BY <2>1, <2>2
<1>9. ASSUME NEW w \in Worker, Fail(w) PROVE Places'
  BY <1>9, PlacesMove DEF Fail, Raises, Goto, Busy
<1>10. ASSUME NEW w \in Worker, Retry(w) PROVE Places'
  BY <1>10, PlacesMove DEF Retry, Goto, Busy
<1>11. ASSUME NEW w \in Worker, Requeue(w) PROVE Places'
  BY <1>11, PlacesRequeue
<1>12. CASE Join
  <2>1. Open = {}
    BY <1>12, OpenFinite, FS_EmptySet DEF Join, Places
  <2>2. \A w \in Worker : pc[w] \notin Busy
    BY <2>1 DEF Open, Places, BusyHolds, CompletedIsGone, TypeOK
  <2>. QED  BY <1>12, <1>same, <2>2 DEF Join, Busy
<1>13. ASSUME NEW l \in Link, Toggle(l) PROVE Places'
  BY <1>13, <1>same DEF Toggle
<1>14. CASE UNCHANGED vars
  BY <1>14, <1>same DEF vars, modeVars, queueVars
<1>. QED  BY <1>1, <1>2, <1>3, <1>4, <1>5, <1>6, <1>7, <1>8, <1>9, <1>10, <1>11, <1>12,
             <1>13, <1>14 DEF Next

(* A chunk that is worked on is open, so that the download is not complete. *)
LEMMA BusyIsOpen ==
    ASSUME TypeOK, Shape, Places, NEW w \in Worker, pc[w] \in Busy
    PROVE  cur[w] \in Chunk /\ status[cur[w]] # "COMPLETED" /\ unfinished # 0
<1>1. cur[w] \in Chunk /\ status[cur[w]] # "COMPLETED"
  BY DEF TypeOK, Places, BusyHolds, CompletedIsGone
<1>2. Open # {}
  BY <1>1 DEF Open
<1>. QED  BY <1>1, <1>2, OpenFinite, FS_EmptySet DEF Places

(* A completed session has no open chunk, and gets none. *)
LEMMA CompletedStep ==
    ASSUME TypeOK, Shape, Places, is_completed => unfinished = 0, [Next]_vars,
           is_completed'
    PROVE  unfinished' = 0
<1>1. ASSUME NEW w \in Worker, Complete(w) \/ Throttle(w) PROVE unfinished' = 0
  <2>1. pc[w] \in Busy /\ is_completed' = is_completed
    BY <1>1 DEF Complete, Throttle, Busy
  <2>. QED  BY <2>1, BusyIsOpen
<1>2. CASE Join
  BY <1>2 DEF Join, queueVars
<1>3. ASSUME NEW w \in Worker,
             \/ Take(w) \/ Exit(w) \/ Request(w) \/ Respond(w) \/ Receive(w) \/ Delay(w)
             \/ Fail(w) \/ Retry(w) \/ Requeue(w)
      PROVE  unfinished' = 0
  BY <1>3 DEF Take, Exit, Request, Respond, Receive, Delay, Fail, Retry, Requeue, queueVars
<1>4. ASSUME NEW l \in Link, Toggle(l) PROVE unfinished' = 0
  BY <1>4 DEF Toggle, queueVars
<1>5. CASE UNCHANGED vars
  BY <1>5 DEF vars
<1>. QED  BY <1>1, <1>2, <1>3, <1>4, <1>5 DEF Next

(* The chunks of a set are no more than there are. *)
LEMMA CountBounded ==
    ASSUME NEW n \in Nat, NEW S \in SUBSET (1..n)
    PROVE  Cardinality(S) \in 0..n
<1>1. IsFiniteSet(1..n) /\ Cardinality(1..n) = IF 1 > n THEN 0 ELSE n - 1 + 1
  <2>1. 1 \in Int /\ n \in Int
    OBVIOUS
  <2>. QED  BY <2>1, FS_Interval
<1>2. Cardinality(1..n) = n
  BY <1>1
<1>3. IsFiniteSet(S) /\ Cardinality(S) <= n
  BY <1>1, <1>2, FS_Subset
<1>4. Cardinality(S) \in Nat
  BY <1>3, FS_CardinalityType
<1>. QED  BY <1>3, <1>4

(* Types, and retries, are kept. *)
LEMMA TypeStep ==
    ASSUME TypeOK, Shape, Places, Attempts, [Next]_vars
    PROVE  TypeOK' /\ Attempts'
<1>. USE DownloaderAssumption DEF TypeOK, Attempts, Goto, SetStatus, queueVars, streamVars, envVars
<1>0. /\ unfinished' \in 0..Len(chunks') /\ UNCHANGED modeVars
      /\ chunks' = chunks /\ is_sim' = is_sim /\ honours' = honours /\ Chunk' = Chunk
  <2>1. Shape' /\ Places' /\ UNCHANGED modeVars
    BY ShapeStep, PlacesStep
  <2>2. unfinished' \in 0..Len(chunks')
    <3>1. Len(chunks') \in Nat /\ Open' \in SUBSET (1..Len(chunks'))
      BY <2>1 DEF Shape, Open
    <3>2. unfinished' = Cardinality(Open')
      BY <2>1 DEF Places
    <3>. HIDE DEF Open
    <3>. QED  BY <3>1, <3>2, CountBounded
  <2>. QED  BY <2>1, <2>2 DEF modeVars, Chunk
<1>c. ASSUME NEW w \in Worker, pc[w] \in Busy
      PROVE  /\ cur[w] \in Chunk
             /\ Start(cur[w]) \in Nat /\ End(cur[w]) \in Nat /\ End(cur[w]) < total_size
             /\ Size(cur[w]) \in Nat
  <2>1. cur[w] \in Chunk
    BY <1>c, BusyIsOpen
  <2>2. /\ Start(cur[w]) \in Block /\ End(cur[w]) \in Block
        /\ Start(cur[w]) <= End(cur[w])
    BY <2>1 DEF Shape
  <2>3. /\ Start(cur[w]) \in Nat /\ End(cur[w]) \in Nat /\ End(cur[w]) < total_size
    BY <2>2 DEF Block
  <2>4. Size(cur[w]) \in Nat
    BY <2>2, <2>3 DEF Size
  <2>. QED  BY <2>1, <2>3, <2>4
<1>1. ASSUME NEW w \in Worker, Take(w) PROVE TypeOK' /\ Attempts'
  <2>1. Head(queue) \in Chunk /\ Tail(queue) \in Seq(Chunk)
    BY <1>1 DEF Take
  <2>. QED  BY <1>0, <1>1, <2>1 DEF Take
<1>2. ASSUME NEW w \in Worker, Exit(w) PROVE TypeOK' /\ Attempts'
  BY <1>0, <1>2 DEF Exit
<1>3. ASSUME NEW w \in Worker, Request(w) PROVE TypeOK' /\ Attempts'
  BY <1>0, <1>3 DEF Request
<1>4. ASSUME NEW w \in Worker, Respond(w) PROVE TypeOK' /\ Attempts'
  <2>1. Start(cur[w]) + bytes[cur[w]] \in Nat
    BY <1>c, <1>4 DEF Respond, Busy
  <2>. QED  BY <1>0, <1>4, <2>1 DEF Respond
<1>5. ASSUME NEW w \in Worker, Receive(w) PROVE TypeOK' /\ Attempts'
  <2>1. cur[w] \in Chunk /\ source[w] \in 0..Mock
    BY <1>c, <1>5 DEF Receive, Last, Busy, Mock
  <2>2. \A k \in DOMAIN file' : file'[k] \in 0..Mock
    BY <1>5, <2>1 DEF Receive, Written
  <2>. QED  BY <1>0, <1>5, <2>1, <2>2, SMTT(30) DEF Receive
<1>6. ASSUME NEW w \in Worker, Complete(w) PROVE TypeOK' /\ Attempts'
  BY <1>0, <1>6 DEF Complete, Done
<1>7. ASSUME NEW w \in Worker, Delay(w) PROVE TypeOK' /\ Attempts'
  BY <1>0, <1>7 DEF Delay
<1>8. ASSUME NEW w \in Worker, Throttle(w) PROVE TypeOK' /\ Attempts'
  <2>1. source' \in [Worker -> Nat] /\ source'[w] \in Nat
    BY <1>8 DEF Throttle
  <2>2. \A k \in DOMAIN file' : file'[k] \in 0..Mock
    <3>1. Mock \in 0..Mock
      BY DEF Mock
    <3>2. CASE source'[w] < Size(cur[w])
      BY <1>8, <3>2 DEF Throttle
    <3>3. CASE ~ (source'[w] < Size(cur[w]))
      <4>1. file' = [k \in DOMAIN file |->
                      IF k \in Start(cur[w])..End(cur[w]) THEN Mock ELSE file[k]]
        BY <1>8, <3>3 DEF Throttle
      <4>. QED  BY <3>1, <4>1
    <3>. QED  BY <3>2, <3>3
  <2>3. bytes' \in [Chunk -> Nat]
    BY <1>8, <2>1 DEF Throttle
  <2>4. /\ status' \in [Chunk -> {"PENDING", "DOWNLOADING", "COMPLETED", "FAILED"}]
        /\ cur' \in [Worker -> Chunk \cup {NoChunk}]
        /\ pc' \in [Worker -> {"loop", "attempt", "request", "stream", "sleep", "done"}]
        /\ \A v \in Worker : pc'[v] = pc[v] \/ pc'[v] = "loop"
    <3>1. CASE source'[w] < Size(cur[w])
      BY <1>8, <3>1 DEF Throttle
    <3>2. CASE ~ (source'[w] < Size(cur[w]))
      BY <1>8, <3>2 DEF Throttle, Done
    <3>. QED  BY <3>1, <3>2
  <2>5. /\ total' \in Nat /\ UNCHANGED <<queue, retries, link, offset, is_completed, envVars>>
    BY <1>8, SMTT(30) DEF Throttle
  <2>. QED  BY <1>0, <2>1, <2>2, <2>3, <2>4, <2>5
<1>9. ASSUME NEW w \in Worker, Fail(w) PROVE TypeOK' /\ Attempts'
  <2>1. retries[w] < MaxRetries
    BY <1>9 DEF Fail, Raises
  <2>2. retries' \in [Worker -> 0..MaxRetries] /\ failures' \in 0..MaxFailures
    BY <1>9, <2>1 DEF Fail
  <2>3. /\ status' \in [Chunk -> {"PENDING", "DOWNLOADING", "COMPLETED", "FAILED"}]
        /\ pc' = [pc EXCEPT ![w] = "sleep"]
        /\ \A v \in Worker : v # w => retries'[v] = retries[v]
    BY <1>9 DEF Fail
  <2>. QED  BY <1>0, <1>9, <2>2, <2>3 DEF Fail
<1>10. ASSUME NEW w \in Worker, Retry(w) PROVE TypeOK' /\ Attempts'
  BY <1>0, <1>10 DEF Retry
<1>11. ASSUME NEW w \in Worker, Requeue(w) PROVE TypeOK' /\ Attempts'
  <2>1. cur[w] \in Chunk
    BY <1>c, <1>11 DEF Requeue, Busy
  <2>2. queue' \in Seq(Chunk)
    BY <1>11, <2>1 DEF Requeue
  <2>. QED  BY <1>0, <1>11, <2>1, <2>2 DEF Requeue
<1>12. CASE Join
  BY <1>0, <1>12 DEF Join
<1>13. ASSUME NEW l \in Link, Toggle(l) PROVE TypeOK' /\ Attempts'
  BY <1>0, <1>13 DEF Toggle
<1>14. CASE UNCHANGED vars
  BY <1>0, <1>14 DEF vars
<1>. QED  BY <1>1, <1>2, <1>3, <1>4, <1>5, <1>6, <1>7, <1>8, <1>9, <1>10, <1>11, <1>12,
             <1>13, <1>14 DEF Next

(* The data of chunks stay right, whatever fails if the server honours ranges, and
   without a failure if it does not. *)
LEMMA DataStep ==
    ASSUME TypeOK, Shape, Places, Data, [Next]_vars, honours' \/ failures' = 0
    PROVE  Data'
<1>. USE DEF Chunk, Start, End, Size, Goto, SetStatus
<1>0. /\ chunks' = chunks /\ is_sim' = is_sim /\ honours' = honours
      /\ \A k : Content(k)' = Content(k)
  BY ShapeStep DEF modeVars, Content
<1>c. ASSUME NEW c \in Chunk
      PROVE  /\ Start(c) \in Nat /\ End(c) \in Nat /\ Start(c) <= End(c)
             /\ End(c) < total_size /\ Size(c) \in Nat /\ bytes[c] \in Nat
             /\ bytes[c] <= Size(c) /\ Size(c) # 0 /\ Start(c) + Size(c) = End(c) + 1
             /\ (Start(c)..End(c)) \subseteq Block
             /\ ~ honours => Start(c) = 0 /\ End(c) = total_size - 1
  <2>1. /\ Start(c) \in Block /\ End(c) \in Block /\ Start(c) <= End(c)
        /\ ~ honours => Start(c) = 0 /\ End(c) = total_size - 1
    BY DEF Shape
  <2>2. Start(c) \in Nat /\ End(c) \in Nat /\ End(c) < total_size
    BY <2>1, DownloaderAssumption DEF Block
  <2>3. bytes[c] \in Nat /\ bytes[c] <= Size(c)
    BY DEF TypeOK, Data, Streams
  <2>. QED  BY <2>1, <2>2, <2>3, DownloaderAssumption DEF Block
<1>w. ASSUME NEW w \in Worker, pc[w] \in Busy
      PROVE  /\ cur[w] \in Chunk /\ status[cur[w]] # "COMPLETED"
             /\ \A v \in Worker : v # w => cur[v] # cur[w]
  BY <1>w, BusyIsOpen DEF Places, HeldOnce, Shape, NoChunk
<1>same. ASSUME UNCHANGED <<bytes, file>>,
                \A c \in Chunk : status'[c] = "COMPLETED" => status[c] = "COMPLETED"
         PROVE  WrittenRight'
  BY <1>0, <1>same DEF Data, WrittenRight
<1>first. ASSUME NEW w \in Worker, pc[w] = "sleep" PROVE honours
  BY <1>first DEF Data, FirstAttempts
<1>1. ASSUME NEW w \in Worker, Take(w) PROVE Data'
  <2>1. /\ queue # <<>> /\ queue \in Seq(Chunk) /\ cur' = [cur EXCEPT ![w] = Head(queue)]
        /\ queue' = Tail(queue) /\ pc' = [pc EXCEPT ![w] = "attempt"]
        /\ UNCHANGED <<status, bytes, offset, source, file>>
    BY <1>1 DEF Take, streamVars, TypeOK
  <2>2. /\ 1 \in DOMAIN queue /\ Head(queue) = queue[1]
        /\ \A i \in DOMAIN queue' : i + 1 \in DOMAIN queue /\ queue'[i] = queue[i + 1]
    BY <2>1
  <2>3. WrittenRight'
    BY <1>same, <2>1
  <2>4. Streams'
    BY <1>0, <2>1 DEF Data, Streams, TypeOK
  <2>5. FirstAttempts'
    BY <1>0, <2>1, <2>2, SMTT(30) DEF Data, FirstAttempts, TypeOK
  <2>. QED  BY <2>3, <2>4, <2>5 DEF Data
<1>2. ASSUME NEW w \in Worker,
             \/ Exit(w) /\ pc' = [pc EXCEPT ![w] = "done"]
             \/ Request(w) /\ pc' = [pc EXCEPT ![w] = "request"]
             \/ Retry(w) /\ pc' = [pc EXCEPT ![w] = "attempt"]
      PROVE  Data'
  <2>1. /\ UNCHANGED <<queue, cur, bytes, offset, source, file>>
        /\ \A v \in Worker : v # w => pc'[v] = pc[v]
        /\ pc'[w] \in {"done", "request", "attempt"}
        /\ pc'[w] \in {"request", "attempt"} => pc[w] \in {"attempt", "sleep"}
    BY <1>2 DEF Exit, Request, Retry, queueVars, streamVars, TypeOK
  <2>2. WrittenRight'
    <3>1. \A c \in Chunk : status'[c] = "COMPLETED" => status[c] = "COMPLETED"
      BY <1>2 DEF Exit, Request, Retry, TypeOK
    <3>. QED  BY <1>same, <2>1, <3>1
  <2>3. Streams'
    BY <1>0, <2>1 DEF Data, Streams
  <2>4. FirstAttempts'
    BY <1>0, <1>first, <2>1 DEF Data, FirstAttempts
  <2>. QED  BY <2>2, <2>3, <2>4 DEF Data
<1>3. ASSUME NEW w \in Worker, Respond(w) PROVE Data'
  <2>1. /\ UNCHANGED <<status, queue, cur, bytes, file>> /\ ~ is_sim /\ pc[w] = "request"
        /\ pc' = [pc EXCEPT ![w] = "stream"]
        /\ offset' = [offset EXCEPT ![w] = Start(cur[w]) + bytes[cur[w]]]
        /\ source' = [source EXCEPT ![w] = IF honours THEN Start(cur[w]) + bytes[cur[w]]
                                           ELSE 0]
    BY <1>3 DEF Respond, queueVars
  <2>2. ~ honours => bytes[cur[w]] = 0 /\ Start(cur[w]) = 0
    <3>1. cur[w] \in Chunk
      BY <1>w, <2>1 DEF Busy
    <3>2. ~ honours => bytes[cur[w]] = 0
      BY <2>1 DEF Data, FirstAttempts
    <3>. QED  BY <1>c, <3>1, <3>2
  <2>3. WrittenRight'
    BY <1>same, <2>1
  <2>4. Streams'
    BY <1>0, <2>1, <2>2 DEF Data, Streams, TypeOK
  <2>5. FirstAttempts'
    BY <1>0, <2>1 DEF Data, FirstAttempts, TypeOK
  <2>. QED  BY <2>3, <2>4, <2>5 DEF Data
<1>4. ASSUME NEW w \in Worker, Delay(w) PROVE Data'
  <2>1. /\ UNCHANGED <<status, queue, cur, bytes, offset, file>> /\ is_sim
        /\ pc[w] = "request" /\ pc' = [pc EXCEPT ![w] = "stream"]
        /\ source' = [source EXCEPT ![w] = 0]
    BY <1>4 DEF Delay, queueVars
  <2>2. WrittenRight'
    BY <1>same, <2>1
  <2>3. 0 < Size(cur[w])
    BY <1>c, <1>w, <2>1 DEF Busy
  <2>4. Streams'
    BY <1>0, <2>1, <2>3 DEF Data, Streams, TypeOK
  <2>5. FirstAttempts'
    BY <1>0, <2>1 DEF Data, FirstAttempts, TypeOK
  <2>. QED  BY <2>2, <2>4, <2>5 DEF Data
<1>5. ASSUME NEW w \in Worker, Receive(w) PROVE Data'
  <2>. DEFINE c == cur[w]
              k == offset[w]
  <2>1. /\ UNCHANGED <<status, queue, cur, pc>> /\ ~ is_sim /\ pc[w] = "stream"
        /\ source[w] <= Last(w)
        /\ file' = Written(file, k, source[w])
        /\ offset' = [offset EXCEPT ![w] = @ + 1]
        /\ source' = [source EXCEPT ![w] = @ + 1]
        /\ bytes' = [bytes EXCEPT ![cur[w]] = @ + 1]
    BY <1>5 DEF Receive, queueVars
  <2>2. /\ c \in Chunk /\ status[c] # "COMPLETED" /\ \A v \in Worker : v # w => cur[v] # c
    BY <1>w, <2>1 DEF Busy
  <2>3. /\ k = Start(c) + bytes[c] /\ source[w] = k /\ k <= End(c)
        /\ bytes[c] + 1 <= Size(c) /\ k \in Block
    <3>1. k = Start(c) + bytes[c] /\ source[w] = k
      BY <2>1 DEF Data, Streams
    <3>2. k <= End(c)
      <4>1. Last(w) = End(c)
        BY <1>c, <2>2 DEF Last
      <4>. QED  BY <2>1, <3>1, <4>1
    <3>. QED  BY <1>c, <2>2, <3>1, <3>2 DEF Block
  <2>4. /\ file' = [j \in Block |-> file'[j]] /\ file'[k] = k
        /\ \A j \in Block : j # k => file'[j] = file[j]
    <3>1. DOMAIN file \cup {k} = Block
      BY <2>3 DEF Data, WrittenRight
    <3>. QED  BY <2>1, <2>3, <3>1 DEF Written
  <2>5. \A j \in Block : file[j] = j => file'[j] = j
    BY <2>4
  <2>6. ASSUME NEW d \in Chunk
        PROVE  /\ bytes'[d] \in Nat /\ bytes'[d] <= Size(d)
               /\ \A j \in Start(d)..(Start(d) + bytes'[d] - 1) : file'[j] = j
               /\ status[d] = "COMPLETED" => \A j \in Start(d)..End(d) : file'[j] = j
    <3>1. /\ \A j \in Start(d)..(Start(d) + bytes[d] - 1) : file[j] = j
          /\ status[d] = "COMPLETED" => \A j \in Start(d)..End(d) : file[j] = j
      BY <2>1 DEF Data, WrittenRight, Content
    <3>2. status[d] = "COMPLETED" => \A j \in Start(d)..End(d) : file'[j] = j
      BY <1>c, <2>5, <3>1
    <3>3. \A j \in Start(d)..(Start(d) + bytes[d] - 1) : j \in Block /\ file'[j] = j
      <4>. SUFFICES ASSUME NEW j \in Start(d)..(Start(d) + bytes[d] - 1)
                    PROVE  j \in Block /\ file'[j] = j
        OBVIOUS
      <4>1. j \in Start(d)..End(d)
        BY <1>c
      <4>. QED  BY <1>c, <2>5, <3>1, <4>1
    <3>4. CASE d = c
      <4>1. bytes'[d] = bytes[d] + 1
        BY <2>1, <2>2, <3>4 DEF TypeOK
      <4>2. \A j \in Start(d)..(Start(d) + bytes'[d] - 1) :
              j = k \/ j \in Start(d)..(Start(d) + bytes[d] - 1)
        BY <1>c, <2>3, <3>4, <4>1
      <4>. QED  BY <1>c, <2>3, <2>4, <3>2, <3>3, <3>4, <4>1, <4>2
    <3>5. CASE d # c
      <4>1. bytes'[d] = bytes[d]
        BY <2>1, <3>5 DEF TypeOK
      <4>. QED  BY <1>c, <3>2, <3>3, <4>1
    <3>. QED  BY <3>4, <3>5
  <2>7. WrittenRight'
    BY <1>0, <2>1, <2>4, <2>6 DEF WrittenRight, Content
  <2>8. Streams'
    <3>1. ASSUME NEW v \in Worker, pc[v] = "stream"
          PROVE  /\ offset'[v] = Start(cur[v]) + bytes'[cur[v]]
                 /\ source'[v] = offset'[v]
      <4>1. /\ cur[v] \in Chunk /\ offset[v] = Start(cur[v]) + bytes[cur[v]]
            /\ source[v] = offset[v]
        BY <1>w, <2>1, <3>1 DEF Busy, Data, Streams
      <4>2. CASE v = w
        <5>1. /\ bytes'[c] = bytes[c] + 1 /\ offset'[w] = k + 1 /\ source'[w] = source[w] + 1
          BY <2>1, <2>2 DEF TypeOK
        <5>. QED  BY <1>c, <2>2, <2>3, <4>2, <5>1
      <4>3. CASE v # w
        BY <2>1, <2>2, <4>1, <4>3 DEF TypeOK
      <4>. QED  BY <4>2, <4>3
    <3>. QED  BY <1>0, <2>1, <2>6, <3>1 DEF Streams
  <2>9. FirstAttempts'
    <3>1. \A i \in DOMAIN queue : queue[i] \in Chunk /\ queue[i] # c
      BY DEF Places, Apart, TypeOK
    <3>2. \A v \in Worker : pc[v] \in {"attempt", "request"} => cur[v] # c
      BY <2>1, <2>2
    <3>3. \A d : d # c => bytes'[d] = bytes[d] \/ d \notin Chunk
      BY <2>1 DEF TypeOK
    <3>4. \A v \in Worker : pc[v] \in {"attempt", "request"} => cur[v] \in Chunk
      BY <1>w DEF Busy
    <3>. QED  BY <1>0, <2>1, <3>1, <3>2, <3>3, <3>4 DEF Data, FirstAttempts
  <2>. QED  BY <2>7, <2>8, <2>9 DEF Data
<1>6. ASSUME NEW w \in Worker, Complete(w) PROVE Data'
  <2>. DEFINE c == cur[w]
  <2>1. /\ UNCHANGED <<queue, bytes, offset, source, file>> /\ ~ is_sim
        /\ pc[w] = "stream" /\ source[w] > Last(w)
        /\ pc' = [pc EXCEPT ![w] = "loop"] /\ cur' = [cur EXCEPT ![w] = NoChunk]
        /\ status' = [status EXCEPT ![cur[w]] = "COMPLETED"]
    BY <1>6 DEF Complete, Done, streamVars
  <2>2. c \in Chunk
    BY <1>w, <2>1 DEF Busy
  <2>3. Start(c) + bytes[c] > End(c)
    <3>1. Last(w) = End(c)
      BY <1>c, <2>2 DEF Last
    <3>2. source[w] = Start(c) + bytes[c]
      BY <2>1 DEF Data, Streams
    <3>. QED  BY <2>1, <3>1, <3>2
  <2>4. \A k \in Start(c)..End(c) : file[k] = Content(k)
    <3>1. \A k \in Start(c)..(Start(c) + bytes[c] - 1) : file[k] = Content(k)
      BY <2>1, <2>2 DEF Data, WrittenRight
    <3>2. Start(c)..End(c) \subseteq Start(c)..(Start(c) + bytes[c] - 1)
      BY <1>c, <2>2, <2>3
    <3>. QED  BY <3>1, <3>2
  <2>5. WrittenRight'
    <3>1. \A d \in Chunk : status'[d] = "COMPLETED" => d = c \/ status[d] = "COMPLETED"
      BY <2>1 DEF TypeOK
    <3>2. \A d \in Chunk : status'[d] = "COMPLETED" =>
            \A k \in Start(d)..End(d) : file[k] = Content(k)
      BY <2>4, <3>1 DEF Data, WrittenRight
    <3>. QED  BY <1>0, <2>1, <3>2 DEF Data, WrittenRight
  <2>6. Streams'
    BY <1>0, <2>1 DEF Data, Streams, TypeOK
  <2>7. FirstAttempts'
    BY <1>0, <2>1 DEF Data, FirstAttempts, TypeOK
  <2>. QED  BY <2>5, <2>6, <2>7 DEF Data
<1>7. ASSUME NEW w \in Worker, Throttle(w) PROVE Data'
  <2>. DEFINE c == cur[w]
  <2>1. /\ UNCHANGED <<queue, offset>> /\ is_sim /\ honours /\ pc[w] = "stream"
        /\ source' = [source EXCEPT ![w] = @ + 1]
        /\ bytes' = [bytes EXCEPT ![c] = source'[w]]
    BY <1>7 DEF Throttle, Shape
  <2>2. /\ c \in Chunk /\ source[w] < Size(c) /\ source[w] \in Nat
        /\ source'[w] = source[w] + 1
    BY <1>w, <2>1 DEF Busy, Data, Streams, TypeOK
  <2>3. ASSUME NEW d \in Chunk PROVE bytes'[d] <= Size(d)
    <3>1. CASE d = c
      <4>1. bytes'[d] = source[w] + 1
        BY <2>1, <2>2, <3>1 DEF TypeOK
      <4>. QED  BY <1>c, <2>2, <3>1, <4>1
    <3>2. CASE d # c
      <4>1. bytes'[d] = bytes[d]
        BY <2>1, <3>2 DEF TypeOK
      <4>. QED  BY <1>c, <4>1
    <3>. QED  BY <3>1, <3>2
  <2>4. FirstAttempts'
    BY <1>0, <2>1 DEF FirstAttempts
  <2>5. CASE source'[w] < Size(c)
    <3>1. UNCHANGED <<status, cur, pc, file>>
      BY <1>7, <2>5 DEF Throttle
    <3>2. WrittenRight'
      BY <1>0, <2>1, <3>1 DEF Data, WrittenRight
    <3>3. Streams'
      <4>1. \A v \in Worker : v # w => source'[v] = source[v]
        BY <2>1 DEF TypeOK
      <4>. QED  BY <1>0, <2>1, <2>3, <2>5, <3>1, <4>1 DEF Data, Streams
    <3>. QED  BY <2>4, <3>2, <3>3 DEF Data
  <2>6. CASE ~ (source'[w] < Size(c))
    <3>1. /\ file' = [k \in DOMAIN file |-> IF k \in Start(c)..End(c) THEN Mock ELSE file[k]]
          /\ pc' = [pc EXCEPT ![w] = "loop"] /\ cur' = [cur EXCEPT ![w] = NoChunk]
          /\ status' = [status EXCEPT ![c] = "COMPLETED"]
      BY <1>7, <2>6 DEF Throttle, Done
    <3>2. DOMAIN file = Block
      BY DEF Data, WrittenRight
    <3>3. /\ file' = [k \in Block |-> file'[k]]
          /\ \A k \in Block : file'[k] = Mock \/ file'[k] = file[k]
          /\ \A k \in Block : k \in Start(c)..End(c) => file'[k] = Mock
      BY <3>1, <3>2
    <3>4. ASSUME NEW d \in Chunk, status'[d] = "COMPLETED", NEW k \in Start(d)..End(d)
          PROVE  file'[k] = Mock
      <4>1. k \in Block
        BY <1>c
      <4>2. CASE d = c
        BY <3>3, <4>1, <4>2
      <4>3. CASE d # c
        <5>1. status[d] = "COMPLETED"
          BY <3>1, <3>4, <4>3 DEF TypeOK
        <5>2. file[k] = Mock
          BY <2>1, <5>1 DEF Data, WrittenRight, Content
        <5>. QED  BY <3>3, <4>1, <5>2
      <4>. QED  BY <4>2, <4>3
    <3>5. WrittenRight'
      BY <1>0, <2>1, <3>3, <3>4 DEF WrittenRight, Content
    <3>6. Streams'
      <4>1. \A v \in Worker : v # w => UNCHANGED <<source[v], cur[v], pc[v]>>
        BY <2>1, <3>1 DEF TypeOK
      <4>2. pc'[w] = "loop"
        BY <3>1 DEF TypeOK
      <4>. QED  BY <1>0, <2>1, <2>3, <4>1, <4>2 DEF Data, Streams
    <3>. QED  BY <2>4, <3>5, <3>6 DEF Data
  <2>. QED  BY <2>5, <2>6
<1>8. ASSUME NEW w \in Worker, Fail(w) PROVE Data'
  <2>1. /\ UNCHANGED <<queue, cur, bytes, offset, source, file>>
        /\ pc' = [pc EXCEPT ![w] = "sleep"] /\ status' = [status EXCEPT ![cur[w]] = "FAILED"]
    BY <1>8 DEF Fail, queueVars, streamVars
  <2>2. honours
    <3>1. failures' # 0
      BY <1>8, DownloaderAssumption DEF Fail, TypeOK
    <3>. QED  BY <1>0, <3>1
  <2>3. WrittenRight'
    BY <1>same, <2>1 DEF TypeOK
  <2>4. Streams'
    BY <1>0, <2>1 DEF Data, Streams, TypeOK
  <2>5. FirstAttempts'
    BY <1>0, <2>2 DEF FirstAttempts
  <2>. QED  BY <2>3, <2>4, <2>5 DEF Data
<1>9. ASSUME NEW w \in Worker, Requeue(w) PROVE Data'
  <2>1. /\ pc[w] = "sleep" /\ pc' = [pc EXCEPT ![w] = "loop"]
        /\ cur' = [cur EXCEPT ![w] = NoChunk]
        /\ status' = [status EXCEPT ![cur[w]] = "PENDING"]
        /\ bytes' = [bytes EXCEPT ![cur[w]] = 0]
        /\ UNCHANGED <<offset, source, file>>
    BY <1>9 DEF Requeue, streamVars
  <2>2. cur[w] \in Chunk /\ \A v \in Worker : v # w => cur[v] # cur[w]
    BY <1>w, <2>1 DEF Busy
  <2>3. honours
    BY <1>first, <2>1
  <2>4. ASSUME NEW d \in Chunk
        PROVE  bytes'[d] = bytes[d] \/ bytes'[d] = 0
    BY <2>1 DEF TypeOK
  <2>5. WrittenRight'
    <3>1. \A d \in Chunk : status'[d] = "COMPLETED" => status[d] = "COMPLETED"
      BY <2>1 DEF TypeOK
    <3>2. ASSUME ~ is_sim, NEW d \in Chunk,
                 NEW k \in Start(d)..(Start(d) + bytes'[d] - 1)
          PROVE  file[k] = Content(k)
      <4>1. k \in Start(d)..(Start(d) + bytes[d] - 1)
        BY <1>c, <2>4
      <4>. QED  BY <3>2, <4>1 DEF Data, WrittenRight
    <3>. QED  BY <1>0, <2>1, <3>1, <3>2 DEF Data, WrittenRight
  <2>6. Streams'
    <3>1. \A d \in Chunk : bytes'[d] <= Size(d)
      BY <1>c, <2>4
    <3>2. ASSUME NEW v \in Worker, pc'[v] = "stream"
          PROVE  /\ pc[v] = "stream" /\ cur'[v] = cur[v]
                 /\ bytes'[cur'[v]] = bytes[cur[v]]
      <4>1. v # w /\ pc[v] = "stream"
        BY <2>1, <3>2 DEF TypeOK
      <4>2. cur'[v] = cur[v] /\ cur[v] # cur[w] /\ cur[v] \in Chunk
        BY <1>w, <2>1, <2>2, <4>1 DEF TypeOK, Busy
      <4>. QED  BY <2>1, <4>1, <4>2 DEF TypeOK
    <3>. QED  BY <1>0, <2>1, <3>1, <3>2 DEF Data, Streams
  <2>7. FirstAttempts'
    BY <1>0, <2>3 DEF FirstAttempts
  <2>. QED  BY <2>5, <2>6, <2>7 DEF Data
<1>10. CASE Join
  <2>1. /\ UNCHANGED <<status, queue, cur, bytes, offset, source, file>>
        /\ \A w \in Worker : pc'[w] = "done"
    BY <1>10 DEF Join, queueVars, streamVars
  <2>. QED  BY <1>0, <1>same, <2>1 DEF Data, Streams, FirstAttempts
<1>11. CASE UNCHANGED vars \/ \E l \in Link : Toggle(l)
  <2>1. UNCHANGED <<status, queue, cur, pc, bytes, offset, source, file>>
    BY <1>11 DEF vars, Toggle, queueVars, streamVars
  <2>. QED  BY <1>0, <1>same, <2>1 DEF Data, Streams, FirstAttempts
<1>12. ASSUME NEW w \in Worker, Exit(w) \/ Request(w) \/ Retry(w) PROVE Data'
  BY <1>2, <1>12 DEF Exit, Request, Retry
<1>. QED  BY <1>1, <1>3, <1>4, <1>5, <1>6, <1>7, <1>8, <1>9, <1>10, <1>11, <1>12 DEF Next

----------------------------------------------------------------------------
(* The inductive invariant holds at first and is kept. *)

LEMMA InitIInv == Init => IInv
<1>. SUFFICES ASSUME Init PROVE IInv
  OBVIOUS
<1>. USE DEF Init
<1>1. Shape
  BY RangesCover
<1>. DEFINE n == Len(chunks)
<1>2. n \in Nat /\ n # 0 /\ Chunk = 1..n
  BY <1>1 DEF Shape
<1>3. queue = [c \in 1..n |-> c] /\ DOMAIN queue = 1..n /\ queue \in Seq(Chunk)
  BY <1>2
<1>4. Places
  <2>1. Open = Chunk
    BY DEF Open
  <2>2. Cardinality(1..n) = n
    <3>1. Cardinality(1..n) = IF 1 > n THEN 0 ELSE n - 1 + 1
      <4>1. 1 \in Int /\ n \in Int
        BY <1>2
      <4>. QED  BY <4>1, FS_Interval
    <3>. QED  BY <1>2, <3>1
  <2>3. \A c \in Chunk : c # NoChunk
    BY <1>2 DEF NoChunk
  <2>4. QueueOnce /\ HeldOnce /\ BusyHolds
    BY <1>3 DEF QueueOnce, HeldOnce, BusyHolds, Busy
  <2>5. Apart /\ CompletedIsGone
    BY <1>2, <1>3, <2>3 DEF Apart, CompletedIsGone
  <2>. QED  BY <1>2, <2>1, <2>2, <2>4, <2>5 DEF Places
<1>5. TypeOK
  <2>1. unfinished \in 0..Len(chunks)
    BY <1>2
  <2>2. \A k \in DOMAIN file : file[k] \in 0..Mock
    BY DownloaderAssumption DEF Hole, Mock
  <2>3. (CHOOSE l \in Link : TRUE) \in Link
    BY DownloaderAssumption
  <2>4. link \in [Worker -> Link]
    BY <2>3
  <2>5. 0 \in 0..MaxRetries /\ 0 \in 0..MaxFailures /\ 0 \in 0..MaxToggles
    BY DownloaderAssumption
  <2>6. retries \in [Worker -> 0..MaxRetries] /\ failures \in 0..MaxFailures
        /\ toggles \in 0..MaxToggles
    BY <2>5
  <2>7. /\ pc \in [Worker -> {"loop", "attempt", "request", "stream", "sleep", "done"}]
        /\ cur \in [Worker -> Chunk \cup {NoChunk}]
        /\ offset \in [Worker -> Nat] /\ source \in [Worker -> Nat]
        /\ bytes \in [Chunk -> Nat]
        /\ status \in [Chunk -> {"PENDING", "DOWNLOADING", "COMPLETED", "FAILED"}]
    OBVIOUS
  <2>. QED  BY <1>3, <2>1, <2>2, <2>4, <2>6, <2>7 DEF TypeOK
<1>6. Attempts /\ ~ is_completed
  BY DEF Attempts
<1>7. Data
  <2>1. Streams
    BY <1>1 DEF Shape, Streams, Size, Block
  <2>2. WrittenRight
    <3>1. \A c \in Chunk : Start(c) \in Nat /\ bytes[c] = 0
      BY <1>1, DownloaderAssumption DEF Shape, Block
    <3>. QED  BY <3>1 DEF WrittenRight
  <2>3. FirstAttempts
    BY <1>3 DEF FirstAttempts
  <2>. QED  BY <2>1, <2>2, <2>3 DEF Data
<1>. QED  BY <1>1, <1>4, <1>5, <1>6, <1>7 DEF IInv

(* Failures are never forgotten. *)
LEMMA FailuresGrow ==
    ASSUME TypeOK, [Next]_vars, failures' = 0
    PROVE  failures = 0
BY DownloaderAssumption
   DEF TypeOK, Next, Take, Exit, Request, Respond, Receive, Complete, Delay, Throttle,
       Fail, Retry, Requeue, Join, Toggle, vars, envVars

(* Every step keeps the inductive invariant. *)
LEMMA NextIInv == IInv /\ [Next]_vars => IInv'
<1>. SUFFICES ASSUME IInv, [Next]_vars PROVE IInv'
  OBVIOUS
<1>1. Shape' /\ honours' = honours
  BY ShapeStep DEF IInv, modeVars
<1>2. Places'
  BY PlacesStep DEF IInv
<1>3. TypeOK' /\ Attempts'
  BY TypeStep DEF IInv
<1>4. is_completed' => unfinished' = 0
  BY CompletedStep DEF IInv
<1>5. honours' \/ failures' = 0 => Data'
  <2>. SUFFICES ASSUME honours' \/ failures' = 0 PROVE Data'
    OBVIOUS
  <2>1. TypeOK /\ Shape /\ Places
    BY DEF IInv
  <2>2. honours \/ failures = 0
    BY <1>1, <2>1, FailuresGrow
  <2>3. Data
    BY <2>2 DEF IInv
  <2>. QED  BY <2>1, <2>3, DataStep
<1>. QED  BY <1>1, <1>2, <1>3, <1>4, <1>5 DEF IInv

(* The inductive invariant of the downloader. *)
THEOREM Invariant == Spec => []IInv
<1>. QED  BY InitIInv, NextIInv, PTL DEF Spec

(* The types. *)
THEOREM TypeCorrect == Spec => []TypeOK
<1>1. IInv => TypeOK
  BY DEF IInv
<1>. QED  BY <1>1, Invariant, PTL

(* A set whose elements are all equal has at most one. *)
LEMMA AtMostOne ==
    ASSUME NEW S, \A x, y \in S : x = y
    PROVE  Cardinality(S) <= 1
<1>1. CASE S = {}
  BY <1>1, FS_EmptySet
<1>2. CASE S # {}
  <2>1. PICK x \in S : TRUE
    BY <1>2
  <2>2. S = {x}
    BY <2>1
  <2>. QED  BY <2>2, FS_Singleton
<1>. QED  BY <1>1, <1>2

(* No chunk is lost or worked on twice: it is in the queue once, or with one
   worker, or completed. *)
THEOREM ChunkTheorem == Spec => []EachChunkOnce
<1>1. IInv => EachChunkOnce
  <2>. SUFFICES ASSUME TypeOK, Shape, Places PROVE EachChunkOnce
    BY DEF IInv
  <2>1. Queued \cap Held = {}
    BY DEF Queued, Held, Places, Apart
  <2>2. ASSUME NEW c \in Chunk
        PROVE  /\ Cardinality({k \in DOMAIN queue : queue[k] = c}) <= 1
               /\ Cardinality({w \in Worker : cur[w] = c}) <= 1
               /\ (status[c] = "COMPLETED") <=> (c \notin Queued \cup Held)
    <3>1. c # NoChunk
      BY DEF Shape, NoChunk
    <3>2. Cardinality({k \in DOMAIN queue : queue[k] = c}) <= 1
      BY AtMostOne DEF Places, QueueOnce
    <3>3. Cardinality({w \in Worker : cur[w] = c}) <= 1
      BY <3>1, AtMostOne DEF Places, HeldOnce
    <3>4. (status[c] = "COMPLETED") <=> (c \notin Queued \cup Held)
      BY <3>1 DEF Places, CompletedIsGone, Queued, Held
    <3>. QED  BY <3>2, <3>3, <3>4
  <2>. QED  BY <2>1, <2>2 DEF EachChunkOnce
<1>. QED  BY <1>1, Invariant, PTL

(* queue.join waits for exactly the chunks that are not completed. *)
THEOREM JoinTheorem == Spec => []JoinCountsOpenChunks
<1>1. IInv => JoinCountsOpenChunks
  BY DEF IInv, Places, Open, JoinCountsOpenChunks
<1>. QED  BY <1>1, Invariant, PTL

(* The output file of a completed session is the file asked for. *)
THEOREM FileTheorem == Spec => []CompletedIsCorrect
<1>1. IInv => CompletedIsCorrect
  <2>. SUFFICES ASSUME IInv, is_completed, honours \/ failures = 0
                PROVE  file = [k \in Block |-> IF is_sim THEN Mock ELSE k]
    BY DEF CompletedIsCorrect
  <2>1. Shape /\ Places /\ Data /\ unfinished = 0
    BY DEF IInv
  <2>2. Open = {}
    BY <2>1, OpenFinite, FS_EmptySet DEF Places
  <2>3. ASSUME NEW k \in Block PROVE file[k] = Content(k)
    <3>1. PICK c \in Chunk : k \in Start(c)..End(c)
      BY <2>1 DEF Shape
    <3>2. status[c] = "COMPLETED"
      BY <2>2 DEF Open
    <3>. QED  BY <2>1, <3>1, <3>2 DEF Data, WrittenRight
  <2>4. file = [k \in Block |-> file[k]]
    BY <2>1 DEF Data, WrittenRight
  <2>. QED  BY <2>3, <2>4 DEF Content
<1>. QED  BY <1>1, Invariant, PTL
----------------------------------------------------------------------------
(* The bytes reported. *)

(* No block is in two ranges. *)
Disjoint == \A c, d \in Chunk : \A k \in Start(c)..End(c) : k \in Start(d)..End(d) => c = d

(* What a server or a simulated link sends is no more than what is counted. *)
Base(c) == IF honours /\ ~ is_sim THEN Start(c) ELSE 0
Ahead == \A w \in Worker : pc[w] = "stream" => source[w] <= Base(cur[w]) + bytes[cur[w]]

(* A completed chunk was counted whole. *)
CompletedIsWhole == \A c \in Chunk : status[c] = "COMPLETED" => bytes[c] >= Size(c)

(* The blocks counted for a chunk since it was last queued; the bytes reported
   are no fewer, and no more while nothing failed. *)
Got == {k \in Block : \E c \in Chunk : k \in Start(c)..(Start(c) + bytes[c] - 1)}

(* While nothing failed an attempt is the first of its chunk. *)
Fresh == /\ \A w \in Worker : pc[w] # "sleep"
         /\ \A w \in Worker : pc[w] \in {"attempt", "request"} => bytes[cur[w]] = 0
         /\ \A i \in DOMAIN queue : bytes[queue[i]] = 0
         /\ \A w \in Worker : pc[w] = "stream" /\ is_sim => source[w] = bytes[cur[w]]

Counted == /\ Cardinality(Got) <= total
           /\ failures = 0 => Fresh /\ total = Cardinality(Got)

Progress == Disjoint /\ Ahead /\ CompletedIsWhole /\ Counted

(* The ranges of initialize do not overlap. *)
LEMMA RangesApart ==
    ASSUME NEW accept_ranges \in BOOLEAN, chunks = Ranges(accept_ranges)
    PROVE  Disjoint
<1>. USE DownloaderAssumption
<1>1. CASE ~ accept_ranges
  <2>1. Chunk = 1..1
    BY <1>1 DEF Ranges, Chunk
  <2>. QED  BY <2>1 DEF Disjoint
<1>2. CASE accept_ranges
  <2>. DEFINE n == (total_size + chunk_size - 1) \div chunk_size
  <2>1. n \in Nat
    BY Quotient
  <2>2. chunks = [i \in 1..n |->
                    [start |-> (i - 1) * chunk_size,
                     end |-> IF i * chunk_size <= total_size
                             THEN i * chunk_size - 1 ELSE total_size - 1]]
    BY <1>2 DEF Ranges
  <2>3. Chunk = 1..n
    BY <2>1, <2>2 DEF Chunk
  <2>. HIDE DEF n
  <2>4. ASSUME NEW c \in 1..n
        PROVE  /\ Start(c) = (c - 1) * chunk_size /\ Start(c) \in Nat
               /\ End(c) \in Int /\ c * chunk_size \in Nat /\ End(c) < c * chunk_size
    <3>1. /\ Start(c) = (c - 1) * chunk_size
          /\ End(c) = IF c * chunk_size <= total_size
                      THEN c * chunk_size - 1 ELSE total_size - 1
      BY <2>2 DEF Start, End
    <3>2. c - 1 \in Nat /\ c \in Nat
      BY <2>1
    <3>3. (c - 1) * chunk_size \in Nat /\ c * chunk_size \in Nat
      BY <3>2
    <3>. QED  BY <3>1, <3>3
  <2>5. ASSUME NEW c \in 1..n, NEW d \in 1..n, c < d PROVE End(c) < Start(d)
    <3>1. c \in Nat /\ d - 1 \in Nat /\ c <= d - 1
      BY <2>1, <2>5
    <3>2. c * chunk_size <= (d - 1) * chunk_size
      BY <3>1, Monotone
    <3>3. /\ Start(d) = (d - 1) * chunk_size /\ Start(d) \in Nat
          /\ End(c) \in Int /\ c * chunk_size \in Nat /\ End(c) < c * chunk_size
      BY <2>4
    <3>. QED  BY <3>2, <3>3
  <2>6. ASSUME NEW c \in 1..n, NEW d \in 1..n, NEW k \in Start(c)..End(c),
               k \in Start(d)..End(d)
        PROVE  c = d
    <3>1. /\ Start(c) \in Nat /\ Start(d) \in Nat /\ End(c) \in Int /\ End(d) \in Int
      BY <2>4
    <3>2. ~ (c < d) /\ ~ (d < c)
      BY <2>5, <2>6, <3>1
    <3>. QED  BY <2>1, <3>2
  <2>. QED  BY <2>3, <2>6 DEF Disjoint
<1>. QED  BY <1>1, <1>2

(* Sets of blocks are counted in the naturals, up to the size of the file. *)
LEMMA BlockCount ==
    ASSUME NEW S \in SUBSET Block
    PROVE  IsFiniteSet(S) /\ Cardinality(S) \in Nat /\ Cardinality(S) <= total_size
<1>1. 0 \in Int /\ total_size - 1 \in Int
  BY DownloaderAssumption
<1>2. IsFiniteSet(Block) /\ Cardinality(Block) = total_size
  <2>1. /\ IsFiniteSet(0..(total_size - 1))
        /\ Cardinality(0..(total_size - 1)) =
             IF 0 > total_size - 1 THEN 0 ELSE (total_size - 1) - 0 + 1
    BY <1>1, FS_Interval
  <2>. QED  BY <2>1, DownloaderAssumption DEF Block
<1>3. IsFiniteSet(S) /\ Cardinality(S) <= total_size
  BY <1>2, FS_Subset
<1>. QED  BY <1>3, FS_CardinalityType

(* What counting a block more, or counting a chunk from its start again, does to
   the blocks counted. *)
LEMMA CountOne ==
    ASSUME TypeOK, Shape, UNCHANGED modeVars, NEW c \in Chunk, NEW m \in Nat,
           m <= bytes[c] + 1, bytes' = [bytes EXCEPT ![c] = m]
    PROVE  /\ Got' \in SUBSET Block
           /\ Cardinality(Got') <= Cardinality(Got) + 1
           /\ m = 0 => Cardinality(Got') <= Cardinality(Got)
           /\ Disjoint /\ m = bytes[c] + 1 /\ (\A d \in Chunk : bytes[d] <= Size(d))
                /\ m <= Size(c)
                => Cardinality(Got') = Cardinality(Got) + 1
<1>. DEFINE k == Start(c) + bytes[c]
<1>0. \A d \in Chunk : /\ Start(d) \in Nat /\ End(d) \in Nat /\ bytes[d] \in Nat
                       /\ Start(d) <= End(d) /\ End(d) <= total_size - 1
                       /\ Size(d) = End(d) - Start(d) + 1
  <2>. SUFFICES ASSUME NEW d \in Chunk
                PROVE  /\ Start(d) \in Nat /\ End(d) \in Nat /\ bytes[d] \in Nat
                       /\ Start(d) <= End(d) /\ End(d) <= total_size - 1
                       /\ Size(d) = End(d) - Start(d) + 1
    OBVIOUS
  <2>1. Start(d) \in Block /\ End(d) \in Block /\ Start(d) <= End(d)
    BY DEF Shape
  <2>2. bytes[d] \in Nat
    BY DEF TypeOK
  <2>. QED  BY <2>1, <2>2, DownloaderAssumption DEF Block, Size
<1>1. /\ bytes'[c] = m /\ \A d \in Chunk : d # c => bytes'[d] = bytes[d]
      /\ Chunk' = Chunk /\ \A d : Start(d)' = Start(d)
  BY DEF TypeOK, modeVars, Chunk, Start
<1>2. Got' = {j \in Block : \E d \in Chunk : j \in Start(d)..(Start(d) + bytes'[d] - 1)}
  BY <1>1 DEF Got
<1>3. Got \in SUBSET Block /\ Got' \in SUBSET Block
  BY <1>2 DEF Got
<1>4. \A j \in Got' : j \in Got \/ (j = k /\ m # 0)
  <2>. SUFFICES ASSUME NEW j \in Block, NEW d \in Chunk,
                       j \in Start(d)..(Start(d) + bytes'[d] - 1)
                PROVE  j \in Got \/ (j = k /\ m # 0)
    BY <1>2
  <2>1. CASE d # c
    BY <1>1, <2>1 DEF Got
  <2>2. CASE d = c
    <3>1. j \in Start(c)..(Start(c) + m - 1) /\ m # 0
      BY <1>0, <1>1, <2>2
    <3>2. j \in Start(c)..(Start(c) + bytes[c] - 1) \/ j = k
      BY <1>0, <3>1
    <3>. QED  BY <3>1, <3>2 DEF Got
  <2>. QED  BY <2>1, <2>2
<1>5. /\ IsFiniteSet(Got) /\ Cardinality(Got) \in Nat
      /\ IsFiniteSet(Got') /\ Cardinality(Got') \in Nat
  BY <1>3, BlockCount
<1>6. /\ IsFiniteSet(Got \cup {k})
      /\ Cardinality(Got \cup {k}) = IF k \in Got THEN Cardinality(Got)
                                     ELSE Cardinality(Got) + 1
  BY <1>5, FS_AddElement
<1>. HIDE DEF k
<1>7. Cardinality(Got') <= Cardinality(Got \cup {k})
  <2>1. Got' \in SUBSET (Got \cup {k})
    BY <1>4
  <2>. QED  BY <1>6, <2>1, FS_Subset
<1>8. Cardinality(Got') <= Cardinality(Got) + 1
  BY <1>5, <1>6, <1>7
<1>9. ASSUME m = 0 PROVE Cardinality(Got') <= Cardinality(Got)
  <2>1. Got' \in SUBSET Got
    BY <1>4, <1>9
  <2>. QED  BY <1>5, <2>1, FS_Subset
<1>10. ASSUME Disjoint, m = bytes[c] + 1, \A d \in Chunk : bytes[d] <= Size(d), m <= Size(c)
       PROVE  Cardinality(Got') = Cardinality(Got) + 1
  <2>1. k \in Nat /\ k >= Start(c) /\ k <= End(c) /\ k \in Block /\ k \in Start(c)..End(c)
    BY <1>0, <1>10, DownloaderAssumption DEF k, Block
  <2>2. k \notin Got
    <3>. SUFFICES ASSUME NEW d \in Chunk, k \in Start(d)..(Start(d) + bytes[d] - 1)
                  PROVE  FALSE
      BY DEF Got
    <3>1. k \in Start(d)..End(d)
      BY <1>0, <1>10
    <3>2. d = c
      BY <1>10, <2>1, <3>1 DEF Disjoint
    <3>. QED  BY <1>0, <3>2 DEF k
  <2>3. k \in Got'
    <3>1. k \in Start(c)..(Start(c) + bytes'[c] - 1)
      BY <1>0, <1>1, <1>10 DEF k
    <3>. QED  BY <1>2, <2>1, <3>1
  <2>4. Got \subseteq Got'
    <3>. SUFFICES ASSUME NEW j \in Block, NEW d \in Chunk,
                         j \in Start(d)..(Start(d) + bytes[d] - 1)
                  PROVE  j \in Got'
      BY DEF Got
    <3>1. j \in Start(d)..(Start(d) + bytes'[d] - 1)
      <4>1. bytes'[d] \in Nat /\ bytes[d] <= bytes'[d]
        BY <1>0, <1>1, <1>10
      <4>. QED  BY <1>0, <4>1
    <3>. QED  BY <1>2, <3>1
  <2>5. Got' = Got \cup {k}
    BY <1>4, <2>3, <2>4
  <2>. QED  BY <1>6, <2>2, <2>5
<1>. QED  BY <1>3, <1>8, <1>9, <1>10
(* At first nothing is counted. *)
LEMMA InitProgress == Init => Progress
<1>. SUFFICES ASSUME Init PROVE Progress
  OBVIOUS
<1>1. IInv /\ Shape
  BY InitIInv DEF IInv
<1>2. Disjoint
  BY RangesApart DEF Init
<1>3. Ahead /\ CompletedIsWhole
  BY DEF Init, Ahead, CompletedIsWhole
<1>4. Got = {}
  <2>1. \A c \in Chunk : bytes[c] = 0 /\ Start(c) \in Nat
    BY <1>1, DownloaderAssumption DEF Init, Shape, Block
  <2>. QED  BY <2>1 DEF Got
<1>5. Fresh
  BY <1>1 DEF Init, Fresh, Shape
<1>6. Counted
  BY <1>4, <1>5, FS_EmptySet DEF Counted, Init
<1>. QED  BY <1>2, <1>3, <1>6 DEF Progress

(* A step that counts nothing. *)
LEMMA QuietProgress ==
    ASSUME IInv, Progress, UNCHANGED <<modeVars, bytes, total>>, Ahead',
           CompletedIsWhole', failures' = 0 => failures = 0 /\ Fresh'
    PROVE  Progress'
<1>1. Disjoint' /\ Got' = Got /\ total' = total
  BY DEF Progress, Disjoint, Got, modeVars, Chunk, Start, End
<1>2. Counted'
  BY <1>1 DEF Progress, Counted
<1>. QED  BY <1>1, <1>2 DEF Progress

(* A block more is counted for the chunk of a worker. *)
LEMMA CountProgress ==
    ASSUME IInv, Progress, NEW w \in Worker, pc[w] = "stream",
           UNCHANGED <<modeVars, queue, failures>>, Ahead', CompletedIsWhole',
           NEW m \in Nat, m <= bytes[cur[w]] + 1,
           bytes' = [bytes EXCEPT ![cur[w]] = m], total' = total + 1,
           failures = 0 => Fresh' /\ m = bytes[cur[w]] + 1 /\ m <= Size(cur[w])
    PROVE  Progress'
<1>. DEFINE c == cur[w]
<1>1. c \in Chunk /\ TypeOK /\ Shape
  BY BusyIsOpen DEF IInv, Busy
<1>2. Disjoint'
  BY DEF Progress, Disjoint, modeVars, Chunk, Start, End
<1>3. /\ Cardinality(Got') <= Cardinality(Got) + 1
      /\ m = bytes[c] + 1 /\ (\A d \in Chunk : bytes[d] <= Size(d)) /\ m <= Size(c)
           => Cardinality(Got') = Cardinality(Got) + 1
      /\ Got' \in SUBSET Block
  BY <1>1, CountOne DEF Progress
<1>4. /\ Cardinality(Got) \in Nat /\ Cardinality(Got') \in Nat /\ total \in Nat
  <2>1. Got \in SUBSET Block
    BY DEF Got
  <2>. QED  BY <1>1, <1>3, <2>1, BlockCount DEF TypeOK
<1>5. Cardinality(Got') <= total'
  <2>1. Cardinality(Got) <= total
    BY DEF Progress, Counted
  <2>. QED  BY <1>3, <1>4, <2>1
<1>6. ASSUME failures = 0 PROVE Fresh' /\ total' = Cardinality(Got')
  <2>1. \A d \in Chunk : bytes[d] <= Size(d)
    BY <1>6 DEF IInv, Data, Streams
  <2>2. total = Cardinality(Got)
    BY <1>6 DEF Progress, Counted
  <2>. QED  BY <1>3, <1>6, <2>1, <2>2
<1>. QED  BY <1>2, <1>5, <1>6 DEF Progress, Counted

(* Every step keeps the count. *)
LEMMA ProgressStep ==
    ASSUME IInv, Progress, [Next]_vars
    PROVE  Progress'
<1>0. /\ TypeOK /\ Shape /\ Places /\ UNCHANGED modeVars /\ chunks' = chunks
      /\ is_sim' = is_sim /\ honours' = honours /\ Chunk' = Chunk
      /\ \A c : Base(c)' = Base(c) /\ Start(c)' = Start(c) /\ Size(c)' = Size(c)
      /\ Ahead /\ CompletedIsWhole /\ Counted
  BY ShapeStep DEF IInv, Progress, modeVars, Chunk, Base, Start, End, Size
<1>1. /\ cur \in [Worker -> Chunk \cup {NoChunk}] /\ bytes \in [Chunk -> Nat]
      /\ source \in [Worker -> Nat] /\ offset \in [Worker -> Nat]
      /\ pc \in [Worker -> {"loop", "attempt", "request", "stream", "sleep", "done"}]
      /\ status \in [Chunk -> {"PENDING", "DOWNLOADING", "COMPLETED", "FAILED"}]
  BY <1>0 DEF TypeOK
<1>2. ASSUME NEW w \in Worker, pc[w] \in Busy
      PROVE  /\ cur[w] \in Chunk /\ status[cur[w]] # "COMPLETED"
             /\ \A v \in Worker : v # w => cur[v] # cur[w]
             /\ \A i \in DOMAIN queue : queue[i] # cur[w]
  <2>1. cur[w] \in Chunk /\ status[cur[w]] # "COMPLETED"
    BY <1>0, <1>2, BusyIsOpen
  <2>2. cur[w] # NoChunk
    BY <1>0, <1>2 DEF Places, BusyHolds
  <2>. QED  BY <1>0, <2>1, <2>2 DEF Places, HeldOnce, Apart
<1>3. \A c \in Chunk : /\ Start(c) \in Nat /\ End(c) \in Nat /\ Size(c) \in Nat
                       /\ Size(c) = End(c) - Start(c) + 1 /\ Base(c) \in Nat
                       /\ bytes[c] \in Nat
                       /\ ~ honours => Start(c) = 0 /\ End(c) = total_size - 1
  <2>. SUFFICES ASSUME NEW c \in Chunk
                PROVE  /\ Start(c) \in Nat /\ End(c) \in Nat /\ Size(c) \in Nat
                       /\ Size(c) = End(c) - Start(c) + 1 /\ Base(c) \in Nat
                       /\ bytes[c] \in Nat
                       /\ ~ honours => Start(c) = 0 /\ End(c) = total_size - 1
    OBVIOUS
  <2>1. Start(c) \in Block /\ End(c) \in Block /\ Start(c) <= End(c)
    BY <1>0 DEF Shape
  <2>2. Start(c) \in Nat /\ End(c) \in Nat /\ Size(c) = End(c) - Start(c) + 1 /\ Size(c) \in Nat
    BY <2>1, DownloaderAssumption DEF Block, Size
  <2>3. Base(c) \in Nat
    BY <2>2 DEF Base
  <2>4. ~ honours => Start(c) = 0 /\ End(c) = total_size - 1
    BY <1>0 DEF Shape
  <2>. QED  BY <1>1, <2>2, <2>3, <2>4
<1>4. failures' = 0 => failures = 0 /\ Fresh
  BY <1>0, FailuresGrow DEF Counted
\* Steps that leave what is counted, and every stream that goes on, alone.
<1>quiet. ASSUME UNCHANGED <<bytes, source, total>>,
                 \A v \in Worker : pc'[v] = "stream" =>
                   pc[v] = "stream" /\ cur'[v] = cur[v],
                 \A c \in Chunk : status'[c] = "COMPLETED" => status[c] = "COMPLETED",
                 failures' = 0 => Fresh'
          PROVE  Progress'
  <2>1. Ahead'
    BY <1>0, <1>quiet DEF Ahead
  <2>2. CompletedIsWhole'
    BY <1>0, <1>quiet DEF CompletedIsWhole
  <2>. QED  BY <1>0, <1>4, <1>quiet, <2>1, <2>2, QuietProgress
<1>5. ASSUME NEW w \in Worker, Take(w) PROVE Progress'
  <2>1. /\ queue # <<>> /\ cur' = [cur EXCEPT ![w] = Head(queue)] /\ queue' = Tail(queue)
        /\ pc' = [pc EXCEPT ![w] = "attempt"]
        /\ UNCHANGED <<status, bytes, source, total, failures>>
    BY <1>5 DEF Take, Goto, streamVars, envVars
  <2>2. queue \in Seq(Chunk)
    BY <1>0 DEF TypeOK
  <2>3. /\ Head(queue) = queue[1] /\ 1 \in DOMAIN queue
        /\ \A i \in DOMAIN queue' : i + 1 \in DOMAIN queue /\ queue'[i] = queue[i + 1]
    BY <2>1, <2>2
  <2>4. \A v \in Worker : v # w => cur'[v] = cur[v] /\ pc'[v] = pc[v]
    BY <1>1, <2>1
  <2>5. cur'[w] = queue[1] /\ pc'[w] = "attempt"
    BY <1>1, <2>1, <2>3
  <2>6. failures' = 0 => Fresh'
    BY <1>0, <1>4, <2>1, <2>3, <2>4, <2>5 DEF Fresh
  <2>. QED  BY <1>quiet, <2>1, <2>4, <2>5, <2>6
<1>6. ASSUME NEW w \in Worker, Exit(w) \/ Request(w) \/ Retry(w) PROVE Progress'
  <2>1. /\ UNCHANGED <<queue, cur, bytes, source, total, failures>>
        /\ \A v \in Worker : v # w => pc'[v] = pc[v]
        /\ pc'[w] = "done" \/ (pc'[w] = "request" /\ pc[w] = "attempt")
             \/ (pc'[w] = "attempt" /\ pc[w] = "sleep")
        /\ \A c \in Chunk : status'[c] = "COMPLETED" => status[c] = "COMPLETED"
    BY <1>1, <1>6 DEF Exit, Request, Retry, Goto, SetStatus, queueVars, streamVars, envVars
  <2>2. failures' = 0 => Fresh'
    BY <1>0, <1>4, <2>1 DEF Fresh
  <2>. QED  BY <1>quiet, <2>1, <2>2
<1>7. ASSUME NEW w \in Worker, Fail(w) PROVE Progress'
  <2>1. /\ UNCHANGED <<cur, bytes, source, total>>
        /\ pc' = [pc EXCEPT ![w] = "sleep"]
        /\ \A c \in Chunk : status'[c] = "COMPLETED" => status[c] = "COMPLETED"
        /\ failures' # 0
    BY <1>0, <1>1, <1>7, DownloaderAssumption
       DEF Fail, Goto, SetStatus, streamVars, TypeOK
  <2>2. \A v \in Worker : pc'[v] = "stream" => pc[v] = "stream"
    BY <1>1, <2>1
  <2>. QED  BY <1>quiet, <2>1, <2>2
<1>8. CASE Join
  <2>1. /\ UNCHANGED <<status, queue, bytes, source, total, failures>>
        /\ \A v \in Worker : pc'[v] = "done"
    BY <1>8 DEF Join, queueVars, streamVars, envVars
  <2>2. failures' = 0 => Fresh'
    BY <1>0, <1>4, <2>1 DEF Fresh
  <2>. QED  BY <1>quiet, <2>1, <2>2
<1>9. CASE UNCHANGED vars \/ \E l \in Link : Toggle(l)
  <2>1. UNCHANGED <<status, queue, cur, pc, bytes, source, total, failures>>
    BY <1>9 DEF vars, Toggle, queueVars, streamVars
  <2>2. failures' = 0 => Fresh'
    BY <1>0, <1>4, <2>1 DEF Fresh
  <2>. QED  BY <1>quiet, <2>1, <2>2
<1>10. ASSUME NEW w \in Worker, Respond(w) \/ Delay(w) PROVE Progress'
  <2>. DEFINE c == cur[w]
  <2>1. /\ UNCHANGED <<status, queue, cur, bytes, total, failures>>
        /\ pc[w] = "request" /\ pc' = [pc EXCEPT ![w] = "stream"]
        /\ \E n \in Nat : /\ source' = [source EXCEPT ![w] = n]
                          /\ n <= Base(c) + bytes[c]
                          /\ is_sim => n = 0
    <3>1. c \in Chunk
      BY <1>2, <1>10 DEF Respond, Delay, Busy
    <3>2. Start(c) + bytes[c] \in Nat /\ Base(c) + bytes[c] \in Nat
      BY <1>3, <3>1
    <3>. QED  BY <1>10, <3>2 DEF Respond, Delay, Goto, Base, queueVars, streamVars, envVars
  <2>2. PICK n \in Nat : /\ source' = [source EXCEPT ![w] = n]
                         /\ n <= Base(c) + bytes[c]
                         /\ is_sim => n = 0
    BY <2>1
  <2>3. /\ \A v \in Worker : v # w => pc'[v] = pc[v] /\ source'[v] = source[v]
        /\ pc'[w] = "stream" /\ source'[w] = n
    BY <1>1, <2>1, <2>2
  <2>4. Ahead'
    <3>. SUFFICES ASSUME NEW v \in Worker, pc'[v] = "stream"
                  PROVE  source'[v] <= Base(cur[v]) + bytes[cur[v]]
      BY <1>0, <2>1 DEF Ahead
    <3>. QED  BY <1>0, <2>2, <2>3 DEF Ahead
  <2>5. CompletedIsWhole'
    BY <1>0, <2>1 DEF CompletedIsWhole
  <2>6. failures' = 0 => Fresh'
    BY <1>0, <1>4, <2>1, <2>2, <2>3 DEF Fresh
  <2>. QED  BY <1>0, <1>4, <2>1, <2>4, <2>5, <2>6, QuietProgress
<1>11. ASSUME NEW w \in Worker, Receive(w) PROVE Progress'
  <2>. DEFINE c == cur[w]
              m == bytes[c] + 1
  <2>1. /\ UNCHANGED <<queue, status, pc, cur, failures>> /\ ~ is_sim
        /\ pc[w] = "stream" /\ source[w] <= Last(w)
        /\ source' = [source EXCEPT ![w] = @ + 1]
        /\ bytes' = [bytes EXCEPT ![c] = m] /\ total' = total + 1
    BY <1>11 DEF Receive, queueVars, envVars
  <2>2. /\ c \in Chunk /\ status[c] # "COMPLETED" /\ m \in Nat
        /\ \A v \in Worker : v # w => cur[v] # c
        /\ \A i \in DOMAIN queue : queue[i] # c
    BY <1>2, <1>3, <2>1 DEF Busy
  <2>. HIDE DEF m
  <2>3. /\ bytes'[c] = m /\ \A d \in Chunk : d # c => bytes'[d] = bytes[d]
        /\ source'[w] = source[w] + 1
        /\ \A v \in Worker : v # w => source'[v] = source[v]
    BY <1>1, <2>1, <2>2
  <2>4. Ahead'
    <3>. SUFFICES ASSUME NEW v \in Worker, pc[v] = "stream"
                  PROVE  source'[v] <= Base(cur[v]) + bytes'[cur[v]]
      BY <1>0, <2>1 DEF Ahead
    <3>1. cur[v] \in Chunk /\ source[v] <= Base(cur[v]) + bytes[cur[v]]
      BY <1>0, <1>2 DEF Ahead, Busy
    <3>2. source[v] \in Nat /\ Base(cur[v]) \in Nat /\ bytes[cur[v]] \in Nat
      BY <1>1, <1>3, <3>1
    <3>3. CASE v = w
      BY <2>3, <3>1, <3>2, <3>3 DEF m
    <3>4. CASE v # w
      BY <2>2, <2>3, <3>1, <3>4
    <3>. QED  BY <3>3, <3>4
  <2>5. CompletedIsWhole'
    BY <1>0, <2>1, <2>2, <2>3 DEF CompletedIsWhole
  <2>6. ASSUME failures = 0 PROVE Fresh' /\ m = bytes[c] + 1 /\ m <= Size(c)
    <3>1. Fresh
      BY <1>0, <2>6 DEF Counted
    <3>2. \A v \in Worker : pc[v] \in {"attempt", "request"} => cur[v] \in Chunk /\ cur[v] # c
      BY <1>2, <2>1, <2>2 DEF Busy
    <3>3. \A i \in DOMAIN queue : queue[i] \in Chunk
      BY <1>0 DEF TypeOK
    <3>4. Fresh'
      BY <1>0, <2>1, <2>2, <2>3, <3>1, <3>2, <3>3 DEF Fresh
    <3>5. source[w] = Start(c) + bytes[c]
      BY <2>1, <2>6 DEF IInv, Data, Streams
    <3>6. Last(w) = End(c)
      BY <1>3, <2>2 DEF Last
    <3>. QED  BY <1>3, <2>1, <2>2, <3>4, <3>5, <3>6 DEF m
  <2>7. m <= bytes[c] + 1
    BY <2>2 DEF m
  <2>. QED  BY <1>0, <2>1, <2>2, <2>4, <2>5, <2>6, <2>7, CountProgress
<1>12. ASSUME NEW w \in Worker, Complete(w) PROVE Progress'
  <2>. DEFINE c == cur[w]
  <2>1. /\ UNCHANGED <<queue, bytes, source, total, failures>> /\ ~ is_sim
        /\ pc[w] = "stream" /\ source[w] > Last(w)
        /\ pc' = [pc EXCEPT ![w] = "loop"] /\ cur' = [cur EXCEPT ![w] = NoChunk]
        /\ status' = [status EXCEPT ![c] = "COMPLETED"]
    BY <1>12 DEF Complete, Done, SetStatus, Goto, streamVars, envVars
  <2>2. c \in Chunk /\ source[w] <= Base(c) + bytes[c] /\ source[w] \in Nat
    BY <1>0, <1>1, <1>2, <2>1 DEF Ahead, Busy
  <2>3. bytes[c] >= Size(c)
    <3>1. Last(w) = Base(c) + Size(c) - 1
      BY <1>3, <2>1, <2>2 DEF Last, Base
    <3>. QED  BY <1>3, <2>1, <2>2, <3>1
  <2>4. \A v \in Worker : v # w => pc'[v] = pc[v] /\ cur'[v] = cur[v]
    BY <1>1, <2>1
  <2>5. pc'[w] = "loop"
    BY <1>1, <2>1
  <2>6. Ahead'
    BY <1>0, <2>1, <2>4, <2>5 DEF Ahead
  <2>7. CompletedIsWhole'
    BY <1>0, <1>1, <2>1, <2>3 DEF CompletedIsWhole
  <2>8. failures' = 0 => Fresh'
    BY <1>0, <1>4, <2>1, <2>4, <2>5 DEF Fresh
  <2>. QED  BY <1>0, <1>4, <2>1, <2>6, <2>7, <2>8, QuietProgress
<1>13. ASSUME NEW w \in Worker, Throttle(w) PROVE Progress'
  <2>. DEFINE c == cur[w]
              m == source[w] + 1
  <2>1. /\ UNCHANGED <<queue, failures>> /\ is_sim /\ pc[w] = "stream"
        /\ source' = [source EXCEPT ![w] = @ + 1]
        /\ bytes' = [bytes EXCEPT ![c] = source'[w]] /\ total' = total + 1
    BY <1>13 DEF Throttle, envVars
  <2>2. /\ c \in Chunk /\ status[c] # "COMPLETED" /\ m \in Nat
        /\ \A v \in Worker : v # w => cur[v] # c
        /\ \A i \in DOMAIN queue : queue[i] # c
    BY <1>1, <1>2, <2>1 DEF Busy
  <2>3. source[w] < Size(c) /\ source[w] <= bytes[c] /\ source[w] \in Nat
    <3>1. source[w] < Size(c)
      BY <1>0, <2>1 DEF IInv, Data, Streams, Shape
    <3>2. source[w] <= Base(c) + bytes[c] /\ Base(c) = 0
      BY <1>0, <2>1 DEF Ahead, Base
    <3>. QED  BY <1>1, <1>3, <2>2, <3>1, <3>2
  <2>4. m <= bytes[c] + 1 /\ m <= Size(c)
    BY <1>3, <2>2, <2>3
  <2>5. /\ source'[w] = m /\ bytes' = [bytes EXCEPT ![c] = m] /\ bytes'[c] = m
        /\ \A v \in Worker : v # w => source'[v] = source[v]
        /\ \A d \in Chunk : d # c => bytes'[d] = bytes[d]
    BY <1>1, <2>1, <2>2
  <2>6. /\ \A v \in Worker : v # w => pc'[v] = pc[v] /\ cur'[v] = cur[v]
        /\ \/ pc'[w] = "stream" /\ cur'[w] = c
           \/ pc'[w] = "loop"
        /\ \/ status' = status
           \/ status' = [status EXCEPT ![c] = "COMPLETED"] /\ ~ (m < Size(c))
    <3>1. CASE source'[w] < Size(c)
      BY <1>13, <2>1, <3>1 DEF Throttle
    <3>2. CASE ~ (source'[w] < Size(c))
      <4>1. /\ pc' = [pc EXCEPT ![w] = "loop"] /\ cur' = [cur EXCEPT ![w] = NoChunk]
            /\ status' = [status EXCEPT ![c] = "COMPLETED"]
        BY <1>13, <3>2 DEF Throttle, Done, SetStatus, Goto
      <4>. QED  BY <1>1, <2>5, <3>2, <4>1
    <3>. QED  BY <3>1, <3>2
  <2>. HIDE DEF m
  <2>7. Ahead'
    <3>. SUFFICES ASSUME NEW v \in Worker, pc'[v] = "stream"
                  PROVE  source'[v] <= Base(cur'[v]) + bytes'[cur'[v]]
      BY <1>0 DEF Ahead
    <3>1. CASE v = w
      <4>1. cur'[v] = c /\ source'[v] = m /\ bytes'[c] = m
        BY <2>5, <2>6, <3>1
      <4>. QED  BY <1>3, <2>2, <4>1
    <3>2. CASE v # w
      <4>1. pc[v] = "stream" /\ cur'[v] = cur[v] /\ cur[v] \in Chunk /\ cur[v] # c
        BY <1>2, <2>2, <2>6, <3>2 DEF Busy
      <4>. QED  BY <1>0, <2>5, <3>2, <4>1 DEF Ahead
    <3>. QED  BY <3>1, <3>2
  <2>8. CompletedIsWhole'
    <3>. SUFFICES ASSUME NEW d \in Chunk, status'[d] = "COMPLETED"
                  PROVE  bytes'[d] >= Size(d)
      BY <1>0 DEF CompletedIsWhole
    <3>1. CASE d = c
      <4>1. ~ (m < Size(c))
        BY <2>2, <2>6, <3>1
      <4>. QED  BY <1>3, <2>2, <2>5, <3>1, <4>1
    <3>2. CASE d # c
      <4>1. status[d] = "COMPLETED"
        BY <1>1, <2>6, <3>2
      <4>. QED  BY <1>0, <2>5, <3>2, <4>1 DEF CompletedIsWhole
    <3>. QED  BY <3>1, <3>2
  <2>9. ASSUME failures = 0 PROVE Fresh' /\ m = bytes[c] + 1 /\ m <= Size(c)
    <3>1. Fresh
      BY <1>0, <2>9 DEF Counted
    <3>2. m = bytes[c] + 1
      BY <2>1, <3>1 DEF Fresh, m
    <3>3. \A v \in Worker : pc[v] \in Busy => cur[v] \in Chunk
      BY <1>2
    <3>4. \A i \in DOMAIN queue : queue[i] \in Chunk
      BY <1>0 DEF TypeOK
    <3>5. \A i \in DOMAIN queue' : bytes'[queue'[i]] = 0
      BY <2>1, <2>2, <2>5, <3>1, <3>4 DEF Fresh
    <3>6. ASSUME NEW v \in Worker
          PROVE  /\ pc'[v] # "sleep"
                 /\ pc'[v] \in {"attempt", "request"} => bytes'[cur'[v]] = 0
                 /\ pc'[v] = "stream" => source'[v] = bytes'[cur'[v]]
      <4>1. CASE v = w
        BY <2>5, <2>6, <4>1
      <4>2. CASE v # w
        <5>1. pc'[v] = pc[v] /\ cur'[v] = cur[v] /\ source'[v] = source[v]
          BY <2>5, <2>6, <4>2
        <5>2. pc[v] \in Busy => bytes'[cur[v]] = bytes[cur[v]]
          BY <2>2, <2>5, <3>3, <4>2
        <5>. QED  BY <2>1, <3>1, <5>1, <5>2 DEF Fresh, Busy
      <4>. QED  BY <4>1, <4>2
    <3>7. Fresh'
      BY <3>5, <3>6 DEF Fresh
    <3>. QED  BY <2>4, <3>2, <3>7
  <2>. QED
    BY <1>0, <2>1, <2>2, <2>4, <2>5, <2>7, <2>8, <2>9, CountProgress, ZenonT(60)
<1>14. ASSUME NEW w \in Worker, Requeue(w) PROVE Progress'
  <2>. DEFINE c == cur[w]
  <2>1. /\ UNCHANGED <<source, total, failures>> /\ pc[w] = "sleep"
        /\ pc' = [pc EXCEPT ![w] = "loop"] /\ cur' = [cur EXCEPT ![w] = NoChunk]
        /\ status' = [status EXCEPT ![c] = "PENDING"]
        /\ bytes' = [bytes EXCEPT ![c] = 0]
    BY <1>14 DEF Requeue, SetStatus, Goto, streamVars, envVars
  <2>2. c \in Chunk /\ \A v \in Worker : v # w => cur[v] # c
    BY <1>2, <2>1 DEF Busy
  <2>3. /\ \A v \in Worker : v # w => pc'[v] = pc[v] /\ cur'[v] = cur[v]
        /\ \A d \in Chunk : d # c => bytes'[d] = bytes[d] /\ status'[d] = status[d]
        /\ pc'[w] = "loop" /\ status'[c] = "PENDING"
    BY <1>1, <2>1, <2>2
  <2>4. Ahead'
    <3>. SUFFICES ASSUME NEW v \in Worker, pc'[v] = "stream"
                  PROVE  source[v] <= Base(cur'[v]) + bytes'[cur'[v]]
      BY <1>0, <2>1 DEF Ahead
    <3>1. v # w /\ pc[v] = "stream" /\ cur'[v] = cur[v]
      BY <2>3
    <3>2. cur[v] \in Chunk /\ cur[v] # c
      BY <1>2, <2>2, <3>1 DEF Busy
    <3>. QED  BY <1>0, <2>3, <3>1, <3>2 DEF Ahead
  <2>5. CompletedIsWhole'
    <3>. SUFFICES ASSUME NEW d \in Chunk, status'[d] = "COMPLETED"
                  PROVE  bytes'[d] >= Size(d)
      BY <1>0 DEF CompletedIsWhole
    <3>1. d # c
      BY <2>3
    <3>. QED  BY <1>0, <2>3, <3>1 DEF CompletedIsWhole
  <2>6. failures # 0
    BY <1>0, <2>1 DEF Counted, Fresh
  <2>7. Cardinality(Got') <= total'
    <3>1. Cardinality(Got') <= Cardinality(Got) /\ Got' \in SUBSET Block
      <4>1. PICK m \in Nat : m = 0
        OBVIOUS
      <4>2. m <= bytes[c] + 1 /\ bytes' = [bytes EXCEPT ![c] = m]
        BY <1>3, <2>1, <2>2, <4>1
      <4>. HIDE DEF c
      <4>. QED  BY <1>0, <2>2, <4>1, <4>2, CountOne
    <3>2. Cardinality(Got') \in Nat /\ Cardinality(Got) \in Nat
      <4>1. Got \in SUBSET Block
        BY DEF Got
      <4>. QED  BY <3>1, <4>1, BlockCount
    <3>3. Cardinality(Got) <= total /\ total \in Nat
      BY <1>0 DEF Counted, TypeOK
    <3>. QED  BY <2>1, <3>1, <3>2, <3>3
  <2>8. Counted'
    BY <2>1, <2>6, <2>7 DEF Counted
  <2>9. Disjoint'
    BY <1>0 DEF Progress, Disjoint, Start, End
  <2>. QED  BY <2>4, <2>5, <2>8, <2>9 DEF Progress
<1>. QED  BY <1>5, <1>6, <1>7, <1>8, <1>9, <1>10, <1>11, <1>12, <1>13, <1>14 DEF Next

(* ProgressReachesSize: what is reported reaches the size of the file by the
   time the download is complete, and passes it only if an attempt failed. *)
THEOREM ProgressTheorem == Spec => []ProgressReachesSize
<1>1. Spec => []Progress
  BY Invariant, InitProgress, ProgressStep, PTL DEF Spec
<1>2. ASSUME IInv, Progress PROVE ProgressReachesSize
  <2>0. TypeOK /\ Shape /\ Got \in SUBSET Block
    BY <1>2 DEF IInv, Got
  <2>1. /\ Cardinality(Got) \in Nat /\ Cardinality(Got) <= total_size /\ total \in Nat
        /\ Cardinality(Got) <= total
    BY <1>2, <2>0, BlockCount DEF TypeOK, Progress, Counted
  <2>2. failures = 0 => total <= total_size
    BY <1>2, <2>1 DEF Progress, Counted
  <2>3. ASSUME is_completed PROVE total >= total_size
    <3>1. Open = {}
      BY <1>2, <2>0, <2>3, OpenFinite, FS_EmptySet DEF IInv, Places
    <3>2. ASSUME NEW k \in Block PROVE k \in Got
      <4>1. PICK c \in Chunk : k \in Start(c)..End(c)
        BY <2>0 DEF Shape
      <4>2. bytes[c] >= Size(c)
        BY <1>2, <3>1 DEF Open, Progress, CompletedIsWhole
      <4>3. /\ Start(c) \in Block /\ End(c) \in Block /\ bytes[c] \in Nat
        <5>1. bytes \in [Chunk -> Nat]
          BY <2>0 DEF TypeOK
        <5>2. Start(c) \in Block /\ End(c) \in Block
          BY <2>0 DEF Shape
        <5>. QED  BY <5>1, <5>2
      <4>4. k \in Start(c)..(Start(c) + bytes[c] - 1)
        <5>1. /\ Start(c) \in Nat /\ End(c) \in Nat /\ k \in Nat
              /\ k >= Start(c) /\ k <= End(c)
          BY <4>1, <4>3, DownloaderAssumption DEF Block
        <5>2. bytes[c] >= End(c) - Start(c) + 1 /\ bytes[c] \in Nat
          BY <4>2, <4>3 DEF Size
        <5>. QED  BY <5>1, <5>2
      <4>. QED  BY <4>4 DEF Got
    <3>3. Got = 0..(total_size - 1)
      BY <2>0, <3>2 DEF Block
    <3>4. Cardinality(0..(total_size - 1)) = total_size
      <4>1. 0 \in Int /\ total_size - 1 \in Int
        BY DownloaderAssumption
      <4>2. Cardinality(0..(total_size - 1)) =
              IF 0 > total_size - 1 THEN 0 ELSE (total_size - 1) - 0 + 1
        BY <4>1, FS_Interval
      <4>. QED  BY <4>2, DownloaderAssumption
    <3>. QED  BY <2>1, <3>3, <3>4, DownloaderAssumption
  <2>. QED  BY <2>2, <2>3 DEF ProgressReachesSize
<1>. QED  BY <1>1, <1>2, Invariant, PTL
=============================================================================
