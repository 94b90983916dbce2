---------------------------- MODULE RouterProofs ----------------------------
(***************************************************************************)
(* Proofs about Router, for any sessions, commands and replies: the map    *)
(* holds every open connection, nothing is missing in the middle of what a *)
(* target receives, no reply is lost or sent for a closed session, and     *)
(* cleanup leaves nothing open.                                            *)
(***************************************************************************)
EXTENDS Router, TLAPS, FiniteSetTheorems, SequenceTheorems

----------------------------------------------------------------------------
(* The lock queue. *)

IsCmd(t) == t.task = "cmd"

(* A task stands in the queue once; a command that reports a failed connect
   stands behind itself. *)
QueuedOnce ==
    \A j, k \in DOMAIN lockq : lockq[j] = lockq[k] =>
      j = k \/ (phase = "notifying" /\ IsCmd(lockq[j]))

(* What is in the queue was put there by a command, a reply or cleanup. *)
QueuedKnown ==
    \A k \in DOMAIN lockq :
      /\ IsCmd(lockq[k]) => /\ lockq[k].id <= Len(log)
                            /\ log[lockq[k].id].op # "DATA"
      /\ lockq[k] = CleanupTask => shutdown

(* A relay task that waits has an open connection: closing cancels it. *)
WaitingIsActive == \A o \in Object : IsWaiting(o) => IsActive(o)

(* What the owner does, by what it is suspended in. *)
OwnerOf ==
    LET t == Head(lockq)
    IN  /\ lockq = <<>> => phase = "idle"
        /\ phase \in {"closing_old", "connecting", "notifying", "closing"} => IsCmd(t)
        /\ phase = "cleaning" => t = CleanupTask
        /\ phase \in {"closing_old", "connecting"} => log[t.id].op \in Connects
        /\ phase = "closing_old" => ~ IsActive(sessions[log[t.id].sid])
        /\ phase = "connecting" => /\ sessions[log[t.id].sid] = t.id
                                   /\ conn[t.id] = "opening"

(* A command that has not entered its critical section has no connection. *)
NotEntered ==
    phase # "notifying" =>
      \A k \in DOMAIN lockq :
        IsCmd(lockq[k]) /\ (k # 1 \/ phase \in {"idle", "closing_old"})
          => conn[lockq[k].id] = "none"

Queue == QueuedOnce /\ QueuedKnown /\ WaitingIsActive /\ OwnerOf /\ NotEntered

(* The connections. *)

(* A connection is one of a CONNECT; the map and the targets speak of commands
   that have started. *)
Started ==
    /\ \A o \in Object : conn[o] # "none" => o <= Len(log) /\ log[o].op \in Connects
    /\ \A s \in Sid : sessions[s] <= Len(log)
    /\ \A o \in Object : \A k \in DOMAIN target[o] : target[o][k] <= Len(log)

(* Before a connection is open nothing goes through it. *)
Untouched ==
    \A o \in Object : conn[o] \notin {"active", "closed"} =>
      /\ target[o] = <<>>
      /\ reads[o] = 0
      /\ \A k \in DOMAIN toClient : toClient[k].obj # o

IInv == TypeOK /\ Queue /\ Started /\ Untouched /\ ActiveIsMapped /\ NoHole /\ NoReplyLost
----------------------------------------------------------------------------
(* Sequences. *)

(* Entries takes the entries at the positions K, each once and in order. *)
LEMMA EntriesInOrder ==
    ASSUME NEW T, NEW q \in Seq(T), NEW K \in SUBSET DOMAIN q
    PROVE  /\ Cardinality(K) \in Nat
           /\ Entries(q, K) \in Seq(T)
           /\ Len(Entries(q, K)) = Cardinality(K)
           /\ \E f \in [1..Cardinality(K) -> K] :
                /\ \A i \in 1..Cardinality(K) : Entries(q, K)[i] = q[f[i]]
                /\ \A i, j \in 1..Cardinality(K) : i < j => f[i] < f[j]
                /\ \A k \in K : \E i \in 1..Cardinality(K) : f[i] = k
<1>. DEFINE m == Cardinality(K)
            Upto(k) == {j \in K : j <= k}
            rank == [k \in K |-> Cardinality(Upto(k))]
            f == [i \in 1..m |-> CHOOSE k \in K : Cardinality(Upto(k)) = i]
<1>0. \A k \in K : k \in Nat
  OBVIOUS
<1>1. IsFiniteSet(K) /\ m \in Nat
  <2>1. DOMAIN q = 1..Len(q) /\ Len(q) \in Nat
    OBVIOUS
  <2>2. IsFiniteSet(DOMAIN q)
    BY <2>1, FS_Interval
  <2>. QED  BY <2>2, FS_Subset, FS_CardinalityType
<1>2. \A k \in K : IsFiniteSet(Upto(k)) /\ Cardinality(Upto(k)) \in 1..m
  <2>. SUFFICES ASSUME NEW k \in K
                PROVE  IsFiniteSet(Upto(k)) /\ Cardinality(Upto(k)) \in 1..m
    OBVIOUS
  <2>1. Upto(k) \in SUBSET K /\ k \in Upto(k)
    OBVIOUS
  <2>2. IsFiniteSet(Upto(k)) /\ Cardinality(Upto(k)) <= m
    BY <1>1, <2>1, FS_Subset
  <2>3. Cardinality(Upto(k)) \in Nat /\ Cardinality(Upto(k)) # 0
    BY <2>1, <2>2, FS_CardinalityType, FS_EmptySet
  <2>. QED  BY <1>1, <2>2, <2>3
<1>20. \A k \in K : Cardinality(Upto(k)) \in Nat
  <2>. HIDE DEF Upto, m
  <2>. QED  BY <1>1, <1>2
<1>3. \A k, l \in K : k < l => Cardinality(Upto(k)) < Cardinality(Upto(l))
  <2>. SUFFICES ASSUME NEW k \in K, NEW l \in K, k < l
                PROVE  Cardinality(Upto(k)) < Cardinality(Upto(l))
    OBVIOUS
  <2>1. Upto(k) \in SUBSET Upto(l) /\ l \in Upto(l) /\ l \notin Upto(k)
    <3>1. \A x \in K : x <= k => x <= l
      BY <1>0
    <3>2. ~ (l <= k)
      BY <1>0
    <3>3. l <= l
      BY <1>0
    <3>. QED  BY <3>1, <3>2, <3>3
  <2>2. /\ Cardinality(Upto(k)) <= Cardinality(Upto(l))
        /\ Cardinality(Upto(k)) # Cardinality(Upto(l))
    BY <1>2, <2>1, FS_Subset
  <2>3. Cardinality(Upto(k)) \in Nat /\ Cardinality(Upto(l)) \in Nat
    BY <1>20
  <2>. HIDE DEF Upto
  <2>. QED  BY <2>2, <2>3
<1>4. \A k, l \in K : rank[k] = rank[l] => k = l
  <2>. SUFFICES ASSUME NEW k \in K, NEW l \in K, rank[k] = rank[l], k # l
                PROVE  FALSE
    OBVIOUS
  <2>1. k < l \/ l < k
    BY <1>0
  <2>2. Cardinality(Upto(k)) \in Nat /\ Cardinality(Upto(l)) \in Nat
    BY <1>20
  <2>3. Cardinality(Upto(k)) = Cardinality(Upto(l))
    OBVIOUS
  <2>. HIDE DEF Upto
  <2>. QED  BY <1>3, <2>1, <2>2, <2>3
<1>5. rank \in Injection(K, 1..m)
  BY <1>2, <1>4 DEF Injection, IsInjective
<1>6. rank \in Surjection(K, 1..m)
  <2>1. IsFiniteSet(1..m) /\ Cardinality(1..m) = m
    BY <1>1, FS_Interval
  <2>. QED  BY <1>5, <2>1, FS_Injection
<1>7. \A i \in 1..m : f[i] \in K /\ Cardinality(Upto(f[i])) = i
  <2>1. \A i \in 1..m : \E k \in K : Cardinality(Upto(k)) = i
    BY <1>6 DEF Surjection
  <2>. QED  BY <2>1
<1>8. ASSUME NEW i \in 1..m, NEW j \in 1..m, i < j PROVE f[i] < f[j]
  <2>. DEFINE k == f[i]
              l == f[j]
  <2>1. k \in K /\ l \in K /\ Cardinality(Upto(k)) = i /\ Cardinality(Upto(l)) = j
    BY <1>7
  <2>2. i \in Nat /\ j \in Nat
    BY <1>1
  <2>. HIDE DEF f, k, l, Upto
  <2>3. k # l
    BY <1>8, <2>1, <2>2
  <2>4. ~ (l < k)
    BY <1>3, <1>8, <2>1, <2>2
  <2>5. k < l
    BY <1>0, <2>1, <2>3, <2>4
  <2>. QED  BY <2>5 DEF k, l
<1>9. \A k \in K : f[Cardinality(Upto(k))] = k
  BY <1>2, <1>4, <1>7
<1>10. f \in [1..m -> K]
  BY <1>7
<1>11. Entries(q, K) = [i \in 1..m |-> q[f[i]]]
  BY DEF Entries
<1>12. \A i \in 1..m : q[f[i]] \in T
  <2>1. \A k \in K : q[k] \in T
    OBVIOUS
  <2>. HIDE DEF f
  <2>. QED  BY <1>10, <2>1
<1>13. /\ Entries(q, K) \in Seq(T) /\ Len(Entries(q, K)) = m
       /\ \A i \in 1..m : Entries(q, K)[i] = q[f[i]]
  <2>. HIDE DEF f
  <2>. QED  BY <1>1, <1>11, <1>12
<1>14. \A k \in K : \E i \in 1..m : f[i] = k
  BY <1>2, <1>9
<1>. HIDE DEF f, Upto
<1>. QED  BY <1>1, <1>8, <1>10, <1>13, <1>14

(* What closing the objects O leaves of a queue: its entries but for the relay
   tasks of the objects in O that were open, in their order. *)
IsGone(t, O) == t.task = "relay" /\ IsActive(t.id) /\ t.id \in O

LEMMA CancelKeepsOrder ==
    ASSUME NEW q \in Seq(Task), NEW O, NEW r, r = CancelRelays(q, O)
    PROVE  /\ r \in Seq(Task)
           /\ \E f \in [DOMAIN r -> DOMAIN q] :
                /\ \A i \in DOMAIN r : r[i] = q[f[i]] /\ ~ IsGone(r[i], O)
                /\ \A i, j \in DOMAIN r : i # j => f[i] # f[j]
                /\ \A i \in DOMAIN r : i # 1 => f[i] # 1
                /\ \A k \in DOMAIN q : ~ IsGone(q[k], O) =>
                     \E i \in DOMAIN r : f[i] = k
           /\ q # <<>> /\ ~ IsGone(Head(q), O) => r # <<>> /\ Head(r) = Head(q)
<1>. DEFINE K == {k \in DOMAIN q : ~ IsGone(q[k], O)}
<1>1. Len(q) \in Nat /\ DOMAIN q = 1..Len(q) /\ K \in SUBSET DOMAIN q
  OBVIOUS
<1>2. r = Entries(q, K)
  BY DEF CancelRelays, IsGone
<1>. HIDE DEF K
<1>3. /\ Cardinality(K) \in Nat /\ r \in Seq(Task) /\ Len(r) = Cardinality(K)
      /\ \E f \in [1..Cardinality(K) -> K] :
           /\ \A i \in 1..Cardinality(K) : r[i] = q[f[i]]
           /\ \A i, j \in 1..Cardinality(K) : i < j => f[i] < f[j]
           /\ \A k \in K : \E i \in 1..Cardinality(K) : f[i] = k
  <2>1. /\ Cardinality(K) \in Nat /\ Entries(q, K) \in Seq(Task)
        /\ Len(Entries(q, K)) = Cardinality(K)
        /\ \E f \in [1..Cardinality(K) -> K] :
             /\ \A i \in 1..Cardinality(K) : Entries(q, K)[i] = q[f[i]]
             /\ \A i, j \in 1..Cardinality(K) : i < j => f[i] < f[j]
             /\ \A k \in K : \E i \in 1..Cardinality(K) : f[i] = k
    BY <1>1, EntriesInOrder
  <2>. QED  BY <1>2, <2>1
<1>4. PICK f \in [1..Cardinality(K) -> K] :
        /\ \A i \in 1..Cardinality(K) : r[i] = q[f[i]]
        /\ \A i, j \in 1..Cardinality(K) : i < j => f[i] < f[j]
        /\ \A k \in K : \E i \in 1..Cardinality(K) : f[i] = k
  BY <1>3
<1>5. DOMAIN r = 1..Cardinality(K)
  BY <1>3
<1>6. \A i \in DOMAIN r : f[i] \in 1..Len(q) /\ ~ IsGone(r[i], O)
  BY <1>1, <1>4, <1>5 DEF K
<1>7. f \in [DOMAIN r -> DOMAIN q]
  BY <1>1, <1>5
<1>8. ASSUME NEW i \in DOMAIN r, NEW j \in DOMAIN r, i # j PROVE f[i] # f[j]
  <2>1. (i < j \/ j < i) /\ f[i] \in Nat /\ f[j] \in Nat
    BY <1>1, <1>3, <1>5, <1>6, <1>8
  <2>2. f[i] < f[j] \/ f[j] < f[i]
    BY <1>4, <1>5, <2>1
  <2>. QED  BY <2>1, <2>2
<1>9. \A i \in DOMAIN r : i # 1 => f[i] # 1
  <2>. SUFFICES ASSUME NEW i \in DOMAIN r, i # 1, f[i] = 1 PROVE FALSE
    OBVIOUS
  <2>1. 1 \in DOMAIN r /\ 1 < i
    BY <1>3, <1>5
  <2>2. f[1] < f[i]
    BY <1>4, <1>5, <2>1
  <2>. QED  BY <1>1, <1>6, <2>1, <2>2
<1>10. \A k \in DOMAIN q : ~ IsGone(q[k], O) => \E i \in DOMAIN r : f[i] = k
  BY <1>4, <1>5 DEF K
<1>11. ASSUME q # <<>>, ~ IsGone(Head(q), O)
       PROVE  r # <<>> /\ Head(r) = Head(q)
  <2>1. 1 \in DOMAIN q /\ q[1] = Head(q)
    BY <1>11
  <2>2. PICK i \in DOMAIN r : f[i] = 1
    BY <1>10, <1>11, <2>1
  <2>3. i = 1
    BY <1>9, <2>2
  <2>. QED  BY <1>3, <1>4, <1>5, <2>1, <2>2, <2>3
<1>12. /\ \A i \in DOMAIN r : r[i] = q[f[i]] /\ ~ IsGone(r[i], O)
       /\ \A i, j \in DOMAIN r : i # j => f[i] # f[j]
       /\ \A i \in DOMAIN r : i # 1 => f[i] # 1
       /\ \A k \in DOMAIN q : ~ IsGone(q[k], O) => \E i \in DOMAIN r : f[i] = k
  BY <1>4, <1>5, <1>6, <1>8, <1>9, <1>10
<1>. QED  BY <1>3, <1>7, <1>11, <1>12

(* What Append does. *)
LEMMA AppendFacts ==
    ASSUME NEW S, NEW q \in Seq(S), NEW t \in S, NEW r, r = Append(q, t)
    PROVE  /\ r \in Seq(S) /\ r # <<>>
           /\ Len(q) \in Nat /\ Len(r) = Len(q) + 1
           /\ DOMAIN q = 1..Len(q) /\ DOMAIN r = 1..(Len(q) + 1)
           /\ \A k \in DOMAIN q : r[k] = q[k] /\ q[k] \in S
           /\ r[Len(q) + 1] = t
           /\ q # <<>> => Head(r) = Head(q) /\ Head(q) = q[1] /\ 1 \in DOMAIN q
<1>1. /\ r \in Seq(S) /\ Len(r) = Len(q) + 1 /\ Len(q) \in Nat
      /\ \A k \in 1..Len(q) : r[k] = q[k]
      /\ r[Len(q) + 1] = t
  OBVIOUS
<1>2. r # <<>>
  BY <1>1
<1>3. q # <<>> => 1 \in 1..Len(q)
  BY <1>1
<1>. QED  BY <1>1, <1>2, <1>3
----------------------------------------------------------------------------
(* Steps that move no data. *)

(* Nothing happens to the commands, or one that is not DATA starts. *)
LogGrows ==
    \/ log' = log
    \/ \E c \in Command : c.op # "DATA" /\ Len(log) < MaxCmds /\ log' = Append(log, c)

(* The commands keep their places. *)
LEMMA LogKept ==
    ASSUME TypeOK, LogGrows
    PROVE  /\ log' \in Seq(Command)
           /\ Len(log') \in Nat /\ Len(log) <= Len(log') /\ Len(log') <= MaxCmds
           /\ \A i \in 1..Len(log) : log'[i] = log[i]
           /\ \A i \in 1..Len(log') : i <= Len(log) \/ log'[i].op # "DATA"
<1>. USE DEF TypeOK
<1>1. CASE log' = log
  BY <1>1
<1>2. ASSUME NEW c \in Command, c.op # "DATA", Len(log) < MaxCmds,
             log' = Append(log, c)
      PROVE  /\ log' \in Seq(Command) /\ Len(log') = Len(log) + 1
             /\ \A i \in 1..Len(log) : log'[i] = log[i]
             /\ log'[Len(log) + 1] = c
  BY <1>2
<1>3. CASE log' # log
  <2>1. PICK c \in Command : c.op # "DATA" /\ Len(log) < MaxCmds /\ log' = Append(log, c)
    BY <1>3 DEF LogGrows
  <2>2. /\ log' \in Seq(Command) /\ Len(log') = Len(log) + 1
        /\ \A i \in 1..Len(log) : log'[i] = log[i]
        /\ log'[Len(log) + 1] = c
    BY <1>2, <2>1
  <2>3. Len(log) \in Nat /\ MaxCmds \in Nat
    BY RouterAssumption
  <2>. QED  BY <2>1, <2>2, <2>3
<1>. QED  BY <1>1, <1>3

(* The connections cn come from conn by opening some that were not, and by
   closing some that were. *)
Turns(cn) ==
    \A o \in Object :
      /\ cn[o] = "active" =>
           \/ conn[o] = "active" /\ (IsWaiting(o)' <=> IsWaiting(o))
           \/ conn[o] \in {"none", "opening"} /\ ~ IsWaiting(o)'
      /\ cn[o] \notin {"active", "closed"} => conn[o] \notin {"active", "closed"}

(* The properties of the data survive what happens to the connections. *)
LEMMA DataKept ==
    ASSUME IInv, LogGrows, Turns(conn'), UNCHANGED dataVars
    PROVE  Untouched' /\ NoHole' /\ NoReplyLost'
<1>. USE DEF IInv, TypeOK
<1>1. /\ target' = target /\ reads' = reads /\ toClient' = toClient
  BY DEF dataVars
<1>2. Untouched'
  BY <1>1 DEF Untouched, Turns
<1>3. NoHole'
  <2>. SUFFICES ASSUME NEW o \in Object, IsActive(o)',
                       NEW k \in DOMAIN target[o],
                       NEW i \in (target[o][k] + 1)..Len(log'),
                       log'[i] = [op |-> "DATA", sid |-> log'[o].sid]
                PROVE  \E m \in DOMAIN target[o] : target[o][m] = i
    BY <1>1 DEF NoHole
  <2>1. conn[o] = "active" \/ conn[o] \in {"none", "opening"}
    BY DEF Turns, IsActive
  <2>2. conn[o] \notin {"none", "opening"}
    <3>1. target[o] # <<>>
      OBVIOUS
    <3>. QED  BY <3>1 DEF Untouched
  <2>3. IsActive(o) /\ o <= Len(log) /\ o \in 1..Len(log)
    BY <2>1, <2>2 DEF IsActive, Started, Object, NoObject
  <2>4. i \in 1..Len(log')
    <3>1. target[o] \in Seq(Object)
      OBVIOUS
    <3>2. target[o][k] \in Object
      BY <3>1
    <3>. QED  BY <3>2, LogKept DEF Object
  <2>5. i <= Len(log) /\ log'[i] = log[i] /\ log'[o] = log[o]
    <3>1. log'[i].op = "DATA"
      OBVIOUS
    <3>. QED  BY <2>3, <2>4, <3>1, LogKept, SMTT(30)
  <2>6. i \in (target[o][k] + 1)..Len(log) /\ log[i] = [op |-> "DATA", sid |-> log[o].sid]
    BY <2>5, SMTT(30)
  <2>. QED  BY <2>3, <2>6 DEF NoHole
<1>4. NoReplyLost'
  <2>0. \A o, k : Sent(o, k)' = Sent(o, k)
    BY <1>1 DEF Sent
  <2>. SUFFICES ASSUME NEW o \in Object
                PROVE  /\ \A k \in DOMAIN toClient :
                            toClient[k].obj = o => toClient[k].n = Cardinality(Sent(o, k))
                       /\ IsActive(o)' =>
                            Cardinality(Sent(o, Len(toClient)))
                              = IF IsWaiting(o)' THEN reads[o] - 1 ELSE reads[o]
    BY <1>1, <2>0 DEF NoReplyLost
  <2>1. CASE conn[o] = "active"
    BY <2>1 DEF NoReplyLost, Turns, IsActive
  <2>2. CASE conn'[o] = "active" /\ conn[o] # "active"
    <3>1. ~ IsWaiting(o)' /\ reads[o] = 0 /\ \A k \in DOMAIN toClient : toClient[k].obj # o
      BY <2>2 DEF Turns, Untouched
    <3>2. Sent(o, Len(toClient)) = {}
      BY <3>1, SMTT(30) DEF Sent
    <3>. QED  BY <3>1, <3>2, FS_EmptySet DEF NoReplyLost
  <2>. QED  BY <2>1, <2>2 DEF NoReplyLost, IsActive
<1>. QED  BY <1>2, <1>3, <1>4
(* What is known of the commands that started stays known. *)
LEMMA StartedKept ==
    ASSUME IInv, LogGrows, UNCHANGED dataVars, sessions' = sessions,
           \A o \in Object : conn'[o] # "none" => conn[o] # "none"
    PROVE  Started'
<1>1. Len(log) \in Nat /\ Len(log') \in Nat /\ Len(log) <= Len(log')
      /\ \A i \in 1..Len(log) : log'[i] = log[i]
  BY LogKept DEF IInv, TypeOK
<1>2. ASSUME NEW o \in Object, conn'[o] # "none"
      PROVE  o <= Len(log') /\ log'[o].op \in Connects
  <2>1. o \in 1..Len(log) /\ log[o].op \in Connects
    BY <1>1, <1>2 DEF IInv, Started, Object
  <2>. QED  BY <1>1, <2>1
<1>3. ASSUME NEW s \in Sid PROVE sessions[s] <= Len(log')
  <2>1. sessions[s] \in Nat /\ sessions[s] <= Len(log)
    BY DEF IInv, TypeOK, Started, Object, NoObject
  <2>. QED  BY <1>1, <2>1
<1>4. ASSUME NEW o \in Object, NEW k \in DOMAIN target[o]
      PROVE  target[o][k] <= Len(log')
  <2>1. target[o] \in Seq(Object)
    BY DEF IInv, TypeOK
  <2>2. target[o][k] \in Object
    BY <2>1
  <2>3. target[o][k] \in Nat /\ target[o][k] <= Len(log)
    BY <2>2 DEF IInv, Started, Object
  <2>. QED  BY <1>1, <2>3
<1>. QED  BY <1>2, <1>3, <1>4 DEF Started, dataVars

----------------------------------------------------------------------------
(* The critical sections. *)

ConnState == {"none", "opening", "active", "closed", "failed"}

Waits(q, o) == \E k \in DOMAIN q : q[k] = RelayTask(o)

(* The queue q and the connections cn in the middle of a critical section: the
   owner at the head of q has closed some connections and opened none. *)
Pending(q, cn) ==
    /\ q \in Seq(Task) /\ q # <<>> /\ Head(q).task # "relay"
    /\ cn \in [Object -> ConnState]
    /\ \A j, k \in DOMAIN q : q[j] = q[k] => j = k
    /\ \A k \in DOMAIN q :
         /\ IsCmd(q[k]) => /\ q[k].id <= Len(log')
                           /\ log'[q[k].id].op # "DATA"
                           /\ k # 1 => cn[q[k].id] = "none"
         /\ q[k] = CleanupTask => shutdown'
    /\ \A o \in Object :
         /\ Waits(q, o) => cn[o] = "active"
         /\ cn[o] = "active" => conn[o] = "active" /\ (Waits(q, o) <=> IsWaiting(o))
         /\ cn[o] = conn[o] \/ (conn[o] = "active" /\ cn[o] = "closed")

(* At its start nothing is closed yet. *)
LEMMA PendingAtStart ==
    ASSUME IInv, phase # "notifying", lockq # <<>>, Head(lockq).task # "relay",
           log' = log, shutdown' = shutdown
    PROVE  Pending(lockq, conn)
<1>. USE DEF IInv, TypeOK
<1>1. \A j, k \in DOMAIN lockq : lockq[j] = lockq[k] => j = k
  BY DEF Queue, QueuedOnce
<1>2. \A k \in DOMAIN lockq :
        /\ IsCmd(lockq[k]) => /\ lockq[k].id <= Len(log)
                              /\ log[lockq[k].id].op # "DATA"
                              /\ k # 1 => conn[lockq[k].id] = "none"
        /\ lockq[k] = CleanupTask => shutdown
  BY DEF Queue, QueuedKnown, NotEntered
<1>3. \A o \in Object : /\ Waits(lockq, o) <=> IsWaiting(o)
                        /\ Waits(lockq, o) => conn[o] = "active"
  BY DEF Queue, WaitingIsActive, Waits, IsWaiting, IsActive
<1>. QED  BY <1>1, <1>2, <1>3 DEF Pending, ConnState

(* Closing the objects O is such a step. *)
LEMMA CloseStep ==
    ASSUME NEW q, NEW O, IInv, Pending(q, conn)
    PROVE  /\ Pending(CancelRelays(q, O), CloseConn(O))
           /\ Head(CancelRelays(q, O)) = Head(q)
<1>. USE DEF IInv, TypeOK
<1>. DEFINE r == CancelRelays(q, O)
            cn == CloseConn(O)
<1>0. q \in Seq(Task) /\ q # <<>> /\ ~ IsGone(Head(q), O)
  BY DEF Pending, IsGone
<1>3. /\ cn \in [Object -> ConnState]
      /\ \A o \in Object : cn[o] = IF o \in O /\ conn[o] = "active" THEN "closed" ELSE conn[o]
  BY DEF CloseConn, ConnState
<1>. HIDE DEF cn, IInv
<1>1. /\ r \in Seq(Task) /\ r # <<>> /\ Head(r) = Head(q)
      /\ \E f \in [DOMAIN r -> DOMAIN q] :
           /\ \A i \in DOMAIN r : r[i] = q[f[i]] /\ ~ IsGone(r[i], O)
           /\ \A i, j \in DOMAIN r : i # j => f[i] # f[j]
           /\ \A i \in DOMAIN r : i # 1 => f[i] # 1
           /\ \A k \in DOMAIN q : ~ IsGone(q[k], O) => \E i \in DOMAIN r : f[i] = k
  BY <1>0, CancelKeepsOrder
<1>. HIDE DEF r
<1>2. PICK f \in [DOMAIN r -> DOMAIN q] :
        /\ \A i \in DOMAIN r : r[i] = q[f[i]] /\ ~ IsGone(r[i], O)
        /\ \A i, j \in DOMAIN r : i # j => f[i] # f[j]
        /\ \A i \in DOMAIN r : i # 1 => f[i] # 1
        /\ \A k \in DOMAIN q : ~ IsGone(q[k], O) => \E i \in DOMAIN r : f[i] = k
  BY <1>1
<1>4. \A j, k \in DOMAIN r : r[j] = r[k] => j = k
  BY <1>2 DEF Pending
<1>5. \A k \in DOMAIN r :
        /\ IsCmd(r[k]) => /\ r[k].id <= Len(log')
                          /\ log'[r[k].id].op # "DATA"
                          /\ k # 1 => cn[r[k].id] = "none"
        /\ r[k] = CleanupTask => shutdown'
  <2>. SUFFICES ASSUME NEW k \in DOMAIN r
                PROVE  /\ IsCmd(r[k]) => /\ r[k].id <= Len(log')
                                         /\ log'[r[k].id].op # "DATA"
                                         /\ k # 1 => cn[r[k].id] = "none"
                       /\ r[k] = CleanupTask => shutdown'
    OBVIOUS
  <2>1. f[k] \in DOMAIN q /\ r[k] = q[f[k]] /\ (k # 1 => f[k] # 1)
    BY <1>2
  <2>2. r[k] \in Task
    BY <1>1
  <2>3. IsCmd(r[k]) => r[k].id \in Object
    BY <2>2 DEF IsCmd, Task, CmdTask, RelayTask, CleanupTask
  <2>. QED  BY <1>3, <2>1, <2>3 DEF Pending
<1>6. ASSUME NEW o \in Object
      PROVE  /\ Waits(r, o) => Waits(q, o) /\ cn[o] = "active"
             /\ Waits(q, o) /\ cn[o] = "active" => Waits(r, o)
  <2>1. ASSUME NEW k \in DOMAIN r, r[k] = RelayTask(o)
        PROVE  Waits(q, o) /\ cn[o] = "active"
    <3>1. Waits(q, o)
      BY <1>2, <2>1 DEF Waits
    <3>2. conn[o] = "active"
      BY <3>1 DEF Pending
    <3>3. o \notin O
      BY <1>2, <2>1, <3>2 DEF IsGone, RelayTask, IsActive, Object, NoObject
    <3>. QED  BY <1>3, <3>1, <3>2, <3>3
  <2>2. ASSUME NEW k \in DOMAIN q, q[k] = RelayTask(o), cn[o] = "active"
        PROVE  Waits(r, o)
    <3>1. ~ IsGone(q[k], O)
      BY <1>3, <2>2 DEF IsGone, RelayTask, IsActive
    <3>. QED  BY <1>2, <2>2, <3>1 DEF Waits
  <2>. QED  BY <2>1, <2>2 DEF Waits
<1>7. ASSUME NEW o \in Object
      PROVE  /\ Waits(r, o) => cn[o] = "active"
             /\ cn[o] = "active" => conn[o] = "active" /\ (Waits(r, o) <=> IsWaiting(o))
             /\ cn[o] = conn[o] \/ (conn[o] = "active" /\ cn[o] = "closed")
  BY <1>3, <1>6 DEF Pending
<1>8. Head(r).task # "relay"
  BY <1>1 DEF Pending
<1>. QED  BY <1>1, <1>3, <1>4, <1>5, <1>7, <1>8 DEF Pending, r, cn

(* The end of a critical section, or its next suspension: the owner may have
   opened its own connection as well. *)
LEMMA SectionEnds ==
    ASSUME NEW q, NEW cn, IInv, LogGrows, UNCHANGED dataVars, shutdown' \in BOOLEAN,
           Pending(q, cn),
           sessions' \in [Sid -> Object \cup {NoObject}],
           \A s \in Sid : sessions'[s] <= Len(log'),
           conn' \in [Object -> ConnState],
           \A o \in Object :
             \/ conn'[o] = cn[o]
             \/ /\ Head(q) = CmdTask(o) /\ cn[o] \in {"none", "opening"}
                /\ conn'[o] \in {"opening", "active"} /\ log'[o].op \in Connects,
           ActiveIsMapped',
           \/ Leave(q)
           \/ /\ lockq' = q
              /\ phase' \in {"closing_old", "connecting", "closing", "cleaning"}
              /\ OwnerOf'
              /\ phase' = "closing_old" => conn'[Head(q).id] = "none"
    PROVE  IInv'
<1>0. /\ q \in Seq(Task) /\ q # <<>> /\ 1 \in DOMAIN q /\ q[1] = Head(q)
      /\ Len(q) \in Nat /\ DOMAIN q = 1..Len(q)
  BY DEF Pending
<1>1. PICK d \in {0, 1} :
        /\ lockq' \in Seq(Task)
        /\ d = 1 => phase' = "idle"
        /\ d = 0 => phase' # "idle" /\ lockq' = q
        /\ phase' \in {"idle", "closing_old", "connecting", "closing", "cleaning"}
        /\ \A k \in DOMAIN lockq' : k + d \in DOMAIN q /\ k \in Nat \ {0}
                                    /\ lockq'[k] = q[k + d]
        /\ \A k \in DOMAIN q : k > d => k - d \in DOMAIN lockq'
  <2>1. CASE Leave(q)
    <3>1. lockq' = Tail(q) /\ phase' = "idle"
      BY <2>1 DEF Leave
    <3>2. /\ lockq' \in Seq(Task) /\ DOMAIN lockq' = 1..(Len(q) - 1)
          /\ \A k \in 1..(Len(q) - 1) : lockq'[k] = q[k + 1]
      BY <1>0, <3>1
    <3>3. WITNESS 1 \in {0, 1}
    <3>. QED  BY <1>0, <3>1, <3>2
  <2>2. CASE /\ lockq' = q
             /\ phase' \in {"closing_old", "connecting", "closing", "cleaning"}
    <3>1. WITNESS 0 \in {0, 1}
    <3>. QED  BY <1>0, <2>2
  <2>. QED  BY <2>1, <2>2
<1>2. \A o \in Object : Waits(q, o) => IsWaiting(o)'
  <2>. SUFFICES ASSUME NEW o \in Object, NEW k \in DOMAIN q, q[k] = RelayTask(o)
                PROVE  IsWaiting(o)'
    BY DEF Waits
  <2>1. k # 1
    BY <1>0 DEF Pending, RelayTask
  <2>2. k - d \in DOMAIN lockq' /\ lockq'[k - d] = q[k]
    BY <1>0, <1>1, <2>1
  <2>. QED  BY <2>2 DEF IsWaiting
<1>3. \A o \in Object : IsWaiting(o)' => Waits(q, o)
  BY <1>1 DEF IsWaiting, Waits
<1>4. \A o \in Object : Waits(q, o) => conn'[o] = "active"
  BY DEF Pending
<1>5. Turns(conn')
  <2>. SUFFICES ASSUME NEW o \in Object
                PROVE  /\ conn'[o] = "active" =>
                            \/ conn[o] = "active" /\ (IsWaiting(o)' <=> IsWaiting(o))
                            \/ conn[o] \in {"none", "opening"} /\ ~ IsWaiting(o)'
                       /\ conn'[o] \notin {"active", "closed"} =>
                            conn[o] \notin {"active", "closed"}
    BY DEF Turns
  <2>0. /\ Waits(q, o) => cn[o] = "active"
        /\ cn[o] = "active" => conn[o] = "active" /\ (Waits(q, o) <=> IsWaiting(o))
        /\ cn[o] = conn[o] \/ (conn[o] = "active" /\ cn[o] = "closed")
    BY DEF Pending
  <2>1. CASE conn'[o] = cn[o]
    <3>1. cn[o] = "active" => (IsWaiting(o)' <=> IsWaiting(o))
      BY <1>2, <1>3, <2>0
    <3>. QED  BY <2>0, <2>1, <3>1
  <2>2. CASE cn[o] \in {"none", "opening"} /\ conn'[o] \in {"opening", "active"}
    <3>1. ~ IsWaiting(o)'
      BY <1>3, <2>0, <2>2
    <3>. QED  BY <2>0, <2>2, <3>1
  <2>. QED  BY <2>1, <2>2
<1>6. Untouched' /\ NoHole' /\ NoReplyLost'
  BY <1>5, DataKept
<1>7. TypeOK'
  BY <1>1, LogKept DEF IInv, TypeOK, dataVars, ConnState
<1>8. Started'
  <2>1. ASSUME NEW o \in Object, conn'[o] # "none"
        PROVE  o <= Len(log') /\ log'[o].op \in Connects
    <3>1. CASE conn[o] # "none"
      <4>1. o \in 1..Len(log) /\ log[o].op \in Connects
        BY <3>1 DEF IInv, Started, TypeOK, Object
      <4>. QED  BY <4>1, LogKept DEF IInv, TypeOK
    <3>2. CASE Head(q) = CmdTask(o) /\ log'[o].op \in Connects
      BY <1>0, <3>2 DEF Pending, CmdTask, IsCmd
    <3>. QED  BY <2>1, <3>1, <3>2 DEF Pending
  <2>2. ASSUME NEW o \in Object, NEW k \in DOMAIN target[o]
        PROVE  target[o][k] <= Len(log')
    <3>1. target[o][k] \in Nat /\ target[o][k] <= Len(log)
      <4>1. target[o] \in Seq(Object)
        BY DEF IInv, TypeOK
      <4>2. target[o][k] \in Object
        BY <4>1
      <4>. QED  BY <4>2 DEF IInv, Started, Object
    <3>. QED  BY <3>1, LogKept DEF IInv, TypeOK
  <2>. QED  BY <2>1, <2>2 DEF Started, dataVars
<1>9. QueuedOnce'
  <2>. SUFFICES ASSUME NEW j \in DOMAIN lockq', NEW k \in DOMAIN lockq',
                       lockq'[j] = lockq'[k]
                PROVE  j = k
    BY DEF QueuedOnce
  <2>1. j + d = k + d /\ j \in Nat /\ k \in Nat
    BY <1>1 DEF Pending
  <2>. QED  BY <2>1
<1>10. QueuedKnown'
  BY <1>1 DEF QueuedKnown, Pending
<1>11. WaitingIsActive'
  BY <1>3, <1>4 DEF WaitingIsActive, IsActive, Object, NoObject
<1>12. OwnerOf'
  BY <1>1 DEF OwnerOf, Leave
<1>13. NotEntered'
  <2>. SUFFICES ASSUME NEW k \in DOMAIN lockq', IsCmd(lockq'[k]),
                       k # 1 \/ phase' \in {"idle", "closing_old"}
                PROVE  conn'[lockq'[k].id] = "none"
    BY DEF NotEntered
  <2>1. k + d \in DOMAIN q /\ lockq'[k] = q[k + d] /\ k \in Nat \ {0}
    BY <1>1
  <2>2. CASE k + d # 1
    <3>1. cn[q[k + d].id] = "none"
      BY <2>1, <2>2 DEF Pending
    <3>2. q[k + d].id \in Object /\ q[k + d] = CmdTask(q[k + d].id)
      BY <1>0, <2>1 DEF Task, CmdTask, RelayTask, CleanupTask, IsCmd
    <3>3. Head(q) # CmdTask(q[k + d].id)
      BY <1>0, <2>1, <2>2, <3>2 DEF Pending
    <3>. QED  BY <2>1, <3>1, <3>2, <3>3
  <2>3. CASE k + d = 1
    <3>1. k = 1 /\ d = 0 /\ phase' = "closing_old"
      BY <1>1, <2>1, <2>3
    <3>. QED  BY <1>0, <1>1, <3>1 DEF Leave
  <2>. QED  BY <2>2, <2>3
<1>14. Queue'
  BY <1>9, <1>10, <1>11, <1>12, <1>13 DEF Queue
<1>. QED  BY <1>6, <1>7, <1>8, <1>14 DEF IInv
(* A connection that stays open keeps its place in the map. *)
LEMMA MappedKept ==
    ASSUME IInv, LogGrows,
           \A o \in Object : conn'[o] = "active" =>
             conn[o] = "active" /\ sessions'[log[o].sid] = sessions[log[o].sid]
    PROVE  ActiveIsMapped'
<1>. SUFFICES ASSUME NEW o \in Object, conn'[o] = "active"
              PROVE  sessions'[log'[o].sid] = o
  BY DEF ActiveIsMapped
<1>1. conn[o] = "active" /\ sessions[log[o].sid] = o /\ o \in 1..Len(log)
  BY DEF IInv, ActiveIsMapped, Started, Object, TypeOK
<1>2. log'[o] = log[o]
  BY <1>1, LogKept DEF IInv
<1>. QED  BY <1>1, <1>2

(* A CONNECT whose connect fails without a suspension queues behind itself. *)
LEMMA FailsAtOnceKeeps ==
    ASSUME NEW q, NEW cn, NEW i \in Object,
           IInv, LogGrows, UNCHANGED dataVars, shutdown' \in BOOLEAN,
           Pending(q, cn), Head(q) = CmdTask(i),
           log'[i].op \in Connects, i <= Len(log'), cn[i] = "none",
           sessions' \in [Sid -> Object \cup {NoObject}],
           \A s \in Sid : sessions'[s] <= Len(log'),
           ActiveIsMapped',
           FailConnect(i, q, cn)
    PROVE  IInv'
<1>. DEFINE t == CmdTask(i)
<1>1. /\ lockq' = Append(q, t) /\ phase' = "notifying"
      /\ conn' = [cn EXCEPT ![i] = "failed"]
  BY DEF FailConnect, Hold
<1>2. q # <<>> /\ q \in Seq(Task) /\ cn \in [Object -> ConnState]
  BY DEF Pending
<1>3. t \in Task /\ IsCmd(t) /\ t # CleanupTask /\ (\A o \in Object : t # RelayTask(o))
  BY DEF Task, CmdTask, RelayTask, CleanupTask, IsCmd
<1>4. t.id = i
  BY DEF CmdTask
<1>5. /\ conn' \in [Object -> ConnState] /\ conn'[i] = "failed"
      /\ \A o \in Object : o # i => conn'[o] = cn[o]
  BY <1>1, <1>2 DEF ConnState
<1>6. Head(q) = t
  OBVIOUS
<1>. HIDE DEF t
<1>7. /\ lockq' \in Seq(Task) /\ lockq' # <<>> /\ Head(lockq') = t
      /\ DOMAIN q = 1..Len(q) /\ DOMAIN lockq' = 1..(Len(q) + 1)
      /\ \A k \in DOMAIN q : lockq'[k] = q[k]
      /\ lockq'[Len(q) + 1] = t /\ Len(q) \in Nat
      /\ q[1] = t /\ 1 \in DOMAIN q
  <2>1. q \in Seq(Task) /\ t \in Task /\ lockq' = Append(q, t)
    BY <1>1, <1>2, <1>3
  <2>2. /\ lockq' \in Seq(Task) /\ lockq' # <<>> /\ Len(q) \in Nat
        /\ DOMAIN q = 1..Len(q) /\ DOMAIN lockq' = 1..(Len(q) + 1)
        /\ \A k \in DOMAIN q : lockq'[k] = q[k]
        /\ lockq'[Len(q) + 1] = t
        /\ q # <<>> => Head(lockq') = Head(q) /\ Head(q) = q[1] /\ 1 \in DOMAIN q
    <3>. HIDE DEF CmdTask
    <3>. QED  BY ONLY <2>1, AppendFacts
  <2>. QED  BY <1>2, <1>6, <2>2
<1>8. \A k \in DOMAIN lockq' : k \in DOMAIN q \/ k = Len(q) + 1
  BY <1>7
<1>9. \A o \in Object : IsWaiting(o)' <=> Waits(q, o)
  BY <1>3, <1>7, <1>8 DEF IsWaiting, Waits
<1>10. \A o \in Object :
         /\ Waits(q, o) => cn[o] = "active"
         /\ cn[o] = "active" => conn[o] = "active" /\ (Waits(q, o) <=> IsWaiting(o))
         /\ cn[o] = conn[o] \/ (conn[o] = "active" /\ cn[o] = "closed")
  BY DEF Pending
<1>11. Turns(conn')
  BY <1>5, <1>9, <1>10 DEF Turns
<1>12. Untouched' /\ NoHole' /\ NoReplyLost'
  BY <1>11, DataKept
<1>13. TypeOK'
  BY <1>1, <1>5, <1>7, LogKept DEF IInv, TypeOK, dataVars, ConnState
<1>14. Started'
  <2>0. /\ Len(log) \in Nat /\ Len(log') \in Nat /\ Len(log) <= Len(log')
        /\ \A j \in 1..Len(log) : log'[j] = log[j]
    BY LogKept DEF IInv, TypeOK
  <2>1. ASSUME NEW o \in Object, conn'[o] # "none"
        PROVE  o <= Len(log') /\ log'[o].op \in Connects
    <3>1. CASE conn[o] # "none"
      <4>1. o \in 1..Len(log) /\ log[o].op \in Connects
        BY <3>1 DEF IInv, Started, TypeOK, Object
      <4>. QED  BY <2>0, <4>1
    <3>2. CASE o = i
      BY <3>2
    <3>. QED  BY <1>5, <1>10, <2>1, <3>1, <3>2
  <2>2. ASSUME NEW o \in Object, NEW k \in DOMAIN target[o]
        PROVE  target[o][k] <= Len(log')
    <3>1. target[o] \in Seq(Object)
      BY DEF IInv, TypeOK
    <3>2. target[o][k] \in Object
      BY <3>1
    <3>3. target[o][k] \in Nat /\ target[o][k] <= Len(log)
      BY <3>2 DEF IInv, Started, Object
    <3>. QED  BY <2>0, <3>3
  <2>. QED  BY <2>1, <2>2 DEF Started, dataVars
<1>15. QueuedOnce'
  <2>. SUFFICES ASSUME NEW j \in DOMAIN lockq', NEW k \in DOMAIN lockq',
                       lockq'[j] = lockq'[k]
                PROVE  j = k \/ IsCmd(lockq'[j])
    BY <1>1 DEF QueuedOnce
  <2>1. CASE j \in DOMAIN q /\ k \in DOMAIN q
    BY <1>7, <2>1 DEF Pending
  <2>. QED  BY <1>3, <1>7, <1>8, <2>1
<1>16. QueuedKnown'
  <2>. SUFFICES ASSUME NEW k \in DOMAIN lockq'
                PROVE  /\ IsCmd(lockq'[k]) => /\ lockq'[k].id <= Len(log')
                                              /\ log'[lockq'[k].id].op # "DATA"
                       /\ lockq'[k] = CleanupTask => shutdown'
    BY DEF QueuedKnown
  <2>1. \E j \in DOMAIN q : lockq'[k] = q[j]
    BY <1>7, <1>8
  <2>. QED  BY <2>1 DEF Pending
<1>17. WaitingIsActive'
  <2>. SUFFICES ASSUME NEW o \in Object, IsWaiting(o)' PROVE IsActive(o)'
    BY DEF WaitingIsActive
  <2>1. cn[o] = "active" /\ o # NoObject
    BY <1>9, <1>10 DEF Object, NoObject
  <2>. QED  BY <1>5, <2>1 DEF IsActive
<1>18. OwnerOf' /\ NotEntered'
  BY <1>1, <1>3, <1>7 DEF OwnerOf, NotEntered
<1>. QED  BY <1>12, <1>13, <1>14, <1>15, <1>16, <1>17, <1>18 DEF IInv, Queue

(* A CONNECT opens its session; the one before it is closed. *)
LEMMA OpenKeeps ==
    ASSUME NEW q, NEW cn, NEW i \in Object,
           IInv, LogGrows, UNCHANGED dataVars, shutdown' \in BOOLEAN,
           Pending(q, cn), Head(q) = CmdTask(i),
           log'[i].op \in Connects, cn[i] = "none",
           LET old == sessions[log'[i].sid] IN old = NoObject \/ cn[old] # "active",
           OpenSession(i, log'[i], q, cn)
    PROVE  IInv'
<1>. DEFINE sid == log'[i].sid
<1>0. /\ cn \in [Object -> ConnState]
      /\ \A o \in Object : cn[o] = "active" => conn[o] = "active"
      /\ q # <<>> /\ q \in Seq(Task)
  BY DEF Pending
<1>1. i \in 1..Len(log') /\ sid \in Sid /\ log' \in Seq(Command) /\ Len(log') \in Nat
  <2>1. q[1] = CmdTask(i) /\ 1 \in DOMAIN q
    BY <1>0
  <2>2. i <= Len(log')
    BY <2>1 DEF Pending, CmdTask, IsCmd
  <2>3. log' \in Seq(Command) /\ Len(log') \in Nat
    BY LogKept DEF IInv
  <2>4. i \in 1..Len(log')
    BY <2>2, <2>3 DEF Object
  <2>5. log'[i] \in Command
    BY <2>3, <2>4
  <2>. QED  BY <2>3, <2>4, <2>5 DEF Command
<1>2. /\ sessions' = [sessions EXCEPT ![sid] = i]
      /\ conn' \in [Object -> ConnState]
      /\ conn'[i] \in {"opening", "active", "failed"}
      /\ \A o \in Object : o # i => conn'[o] = cn[o]
  BY <1>0 DEF OpenSession, FailConnect, ConnState
<1>3. /\ sessions' \in [Sid -> Object \cup {NoObject}]
      /\ \A s \in Sid : sessions'[s] <= Len(log')
  <2>1. \A s \in Sid : sessions[s] \in Nat /\ sessions[s] <= Len(log)
    BY DEF IInv, TypeOK, Started, Object, NoObject
  <2>2. \A s \in Sid : sessions[s] <= Len(log')
    BY <2>1, LogKept DEF IInv, TypeOK
  <2>. QED  BY <1>1, <1>2, <2>2 DEF IInv, TypeOK
<1>4. ActiveIsMapped'
  <2>. SUFFICES ASSUME NEW o \in Object, conn'[o] = "active"
                PROVE  sessions'[log'[o].sid] = o
    BY DEF ActiveIsMapped
  <2>1. CASE o = i
    BY <1>1, <1>2, <2>1 DEF IInv, TypeOK
  <2>2. CASE o # i
    <3>1. cn[o] = "active" /\ conn[o] = "active"
      BY <1>0, <1>2, <2>2
    <3>2. sessions[log[o].sid] = o /\ o \in 1..Len(log)
      BY <3>1 DEF IInv, ActiveIsMapped, Started, Object, TypeOK
    <3>3. log'[o] = log[o]
      BY <3>2, LogKept DEF IInv
    <3>4. log[o].sid # sid
      BY <3>1, <3>2 DEF Object, NoObject
    <3>5. log[o].sid \in Sid
      <4>1. log[o] \in Command
        BY <3>2 DEF IInv, TypeOK
      <4>. QED  BY <4>1 DEF Command
    <3>. QED  BY <1>2, <3>2, <3>3, <3>4, <3>5 DEF IInv, TypeOK
  <2>. QED  BY <2>1, <2>2
<1>5. \/ Leave(q) /\ conn'[i] = "active"
      \/ /\ lockq' = q /\ phase' = "connecting" /\ conn'[i] = "opening"
      \/ FailConnect(i, q, cn)
  BY <1>0 DEF OpenSession, Hold
<1>6. lockq' = q /\ phase' = "connecting" /\ conn'[i] = "opening" => OwnerOf'
  <2>1. sessions'[sid] = i
    BY <1>1, <1>2 DEF IInv, TypeOK
  <2>. QED  BY <1>0, <2>1 DEF OwnerOf, CmdTask, IsCmd
<1>7. CASE FailConnect(i, q, cn)
  BY <1>1, <1>3, <1>4, <1>7, FailsAtOnceKeeps
<1>8. CASE ~ FailConnect(i, q, cn)
  <2>1. \A o \in Object :
          \/ conn'[o] = cn[o]
          \/ /\ Head(q) = CmdTask(o) /\ cn[o] \in {"none", "opening"}
             /\ conn'[o] \in {"opening", "active"} /\ log'[o].op \in Connects
    BY <1>2, <1>5, <1>8
  <2>. QED  BY <1>2, <1>3, <1>4, <1>5, <1>6, <1>8, <2>1, SectionEnds
<1>. QED  BY <1>7, <1>8

(* A command enters its critical section. *)
LEMMA EnterCmdKeeps ==
    ASSUME NEW q, NEW i \in Object,
           IInv, LogGrows, UNCHANGED dataVars, shutdown' \in BOOLEAN,
           Pending(q, conn), Head(q) = CmdTask(i), conn[i] = "none",
           EnterCmd(i, log'[i], q)
    PROVE  IInv'
<1>. DEFINE sid == log'[i].sid
            old == sessions[sid]
            rest == CancelRelays(q, {old})
            cn == CloseConn({old})
<1>0. q # <<>> /\ q \in Seq(Task)
  BY DEF Pending
<1>1. i \in 1..Len(log') /\ sid \in Sid
  <2>1. q[1] = CmdTask(i) /\ 1 \in DOMAIN q
    BY <1>0
  <2>2. i <= Len(log')
    BY <2>1 DEF Pending, CmdTask, IsCmd
  <2>3. log' \in Seq(Command) /\ Len(log') \in Nat
    BY LogKept DEF IInv
  <2>4. i \in 1..Len(log')
    BY <2>2, <2>3 DEF Object
  <2>5. log'[i] \in Command
    BY <2>3, <2>4
  <2>. QED  BY <2>3, <2>4, <2>5 DEF Command
<1>2. Pending(rest, cn) /\ Head(rest) = CmdTask(i)
  BY CloseStep
<1>3. /\ cn \in [Object -> ConnState]
      /\ \A o \in Object : cn[o] = "active" => conn[o] = "active" /\ o # old
      /\ cn[i] = "none"
  BY DEF CloseConn, ConnState, IInv, TypeOK
<1>4. old \in Object \cup {NoObject} /\ (old # NoObject => cn[old] # "active")
  BY <1>1, <1>3 DEF IInv, TypeOK
<1>5. \A s \in Sid : sessions[s] \in Nat /\ sessions[s] <= Len(log')
  <2>1. \A s \in Sid : sessions[s] \in Nat /\ sessions[s] <= Len(log)
    BY DEF IInv, TypeOK, Started, Object, NoObject
  <2>. QED  BY <2>1, LogKept DEF IInv, TypeOK
<1>. HIDE DEF cn, rest
<1>6. CASE log'[i].op \in Connects /\ EnterConnect(i, log'[i], q)
  <2>1. CASE conn' = cn /\ Hold(rest, "closing_old") /\ UNCHANGED sessions
    <3>1. ActiveIsMapped'
      BY <1>3, <2>1, MappedKept
    <3>2. OwnerOf'
      <4>1. Head(lockq') = CmdTask(i) /\ phase' = "closing_old" /\ lockq' # <<>>
        BY <1>2, <2>1 DEF Hold, Pending
      <4>2. sessions'[sid] = NoObject \/ conn'[sessions'[sid]] # "active"
        BY <1>4, <2>1
      <4>. QED  BY <1>6, <2>1, <4>1, <4>2 DEF OwnerOf, CmdTask, IsCmd, IsActive
    <3>3. lockq' = rest /\ phase' = "closing_old" /\ conn'[Head(rest).id] = "none"
      BY <1>2, <1>3, <2>1 DEF Hold, CmdTask
    <3>4. sessions' \in [Sid -> Object \cup {NoObject}]
      BY <2>1 DEF IInv, TypeOK
    <3>. QED  BY <1>2, <1>3, <1>5, <2>1, <3>1, <3>2, <3>3, <3>4, SectionEnds
  <2>2. CASE OpenSession(i, log'[i], rest, cn)
    BY <1>2, <1>3, <1>4, <1>6, <2>2, OpenKeeps
  <2>. QED  BY <1>6, <2>1, <2>2 DEF EnterConnect, cn, rest
<1>7. CASE log'[i].op = "CLOSE" /\ EnterClose(log'[i], q)
  <2>1. /\ sessions' = [sessions EXCEPT ![sid] = NoObject]
        /\ conn' = cn
        /\ Hold(rest, "closing") \/ Leave(rest)
    BY <1>7 DEF EnterClose, cn, rest
  <2>2. /\ sessions' \in [Sid -> Object \cup {NoObject}]
        /\ \A s \in Sid : sessions'[s] <= Len(log')
    <3>1. Len(log') \in Nat
      BY LogKept DEF IInv
    <3>. QED  BY <1>1, <1>5, <2>1, <3>1 DEF IInv, TypeOK, NoObject
  <2>3. ActiveIsMapped'
    <3>1. ASSUME NEW o \in Object, conn'[o] = "active"
          PROVE  conn[o] = "active" /\ sessions'[log[o].sid] = sessions[log[o].sid]
      <4>1. conn[o] = "active" /\ o # old
        BY <1>3, <2>1, <3>1
      <4>2. sessions[log[o].sid] = o
        BY <4>1 DEF IInv, ActiveIsMapped
      <4>3. log[o].sid # sid
        BY <4>1, <4>2
      <4>. QED  BY <2>1, <4>1, <4>3 DEF IInv, TypeOK
    <3>. QED  BY <3>1, MappedKept
  <2>4. Hold(rest, "closing") =>
          lockq' = rest /\ phase' = "closing" /\ OwnerOf'
    BY <1>2 DEF Hold, OwnerOf, Pending, CmdTask, IsCmd
  <2>. QED  BY <1>2, <1>3, <2>1, <2>2, <2>3, <2>4, SectionEnds
<1>. QED  BY <1>6, <1>7 DEF EnterCmd
(* cleanup enters, or goes on after a stream. *)
LEMMA EnterCleanupKeeps ==
    ASSUME NEW q, IInv, log' = log, UNCHANGED dataVars, shutdown' \in BOOLEAN,
           Pending(q, conn), Head(q) = CleanupTask, EnterCleanup(q)
    PROVE  IInv'
<1>. DEFINE open == {o \in Object : IsActive(o) /\ sessions[log[o].sid] = o}
            tcp == {o \in open : IsTcp(o)}
<1>0. LogGrows
  BY DEF LogGrows
<1>1. \A O : /\ CloseConn(O) \in [Object -> ConnState]
             /\ \A o \in Object : CloseConn(O)[o] = "active" =>
                  conn[o] = "active" /\ o \notin O
  BY DEF CloseConn, ConnState, IInv, TypeOK
<1>2. \A s \in Sid : sessions[s] <= Len(log')
  BY DEF IInv, Started
<1>3. ASSUME NEW o \in tcp, NEW U \in SUBSET (open \ tcp),
             conn' = CloseConn({o} \cup U),
             Hold(CancelRelays(q, {o} \cup U), "cleaning"),
             UNCHANGED sessions
      PROVE  IInv'
  <2>. DEFINE O == {o} \cup U
              rest == CancelRelays(q, O)
              cn == CloseConn(O)
  <2>1. Pending(rest, cn) /\ Head(rest) = CleanupTask
    BY CloseStep
  <2>2. cn \in [Object -> ConnState] /\ conn' = cn
    BY <1>1, <1>3
  <2>3. ActiveIsMapped'
    BY <1>0, <1>1, <1>3, MappedKept
  <2>. HIDE DEF cn, rest
  <2>4. lockq' = rest /\ phase' = "cleaning" /\ OwnerOf'
    BY <1>3, <2>1 DEF Hold, OwnerOf, Pending, rest
  <2>5. sessions' \in [Sid -> Object \cup {NoObject}] /\ sessions' = sessions
    BY <1>3 DEF IInv, TypeOK
  <2>. QED  BY <1>0, <1>2, <2>1, <2>2, <2>3, <2>4, <2>5, SectionEnds
<1>4. CASE /\ conn' = CloseConn(open)
           /\ sessions' = [s \in Sid |-> NoObject]
           /\ Leave(CancelRelays(q, open))
  <2>. DEFINE rest == CancelRelays(q, open)
              cn == CloseConn(open)
  <2>1. Pending(rest, cn)
    BY CloseStep
  <2>2. cn \in [Object -> ConnState] /\ conn' = cn
    BY <1>1, <1>4
  <2>3. \A o \in Object : conn'[o] # "active"
    BY <1>1, <1>4 DEF IInv, ActiveIsMapped, IsActive, Object, NoObject
  <2>4. ActiveIsMapped'
    BY <2>3 DEF ActiveIsMapped
  <2>5. /\ sessions' \in [Sid -> Object \cup {NoObject}]
        /\ \A s \in Sid : sessions'[s] <= Len(log')
    BY <1>4 DEF NoObject, IInv, TypeOK
  <2>. HIDE DEF cn, rest
  <2>6. Leave(rest)
    BY <1>4 DEF rest
  <2>. QED  BY <1>0, <2>1, <2>2, <2>4, <2>5, <2>6, SectionEnds
<1>. QED  BY <1>3, <1>4 DEF EnterCleanup

(* A task that finds the lock free has the queue to itself. *)
LEMMA PendingAlone ==
    ASSUME NEW t \in Task, IInv, lockq = <<>>, t.task # "relay",
           IsCmd(t) => t.id <= Len(log') /\ log'[t.id].op # "DATA",
           t = CleanupTask => shutdown'
    PROVE  Pending(<<t>>, conn) /\ Head(<<t>>) = t
<1>1. /\ <<t>> \in Seq(Task) /\ DOMAIN <<t>> = {1} /\ <<t>>[1] = t /\ Head(<<t>>) = t
      /\ <<t>> # <<>>
  OBVIOUS
<1>2. \A o \in Object : ~ IsWaiting(o) /\ ~ Waits(<<t>>, o)
  BY <1>1 DEF IsWaiting, Waits, RelayTask
<1>. QED  BY <1>1, <1>2 DEF Pending, IInv, TypeOK, ConnState

----------------------------------------------------------------------------
(* Tasks that wait behind others. *)

(* The queue stays in order when a task that was not in it joins it. *)
LEMMA JoinKeepsQueue ==
    ASSUME NEW t \in Task, IInv, LogGrows, lockq # <<>>,
           lockq' = Append(lockq, t), UNCHANGED <<phase, objVars>>,
           \A k \in DOMAIN lockq : lockq[k] # t,
           shutdown => shutdown',
           IsCmd(t) => /\ t.id <= Len(log') /\ log'[t.id].op # "DATA"
                       /\ conn[t.id] = "none",
           t = CleanupTask => shutdown',
           t.task = "relay" => IsActive(t.id)
    PROVE  Queue' /\ \A o \in Object : t # RelayTask(o) => (IsWaiting(o)' <=> IsWaiting(o))
<1>. USE DEF IInv, TypeOK
<1>0. /\ Len(lockq) \in Nat /\ DOMAIN lockq = 1..Len(lockq)
      /\ DOMAIN lockq' = 1..(Len(lockq) + 1)
      /\ \A k \in DOMAIN lockq : lockq'[k] = lockq[k] /\ lockq[k] \in Task
      /\ lockq'[Len(lockq) + 1] = t
      /\ Head(lockq') = Head(lockq) /\ Head(lockq) = lockq[1] /\ 1 \in DOMAIN lockq
      /\ lockq' # <<>>
  BY AppendFacts
<1>00. \A k \in DOMAIN lockq' : k \in DOMAIN lockq \/ k = Len(lockq) + 1
  BY <1>0
<1>01. phase' = phase /\ sessions' = sessions /\ conn' = conn
  BY DEF objVars
<1>1. \A k \in DOMAIN lockq : IsCmd(lockq[k]) =>
        lockq[k].id \in 1..Len(log) /\ log'[lockq[k].id] = log[lockq[k].id]
  <2>. SUFFICES ASSUME NEW k \in DOMAIN lockq, IsCmd(lockq[k])
                PROVE  lockq[k].id \in 1..Len(log) /\ log'[lockq[k].id] = log[lockq[k].id]
    OBVIOUS
  <2>1. lockq[k].id \in Object /\ lockq[k].id <= Len(log)
    BY <1>0 DEF Queue, QueuedKnown, Task, CmdTask, RelayTask, CleanupTask, IsCmd
  <2>2. lockq[k].id \in 1..Len(log)
    BY <2>1 DEF Object
  <2>. QED  BY <2>2, LogKept
<1>2. QueuedOnce'
  <2>. SUFFICES ASSUME NEW j \in DOMAIN lockq', NEW k \in DOMAIN lockq',
                       lockq'[j] = lockq'[k]
                PROVE  j = k \/ (phase = "notifying" /\ IsCmd(lockq'[j]))
    BY <1>01 DEF QueuedOnce
  <2>. QED  BY <1>0, <1>00 DEF Queue, QueuedOnce
<1>3. QueuedKnown'
  <2>. SUFFICES ASSUME NEW k \in DOMAIN lockq'
                PROVE  /\ IsCmd(lockq'[k]) => /\ lockq'[k].id <= Len(log')
                                              /\ log'[lockq'[k].id].op # "DATA"
                       /\ lockq'[k] = CleanupTask => shutdown'
    BY DEF QueuedKnown
  <2>1. CASE k \in DOMAIN lockq
    <3>1. IsCmd(lockq[k]) => lockq[k].id <= Len(log')
      BY <1>1, <2>1, LogKept
    <3>. QED  BY <1>0, <1>1, <2>1, <3>1, ZenonT(60) DEF Queue, QueuedKnown
  <2>. QED  BY <1>0, <1>00, <2>1
<1>4. ASSUME NEW o \in Object
      PROVE  /\ IsWaiting(o) => IsWaiting(o)'
             /\ IsWaiting(o)' => IsWaiting(o) \/ t = RelayTask(o)
  BY <1>0, <1>00 DEF IsWaiting
<1>5. WaitingIsActive'
  <2>. SUFFICES ASSUME NEW o \in Object, IsWaiting(o)' PROVE IsActive(o)
    BY <1>01 DEF WaitingIsActive, IsActive
  <2>. QED  BY <1>4 DEF Queue, WaitingIsActive, RelayTask
<1>6. OwnerOf'
  <2>1. OwnerOf
    BY DEF Queue
  <2>2. IsCmd(Head(lockq)) => log'[Head(lockq).id] = log[Head(lockq).id]
    BY <1>0, <1>1
  <2>. QED  BY <1>0, <1>01, <2>1, <2>2 DEF OwnerOf, IsActive
<1>7. NotEntered'
  <2>. SUFFICES ASSUME phase # "notifying", NEW k \in DOMAIN lockq', IsCmd(lockq'[k]),
                       k # 1 \/ phase \in {"idle", "closing_old"}
                PROVE  conn[lockq'[k].id] = "none"
    BY <1>01 DEF NotEntered
  <2>. QED  BY <1>0, <1>00 DEF Queue, NotEntered
<1>8. ASSUME NEW o \in Object, t # RelayTask(o) PROVE IsWaiting(o)' <=> IsWaiting(o)
  BY <1>4, <1>8
<1>. QED  BY <1>2, <1>3, <1>5, <1>6, <1>7, <1>8 DEF Queue
(* The queue stays in order when only commands without the lock start. *)
LEMMA IdleKeepsQueue ==
    ASSUME IInv, UNCHANGED <<lockVars, objVars>>, shutdown => shutdown',
           Len(log') \in Nat, Len(log) <= Len(log'),
           \A i \in 1..Len(log) : log'[i] = log[i]
    PROVE  Queue' /\ \A o \in Object : IsWaiting(o)' <=> IsWaiting(o)
<1>. USE DEF IInv, TypeOK
<1>01. lockq' = lockq /\ phase' = phase /\ sessions' = sessions /\ conn' = conn
  BY DEF objVars, lockVars
<1>1. \A k \in DOMAIN lockq : IsCmd(lockq[k]) =>
        lockq[k].id \in 1..Len(log) /\ log'[lockq[k].id] = log[lockq[k].id]
  <2>. SUFFICES ASSUME NEW k \in DOMAIN lockq, IsCmd(lockq[k])
                PROVE  lockq[k].id \in 1..Len(log) /\ log'[lockq[k].id] = log[lockq[k].id]
    OBVIOUS
  <2>0. lockq[k] \in Task
    OBVIOUS
  <2>1. lockq[k].id \in Object /\ lockq[k].id <= Len(log)
    BY <2>0 DEF Queue, QueuedKnown, Task, CmdTask, RelayTask, CleanupTask, IsCmd
  <2>2. lockq[k].id \in 1..Len(log)
    BY <2>1 DEF Object
  <2>. QED  BY <2>2
<1>2. QueuedOnce' /\ WaitingIsActive' /\ NotEntered'
  <2>1. QueuedOnce /\ WaitingIsActive /\ NotEntered
    BY DEF Queue
  <2>2. QueuedOnce'
    BY <1>01, <2>1 DEF QueuedOnce
  <2>3. WaitingIsActive'
    BY <1>01, <2>1 DEF WaitingIsActive, IsWaiting, IsActive
  <2>4. NotEntered'
    BY <1>01, <2>1 DEF NotEntered
  <2>. QED  BY <2>2, <2>3, <2>4
<1>3. QueuedKnown'
  <2>. SUFFICES ASSUME NEW k \in DOMAIN lockq
                PROVE  /\ IsCmd(lockq[k]) => /\ lockq[k].id <= Len(log')
                                             /\ log'[lockq[k].id].op # "DATA"
                       /\ lockq[k] = CleanupTask => shutdown'
    BY <1>01 DEF QueuedKnown
  <2>1. IsCmd(lockq[k]) => lockq[k].id <= Len(log')
    BY <1>1
  <2>. QED  BY <1>1, <2>1 DEF Queue, QueuedKnown
<1>4. OwnerOf'
  <2>1. OwnerOf
    BY DEF Queue
  <2>2. lockq # <<>> => 1 \in DOMAIN lockq /\ lockq[1] = Head(lockq)
    OBVIOUS
  <2>3. lockq # <<>> /\ IsCmd(Head(lockq)) => log'[Head(lockq).id] = log[Head(lockq).id]
    BY <1>1, <2>2
  <2>. QED  BY <1>01, <2>1, <2>3 DEF OwnerOf, IsActive
<1>5. \A o \in Object : IsWaiting(o)' <=> IsWaiting(o)
  BY <1>01 DEF IsWaiting
<1>. QED  BY <1>2, <1>3, <1>4, <1>5 DEF Queue

----------------------------------------------------------------------------
(* The actions. *)

(* At first. *)
LEMMA InitIInv == Init => IInv
<1>. SUFFICES ASSUME Init PROVE IInv
  OBVIOUS
<1>. USE RouterAssumption DEF Init
<1>1. TypeOK
  <2>1. /\ log \in Seq(Command) /\ Len(log) = 0 /\ lockq \in Seq(Task)
        /\ toClient \in Seq([seq : Nat, obj : Object, n : 1..MaxReplies])
    OBVIOUS
  <2>2. /\ sessions \in [Sid -> Object \cup {NoObject}]
        /\ conn \in [Object -> {"none", "opening", "active", "closed", "failed"}]
        /\ shutdown \in BOOLEAN
    OBVIOUS
  <2>3. target \in [Object -> Seq(Object)]
    OBVIOUS
  <2>4. 0 \in 0..MaxReplies
    OBVIOUS
  <2>5. reads \in [Object -> 0..MaxReplies]
    BY <2>4
  <2>. QED  BY <2>1, <2>2, <2>3, <2>5 DEF TypeOK
<1>2. Queue
  BY DEF Queue, QueuedOnce, QueuedKnown, WaitingIsActive, OwnerOf, NotEntered, IsWaiting
<1>3. Started /\ Untouched /\ ActiveIsMapped /\ NoHole
  BY DEF Started, Untouched, ActiveIsMapped, NoHole, IsActive, NoObject
<1>4. NoReplyLost
  <2>1. DOMAIN toClient = {} /\ \A o \in Object : ~ IsActive(o)
    BY DEF IsActive
  <2>. QED  BY <2>1 DEF NoReplyLost
<1>. QED  BY <1>1, <1>2, <1>3, <1>4 DEF IInv

(* A DATA reaches the connection the map holds, if it is open. *)
LEMMA StartDataKeeps ==
    ASSUME NEW sid \in Sid, IInv, StartData(sid)
    PROVE  IInv'
<1>. DEFINE c == [op |-> "DATA", sid |-> sid]
            n == Len(log) + 1
            x == sessions[sid]
<1>0. /\ lockq' = lockq /\ phase' = phase /\ sessions' = sessions /\ conn' = conn
      /\ reads' = reads /\ toClient' = toClient /\ shutdown' = shutdown
      /\ log' = Append(log, c) /\ Len(log) < MaxCmds
      /\ target' = IF IsActive(x)
                   THEN [target EXCEPT ![x] = Append(@, Len(log'))] ELSE target
  BY DEF StartData, Starts, lockVars, objVars
<1>00. /\ log \in Seq(Command) /\ target \in [Object -> Seq(Object)]
       /\ sessions \in [Sid -> Object \cup {NoObject}] /\ Len(log) \in Nat
       /\ TypeOK /\ Started /\ Untouched /\ ActiveIsMapped /\ NoHole /\ NoReplyLost
  BY DEF IInv, TypeOK
<1>1. c \in Command
  BY DEF Command, Op
<1>2. /\ log' \in Seq(Command) /\ Len(log) \in Nat /\ Len(log') = n
      /\ \A i \in 1..Len(log) : log'[i] = log[i]
      /\ log'[n] = c
  BY <1>0, <1>00, <1>1, AppendFacts
<1>3. n \in Object /\ x \in Object \cup {NoObject} /\ Len(log') = n
  BY <1>0, <1>00, <1>2, RouterAssumption DEF Object
<1>. HIDE DEF c
<1>4. ASSUME NEW o \in Object
      PROVE  /\ target[o] \in Seq(Object) /\ target'[o] \in Seq(Object)
             /\ Len(target[o]) \in Nat
             /\ DOMAIN target[o] = 1..Len(target[o])
             /\ \A k \in DOMAIN target[o] : /\ target[o][k] \in Object
                                            /\ target[o][k] <= Len(log)
                                            /\ k \in DOMAIN target'[o]
                                            /\ target'[o][k] = target[o][k]
             /\ \A k \in DOMAIN target'[o] :
                  k \in DOMAIN target[o] \/ target'[o][k] = n
             /\ x = o /\ IsActive(o) => \E k \in DOMAIN target'[o] : target'[o][k] = n
             /\ ~ (x = o /\ IsActive(o)) => target'[o] = target[o]
  <2>1. target[o] \in Seq(Object)
    BY <1>00
  <2>2. \A k \in DOMAIN target[o] : target[o][k] \in Object /\ target[o][k] <= Len(log)
    BY <1>00, <2>1 DEF Started
  <2>3. CASE x = o /\ IsActive(o)
    <3>1. target'[o] = Append(target[o], n)
      BY <1>0, <1>00, <1>3, <2>3
    <3>2. /\ target'[o] \in Seq(Object) /\ Len(target[o]) \in Nat
          /\ DOMAIN target[o] = 1..Len(target[o])
          /\ DOMAIN target'[o] = 1..(Len(target[o]) + 1)
          /\ \A k \in DOMAIN target[o] : target'[o][k] = target[o][k]
          /\ target'[o][Len(target[o]) + 1] = n
      BY <1>3, <2>1, <3>1, AppendFacts
    <3>3. \A k \in DOMAIN target'[o] : k \in DOMAIN target[o] \/ k = Len(target[o]) + 1
      BY <3>2
    <3>4. Len(target[o]) + 1 \in DOMAIN target'[o]
      BY <3>2
    <3>. HIDE DEF n, x
    <3>. QED  BY <2>1, <2>2, <2>3, <3>2, <3>3, <3>4
  <2>4. CASE ~ (x = o /\ IsActive(o))
    <3>1. target'[o] = target[o]
      BY <1>0, <1>00, <1>3, <2>4
    <3>2. Len(target[o]) \in Nat /\ DOMAIN target[o] = 1..Len(target[o])
      BY <2>1
    <3>. QED  BY <2>1, <2>2, <2>4, <3>1, <3>2
  <2>. QED  BY <2>3, <2>4
<1>5. TypeOK'
  <2>1. target' \in [Object -> Seq(Object)]
    <3>1. target' = [o \in Object |-> target'[o]]
      BY <1>0, <1>00
    <3>. QED  BY <1>4, <3>1
  <2>. QED  BY <1>0, <1>00, <1>2, <2>1, RouterAssumption DEF TypeOK
<1>6. Queue' /\ \A o \in Object : IsWaiting(o)' <=> IsWaiting(o)
  <2>1. UNCHANGED <<lockVars, objVars>> /\ (shutdown => shutdown')
    BY <1>0 DEF lockVars, objVars
  <2>2. Len(log') \in Nat /\ Len(log) <= Len(log')
    BY <1>2
  <2>. QED  BY <1>2, <2>1, <2>2, IdleKeepsQueue
<1>7. ASSUME NEW o \in Object, conn[o] # "none"
      PROVE  o \in 1..Len(log) /\ log'[o] = log[o] /\ log[o].op \in Connects
  <2>1. o \in 1..Len(log) /\ log[o].op \in Connects
    BY <1>00, <1>7 DEF Started, Object
  <2>. QED  BY <1>2, <2>1
<1>8. Started'
  <2>1. \A s \in Sid : sessions[s] \in Nat /\ sessions[s] <= Len(log)
    BY <1>00 DEF Started, Object, NoObject
  <2>2. \A o \in Object : \A k \in DOMAIN target'[o] : target'[o][k] <= Len(log')
    <3>1. ASSUME NEW o \in Object, NEW k \in DOMAIN target'[o]
          PROVE  target'[o][k] <= Len(log')
      <4>1. CASE k \in DOMAIN target[o]
        <5>1. target'[o][k] = target[o][k] /\ target[o][k] \in Nat /\ target[o][k] <= Len(log)
          BY <1>4, <4>1 DEF Object
        <5>. QED  BY <1>00, <1>2, <5>1
      <4>2. CASE target'[o][k] = n
        BY <1>00, <1>2, <4>2
      <4>. QED  BY <1>4, <4>1, <4>2
    <3>. QED  BY <3>1
  <2>3. \A s \in Sid : sessions[s] <= Len(log')
    BY <1>2, <2>1
  <2>4. \A o \in Object : conn[o] # "none" => o <= Len(log') /\ log'[o].op \in Connects
    BY <1>2, <1>7
  <2>. QED  BY <1>0, <2>2, <2>3, <2>4 DEF Started
<1>9. Untouched'
  <2>1. ASSUME NEW o \in Object, conn[o] \notin {"active", "closed"}
        PROVE  target'[o] = target[o]
    BY <1>4, <2>1 DEF IsActive
  <2>. QED  BY <1>0, <1>00, <2>1 DEF Untouched
<1>10. ActiveIsMapped'
  BY <1>0, <1>00, <1>7 DEF ActiveIsMapped
<1>11. NoHole'
  <2>. SUFFICES ASSUME NEW o \in Object, IsActive(o),
                       NEW k \in DOMAIN target'[o],
                       NEW i \in (target'[o][k] + 1)..Len(log'),
                       log'[i] = [op |-> "DATA", sid |-> log'[o].sid]
                PROVE  \E m \in DOMAIN target'[o] : target'[o][m] = i
    BY <1>0 DEF NoHole, IsActive
  <2>1. log'[o] = log[o] /\ sessions[log[o].sid] = o
    BY <1>00, <1>7 DEF IsActive, ActiveIsMapped
  <2>2. target'[o][k] \in Nat
    <3>1. target'[o] \in Seq(Object)
      BY <1>4
    <3>2. target'[o][k] \in Object
      BY <3>1
    <3>. QED  BY <3>2 DEF Object
  <2>3. CASE i = n
    <3>1. log[o].sid = sid
      BY <1>2, <2>1, <2>3 DEF c
    <3>. QED  BY <1>4, <2>1, <2>3, <3>1
  <2>4. CASE i # n
    <3>1. i \in (target'[o][k] + 1)..Len(log) /\ i \in 1..Len(log)
      BY <1>00, <1>2, <2>2, <2>4
    <3>2. k \in DOMAIN target[o] /\ target'[o][k] = target[o][k]
      <4>1. target'[o][k] # n
        BY <1>00, <2>2, <3>1
      <4>. QED  BY <1>4, <4>1
    <3>3. log[i] = [op |-> "DATA", sid |-> log[o].sid]
      BY <1>2, <2>1, <3>1
    <3>4. PICK m \in DOMAIN target[o] : target[o][m] = i
      BY <1>00, <3>1, <3>2, <3>3 DEF NoHole
    <3>. QED  BY <1>4, <3>4
  <2>. QED  BY <2>3, <2>4
<1>12. NoReplyLost'
  <2>1. \A o, k : Sent(o, k)' = Sent(o, k)
    BY <1>0 DEF Sent
  <2>2. \A o \in Object : IsActive(o)' <=> IsActive(o)
    BY <1>0 DEF IsActive
  <2>. QED  BY <1>0, <1>00, <1>6, <2>1, <2>2 DEF NoReplyLost
<1>. QED  BY <1>5, <1>6, <1>8, <1>9, <1>10, <1>11, <1>12 DEF IInv
(* A command that takes the lock starts. *)
LEMMA StartLockedKeeps ==
    ASSUME NEW op \in Op, NEW sid \in Sid, IInv, StartLocked(op, sid)
    PROVE  IInv'
<1>. DEFINE c == [op |-> op, sid |-> sid]
            i == Len(log')
            t == CmdTask(i)
<1>1. c \in Command /\ c.op # "DATA"
  BY DEF Command, StartLocked
<1>2. /\ Len(log) < MaxCmds /\ log' = Append(log, c)
      /\ UNCHANGED <<dataVars, shutdown>>
  BY DEF StartLocked, Starts
<1>3. LogGrows
  BY <1>1, <1>2 DEF LogGrows
<1>4. /\ i = Len(log) + 1 /\ log'[i] = c /\ Len(log) \in Nat
      /\ log' \in Seq(Command) /\ log \in Seq(Command)
  BY <1>1, <1>2, AppendFacts DEF IInv, TypeOK
<1>5. i \in Object /\ t \in Task /\ t.task = "cmd" /\ t.id = i
  BY <1>2, <1>4, RouterAssumption DEF Object, Task, CmdTask
<1>6. conn[i] = "none"
  BY <1>4, <1>5 DEF IInv, Started
<1>7. t # CleanupTask /\ IsCmd(t) /\ \A o : t # RelayTask(o)
  BY <1>5 DEF CleanupTask, RelayTask, IsCmd
<1>8. shutdown' \in BOOLEAN /\ (shutdown => shutdown')
  BY <1>2 DEF IInv, TypeOK
<1>9. CASE lockq = <<>> /\ EnterCmd(i, log'[i], <<t>>)
  <2>1. Pending(<<t>>, conn) /\ Head(<<t>>) = t
    BY <1>1, <1>4, <1>5, <1>7, <1>9, PendingAlone
  <2>. QED  BY <1>2, <1>3, <1>5, <1>6, <1>8, <1>9, <2>1, EnterCmdKeeps
<1>10. CASE lockq # <<>> /\ lockq' = Append(lockq, t) /\ UNCHANGED <<phase, objVars>>
  <2>1. ASSUME NEW k \in DOMAIN lockq, lockq[k] = t PROVE FALSE
    <3>1. lockq[k].id <= Len(log)
      BY <1>7, <2>1 DEF IInv, Queue, QueuedKnown
    <3>. QED  BY <1>4, <1>5, <2>1, <3>1
  <2>2. Queue' /\ \A o \in Object : IsWaiting(o)' <=> IsWaiting(o)
    <3>. HIDE DEF t
    <3>1. i <= Len(log')
      BY <1>4
    <3>. QED  BY <1>1, <1>3, <1>4, <1>5, <1>6, <1>7, <1>8, <1>10, <2>1, <3>1, JoinKeepsQueue
  <2>3. UNCHANGED <<phase, sessions, conn>>
    BY <1>10 DEF objVars
  <2>4. Turns(conn')
    BY <2>2, <2>3 DEF Turns
  <2>5. Untouched' /\ NoHole' /\ NoReplyLost'
    BY <1>2, <1>3, <2>4, DataKept
  <2>6. lockq' \in Seq(Task)
    BY <1>5, <1>10 DEF IInv, TypeOK
  <2>7. TypeOK'
    BY <1>2, <1>3, <1>8, <2>3, <2>6, LogKept DEF IInv, TypeOK, dataVars
  <2>8. ActiveIsMapped'
    BY <1>3, <2>3, MappedKept
  <2>9. Started'
    BY <1>2, <1>3, <2>3, StartedKept
  <2>. QED  BY <2>2, <2>5, <2>7, <2>8, <2>9 DEF IInv
<1>. QED  BY <1>9, <1>10 DEF StartLocked

(* cleanup is called. *)
LEMMA ShutdownKeeps ==
    ASSUME IInv, Shutdown
    PROVE  IInv'
<1>1. ~ shutdown /\ shutdown' = TRUE /\ log' = log /\ UNCHANGED dataVars
  BY DEF Shutdown
<1>2. LogGrows
  BY <1>1 DEF LogGrows
<1>3. CleanupTask \in Task /\ CleanupTask.task = "cleanup" /\ ~ IsCmd(CleanupTask)
      /\ \A o : CleanupTask # RelayTask(o)
  BY DEF Task, CleanupTask, RelayTask, IsCmd
<1>4. CASE lockq = <<>> /\ EnterCleanup(<<CleanupTask>>)
  <2>1. Pending(<<CleanupTask>>, conn) /\ Head(<<CleanupTask>>) = CleanupTask
    BY <1>1, <1>3, <1>4, PendingAlone
  <2>. QED  BY <1>1, <1>4, <2>1, EnterCleanupKeeps
<1>5. CASE lockq # <<>> /\ lockq' = Append(lockq, CleanupTask) /\ UNCHANGED <<phase, objVars>>
  <2>1. \A k \in DOMAIN lockq : lockq[k] # CleanupTask
    BY <1>1 DEF IInv, Queue, QueuedKnown
  <2>2. Queue' /\ \A o \in Object : IsWaiting(o)' <=> IsWaiting(o)
    BY <1>1, <1>2, <1>3, <1>5, <2>1, JoinKeepsQueue
  <2>3. UNCHANGED <<phase, sessions, conn>>
    BY <1>5 DEF objVars
  <2>4. Turns(conn')
    BY <2>2, <2>3 DEF Turns
  <2>5. Untouched' /\ NoHole' /\ NoReplyLost'
    BY <1>1, <1>2, <2>4, DataKept
  <2>6. lockq' \in Seq(Task)
    BY <1>3, <1>5 DEF IInv, TypeOK
  <2>7. TypeOK'
    BY <1>1, <2>3, <2>6 DEF IInv, TypeOK, dataVars
  <2>8. ActiveIsMapped'
    BY <1>2, <2>3, MappedKept
  <2>9. Started'
    BY <1>1, <1>2, <2>3, StartedKept
  <2>. QED  BY <2>2, <2>5, <2>7, <2>8, <2>9 DEF IInv
<1>. QED  BY <1>4, <1>5 DEF Shutdown
(* One more reply is on its way: the next one of its connection. *)
LEMMA SendFacts ==
    ASSUME NEW o \in Object, NEW n \in 1..MaxReplies, TypeOK, NoReplyLost,
           SendReply(o, n), Cardinality(Sent(o, Len(toClient))) = n - 1
    PROVE  /\ toClient' \in Seq([seq : Nat, obj : Object, n : 1..MaxReplies])
           /\ Len(toClient') = Len(toClient) + 1 /\ toClient'[Len(toClient')].obj = o
           /\ \A p \in Object : p # o => \A k \in DOMAIN toClient' :
                toClient'[k].obj = p => k \in DOMAIN toClient /\ toClient[k].obj = p
           /\ \A p \in Object :
                /\ Cardinality(Sent(p, Len(toClient)))' =
                     IF p = o THEN n ELSE Cardinality(Sent(p, Len(toClient)))
                /\ \A k \in DOMAIN toClient' : toClient'[k].obj = p =>
                     toClient'[k].n = Cardinality(Sent(p, k)')
<1>. DEFINE R == [seq : Nat, obj : Object, n : 1..MaxReplies]
<1>0. PICK l \in Nat : l = Len(toClient)
  BY DEF TypeOK
<1>. DEFINE r == [seq |-> l, obj |-> o, n |-> n]
<1>1. toClient \in Seq(R) /\ r \in R
  BY DEF TypeOK
<1>2. /\ toClient' \in Seq(R) /\ Len(toClient') = l + 1
      /\ DOMAIN toClient = 1..l /\ DOMAIN toClient' = 1..(l + 1)
      /\ \A k \in 1..l : toClient'[k] = toClient[k]
      /\ toClient'[l + 1] = r
  <2>. HIDE DEF R
  <2>1. toClient' = Append(toClient, r)
    BY <1>0 DEF SendReply
  <2>. QED  BY <1>0, <1>1, <2>1, AppendFacts
<1>. HIDE DEF R
<1>3. ASSUME NEW p \in Object, NEW k \in 0..l PROVE Sent(p, k)' = Sent(p, k)
  <2>1. \A j \in 1..k : toClient'[j] = toClient[j]
    BY <1>2
  <2>. QED  BY <2>1 DEF Sent
<1>4. ASSUME NEW p \in Object
      PROVE  Cardinality(Sent(p, l + 1)') = IF p = o THEN n ELSE Cardinality(Sent(p, l))
  <2>0. Sent(p, l + 1)' = {j \in 1..(l + 1) : toClient'[j].obj = p}
    BY DEF Sent
  <2>1. /\ \A j \in 1..l : j \in 1..(l + 1) /\ toClient'[j] = toClient[j]
        /\ \A j \in 1..(l + 1) : j \in 1..l \/ j = l + 1
        /\ l + 1 \in 1..(l + 1) /\ l + 1 \notin 1..l /\ toClient'[l + 1].obj = o
    BY <1>2
  <2>2. p # o => Sent(p, l + 1)' = Sent(p, l)
    BY <2>0, <2>1 DEF Sent
  <2>3. p = o => Sent(p, l + 1)' = Sent(p, l) \cup {l + 1} /\ l + 1 \notin Sent(p, l)
    BY <2>0, <2>1 DEF Sent
  <2>4. IsFiniteSet(Sent(p, l))
    <3>1. IsFiniteSet(1..l) /\ Sent(p, l) \in SUBSET (1..l)
      BY FS_Interval, SMTT(30) DEF Sent
    <3>. QED  BY <3>1, FS_Subset
  <2>5. l + 1 \notin Sent(p, l) =>
          Cardinality(Sent(p, l) \cup {l + 1}) = Cardinality(Sent(p, l)) + 1
    BY <2>4, FS_AddElement
  <2>6. p = o => Cardinality(Sent(p, l)) = n - 1 /\ n - 1 + 1 = n
    BY <1>0
  <2>. HIDE DEF r
  <2>7. CASE p = o
    <3>1. Cardinality(Sent(p, l + 1)') = Cardinality(Sent(p, l)) + 1
      BY <2>3, <2>5, <2>7
    <3>. QED  BY <2>6, <2>7, <3>1
  <2>. QED  BY <2>2, <2>7
<1>5. ASSUME NEW p \in Object, NEW k \in DOMAIN toClient', toClient'[k].obj = p
      PROVE  /\ toClient'[k].n = Cardinality(Sent(p, k)')
             /\ p # o => k \in DOMAIN toClient /\ toClient[k].obj = p
  <2>1. CASE k \in 1..l
    <3>1. toClient[k].obj = p /\ k \in 0..l
      BY <1>2, <1>5, <2>1
    <3>2. toClient[k].n = Cardinality(Sent(p, k))
      BY <1>2, <2>1, <3>1 DEF NoReplyLost
    <3>. QED  BY <1>2, <1>3, <2>1, <3>1, <3>2
  <2>2. CASE k = l + 1
    <3>1. toClient'[k].obj = o /\ toClient'[k].n = n /\ p = o
      BY <1>2, <1>5, <2>2
    <3>. QED  BY <1>4, <2>2, <3>1
  <2>. QED  BY <1>2, <2>1, <2>2
<1>7. \A p \in Object : Cardinality(Sent(p, Len(toClient)))' = Cardinality(Sent(p, l + 1)')
  BY <1>2
<1>8. toClient'[Len(toClient')].obj = o /\ Len(toClient') = Len(toClient) + 1
  BY <1>0, <1>2
<1>. QED  BY <1>0, <1>2, <1>4, <1>5, <1>7, <1>8 DEF R

(* The relay task that was handed the lock sends its reply. *)
LEMMA RelayKeeps ==
    ASSUME IInv, lockq # <<>>, phase = "idle", Head(lockq).task = "relay",
           SendReply(Head(lockq).id, reads[Head(lockq).id]), Leave(lockq),
           UNCHANGED <<log, objVars, target, reads, shutdown>>
    PROVE  IInv' /\ IsActive(Head(lockq).id)
<1>. DEFINE o == Head(lockq).id
<1>1. /\ lockq \in Seq(Task) /\ Len(lockq) \in Nat /\ DOMAIN lockq = 1..Len(lockq)
      /\ 1 \in DOMAIN lockq /\ lockq[1] = Head(lockq) /\ Head(lockq) \in Task
  BY DEF IInv, TypeOK
<1>2. o \in Object /\ Head(lockq) = RelayTask(o)
  BY <1>1 DEF Task, CmdTask, RelayTask, CleanupTask
<1>3. IsWaiting(o) /\ IsActive(o)
  BY <1>1, <1>2 DEF IsWaiting, IInv, Queue, WaitingIsActive
<1>4. /\ lockq' = Tail(lockq) /\ phase' = "idle" /\ sessions' = sessions /\ conn' = conn
      /\ log' = log /\ target' = target /\ reads' = reads /\ shutdown' = shutdown
  BY DEF Leave, objVars
<1>5. /\ lockq' \in Seq(Task)
      /\ \A k \in DOMAIN lockq' : k \in Nat \ {0} /\ k + 1 \in DOMAIN lockq
                                  /\ lockq'[k] = lockq[k + 1]
      /\ \A k \in DOMAIN lockq : k # 1 => k - 1 \in DOMAIN lockq' /\ lockq'[k - 1] = lockq[k]
  BY <1>1, <1>4
<1>6. reads[o] \in 1..MaxReplies /\ Cardinality(Sent(o, Len(toClient))) = reads[o] - 1
  <2>1. Cardinality(Sent(o, Len(toClient))) = reads[o] - 1 /\ reads[o] \in 0..MaxReplies
    BY <1>2, <1>3 DEF IInv, NoReplyLost, TypeOK
  <2>2. IsFiniteSet(Sent(o, Len(toClient)))
    <3>1. /\ IsFiniteSet(1..Len(toClient))
          /\ Sent(o, Len(toClient)) \in SUBSET (1..Len(toClient))
      BY FS_Interval DEF Sent, IInv, TypeOK
    <3>. QED  BY <3>1, FS_Subset
  <2>3. Cardinality(Sent(o, Len(toClient))) \in Nat
    BY <2>2, FS_CardinalityType
  <2>. QED  BY <2>1, <2>3, RouterAssumption
<1>7. /\ toClient' \in Seq([seq : Nat, obj : Object, n : 1..MaxReplies])
      /\ \A p \in Object : p # o => \A k \in DOMAIN toClient' :
           toClient'[k].obj = p => k \in DOMAIN toClient /\ toClient[k].obj = p
      /\ \A p \in Object :
           /\ Cardinality(Sent(p, Len(toClient)))' =
                IF p = o THEN reads[o] ELSE Cardinality(Sent(p, Len(toClient)))
           /\ \A k \in DOMAIN toClient' : toClient'[k].obj = p =>
                toClient'[k].n = Cardinality(Sent(p, k)')
  BY <1>2, <1>6, SendFacts DEF IInv
<1>8. \A p \in Object : IsWaiting(p)' <=> IsWaiting(p) /\ p # o
  <2>1. ASSUME NEW p \in Object, NEW k \in DOMAIN lockq', lockq'[k] = RelayTask(p)
        PROVE  IsWaiting(p) /\ p # o
    <3>1. k + 1 \in DOMAIN lockq /\ lockq[k + 1] = RelayTask(p) /\ k + 1 # 1
      BY <1>5, <2>1
    <3>2. p # o
      BY <1>1, <1>2, <3>1 DEF IInv, Queue, QueuedOnce
    <3>. QED  BY <3>1, <3>2 DEF IsWaiting
  <2>2. ASSUME NEW p \in Object, NEW k \in DOMAIN lockq, lockq[k] = RelayTask(p), p # o
        PROVE  IsWaiting(p)'
    <3>1. k # 1
      BY <1>1, <1>2, <2>2 DEF RelayTask
    <3>. QED  BY <1>5, <2>2, <3>1 DEF IsWaiting
  <2>. QED  BY <2>1, <2>2 DEF IsWaiting
<1>9. TypeOK'
  BY <1>4, <1>5, <1>7 DEF IInv, TypeOK
<1>10. QueuedOnce'
  <2>. SUFFICES ASSUME NEW j \in DOMAIN lockq', NEW k \in DOMAIN lockq',
                       lockq'[j] = lockq'[k]
                PROVE  j = k
    BY DEF QueuedOnce
  <2>1. j + 1 = k + 1 /\ j \in Nat /\ k \in Nat
    BY <1>5 DEF IInv, Queue, QueuedOnce
  <2>. QED  BY <2>1
<1>11. QueuedKnown'
  BY <1>4, <1>5 DEF IInv, Queue, QueuedKnown
<1>12. WaitingIsActive'
  BY <1>4, <1>8 DEF IInv, Queue, WaitingIsActive, IsActive
<1>13. OwnerOf' /\ NotEntered'
  <2>1. OwnerOf'
    BY <1>4 DEF OwnerOf
  <2>2. NotEntered'
    BY <1>4, <1>5 DEF IInv, Queue, NotEntered
  <2>. QED  BY <2>1, <2>2
<1>14. Started' /\ ActiveIsMapped' /\ NoHole'
  BY <1>4 DEF IInv, Started, ActiveIsMapped, NoHole, IsActive
<1>15. Untouched'
  <2>. SUFFICES ASSUME NEW p \in Object, conn[p] \notin {"active", "closed"}
                PROVE  /\ target[p] = <<>> /\ reads[p] = 0
                       /\ \A k \in DOMAIN toClient' : toClient'[k].obj # p
    BY <1>4 DEF Untouched
  <2>1. p # o
    BY <1>3 DEF IsActive
  <2>. QED  BY <1>7, <2>1 DEF IInv, Untouched
<1>16. NoReplyLost'
  <2>1. ASSUME NEW p \in Object, IsActive(p)
        PROVE  Cardinality(Sent(p, Len(toClient)))'
                 = IF IsWaiting(p)' THEN reads[p] - 1 ELSE reads[p]
    <3>1. CASE p = o
      BY <1>2, <1>7, <1>8, <3>1
    <3>2. CASE p # o
      <4>1. Cardinality(Sent(p, Len(toClient)))
              = IF IsWaiting(p) THEN reads[p] - 1 ELSE reads[p]
        BY <2>1 DEF IInv, NoReplyLost
      <4>. QED  BY <1>7, <1>8, <3>2, <4>1
    <3>. QED  BY <3>1, <3>2
  <2>2. \A p \in Object : IsActive(p)' <=> IsActive(p)
    BY <1>4 DEF IsActive
  <2>. QED  BY <1>4, <1>7, <2>1, <2>2 DEF NoReplyLost
<1>. QED  BY <1>3, <1>9, <1>10, <1>11, <1>12, <1>13, <1>14, <1>15, <1>16
          DEF IInv, Queue
(* The task that was handed the lock runs. *)
LEMMA ResumeKeeps ==
    ASSUME IInv, Resume
    PROVE  IInv'
<1>. DEFINE t == Head(lockq)
<1>1. /\ lockq # <<>> /\ phase = "idle" /\ phase # "notifying"
      /\ log' = log /\ shutdown' = shutdown /\ shutdown' \in BOOLEAN
  BY DEF Resume, IInv, TypeOK
<1>2. LogGrows
  BY <1>1 DEF LogGrows
<1>3. lockq[1] = t /\ 1 \in DOMAIN lockq /\ t \in Task
  BY <1>1 DEF IInv, TypeOK
<1>4. CASE t.task = "cmd" /\ EnterCmd(t.id, log[t.id], lockq) /\ UNCHANGED dataVars
  <2>1. t = CmdTask(t.id) /\ t.id \in Object /\ t.task # "relay" /\ IsCmd(t)
    BY <1>3, <1>4 DEF Task, CmdTask, RelayTask, CleanupTask, IsCmd
  <2>2. conn[t.id] = "none"
    BY <1>1, <1>3, <2>1 DEF IInv, Queue, NotEntered
  <2>3. Pending(lockq, conn)
    BY <1>1, <2>1, PendingAtStart
  <2>. QED  BY <1>1, <1>2, <1>4, <2>1, <2>2, <2>3, EnterCmdKeeps
<1>5. CASE t.task = "cleanup" /\ EnterCleanup(lockq) /\ UNCHANGED dataVars
  <2>1. t = CleanupTask /\ t.task # "relay"
    BY <1>3, <1>5 DEF Task, CmdTask, RelayTask, CleanupTask
  <2>2. Pending(lockq, conn)
    BY <1>1, <2>1, PendingAtStart
  <2>. QED  BY <1>1, <1>5, <2>1, <2>2, EnterCleanupKeeps
<1>6. CASE /\ t.task = "relay" /\ SendReply(t.id, reads[t.id]) /\ Leave(lockq)
           /\ UNCHANGED <<objVars, target, reads>>
  <2>1. UNCHANGED <<log, objVars, target, reads, shutdown>>
    BY <1>1, <1>6
  <2>. QED  BY <1>1, <1>6, <2>1, RelayKeeps
<1>. QED  BY <1>4, <1>5, <1>6 DEF Resume

(* A closed stream is reported closed. *)
LEMMA StreamClosedKeeps ==
    ASSUME IInv, StreamClosed
    PROVE  IInv'
<1>. DEFINE i == Head(lockq).id
<1>1. /\ phase \in {"closing_old", "closing", "cleaning"}
      /\ log' = log /\ UNCHANGED dataVars /\ shutdown' = shutdown /\ shutdown' \in BOOLEAN
  BY DEF StreamClosed, IInv, TypeOK
<1>2. LogGrows /\ lockq # <<>>
  BY <1>1 DEF LogGrows, IInv, Queue, OwnerOf
<1>3. lockq[1] = Head(lockq) /\ 1 \in DOMAIN lockq /\ Head(lockq) \in Task
  BY <1>2 DEF IInv, TypeOK
<1>4. /\ phase \in {"closing_old", "closing"} => IsCmd(Head(lockq))
      /\ phase = "cleaning" => Head(lockq) = CleanupTask
  BY DEF IInv, Queue, OwnerOf
<1>5. Head(lockq).task # "relay"
  BY <1>1, <1>4 DEF IsCmd, CleanupTask
<1>6. Pending(lockq, conn)
  BY <1>1, <1>2, <1>5, PendingAtStart
<1>7. CASE phase = "closing_old" /\ OpenSession(i, log[i], lockq, conn)
  <2>1. Head(lockq) = CmdTask(i) /\ i \in Object
    BY <1>3, <1>4, <1>7 DEF Task, CmdTask, RelayTask, CleanupTask, IsCmd
  <2>2. conn[i] = "none"
    BY <1>3, <1>4, <1>7 DEF IInv, Queue, NotEntered
  <2>3. log[i].op \in Connects /\ ~ IsActive(sessions[log[i].sid])
    BY <1>7 DEF IInv, Queue, OwnerOf
  <2>4. LET old == sessions[log'[i].sid] IN old = NoObject \/ conn[old] # "active"
    BY <1>1, <2>3 DEF IsActive
  <2>. QED  BY <1>1, <1>2, <1>6, <1>7, <2>1, <2>2, <2>3, <2>4, OpenKeeps
<1>8. CASE phase = "closing" /\ Leave(lockq) /\ UNCHANGED objVars
  <2>1. sessions' = sessions /\ conn' = conn
    BY <1>8 DEF objVars
  <2>2. ActiveIsMapped'
    BY <1>2, <2>1, MappedKept
  <2>3. /\ sessions' \in [Sid -> Object \cup {NoObject}]
        /\ \A s \in Sid : sessions'[s] <= Len(log')
        /\ conn' \in [Object -> ConnState]
    BY <1>1, <2>1 DEF IInv, TypeOK, Started, ConnState
  <2>. QED  BY <1>1, <1>2, <1>6, <1>8, <2>1, <2>2, <2>3, SectionEnds
<1>9. CASE phase = "cleaning" /\ EnterCleanup(lockq)
  BY <1>1, <1>4, <1>6, <1>9, EnterCleanupKeeps
<1>. QED  BY <1>7, <1>8, <1>9 DEF StreamClosed

(* The connection of a CONNECT opens. *)
LEMMA ConnectOkKeeps ==
    ASSUME IInv, ConnectOk
    PROVE  IInv'
<1>. DEFINE i == Head(lockq).id
<1>1. /\ phase = "connecting" /\ conn' = [conn EXCEPT ![i] = "active"] /\ Leave(lockq)
      /\ log' = log /\ sessions' = sessions /\ UNCHANGED dataVars
      /\ shutdown' = shutdown /\ shutdown' \in BOOLEAN
  BY DEF ConnectOk, IInv, TypeOK
<1>2. LogGrows /\ lockq # <<>>
  BY <1>1 DEF LogGrows, IInv, Queue, OwnerOf
<1>3. lockq[1] = Head(lockq) /\ 1 \in DOMAIN lockq /\ Head(lockq) \in Task
  BY <1>2 DEF IInv, TypeOK
<1>4. /\ IsCmd(Head(lockq)) /\ log[i].op \in Connects
      /\ sessions[log[i].sid] = i /\ conn[i] = "opening"
  BY <1>1 DEF IInv, Queue, OwnerOf
<1>5. Head(lockq) = CmdTask(i) /\ i \in Object /\ Head(lockq).task # "relay"
  BY <1>3, <1>4 DEF Task, CmdTask, RelayTask, CleanupTask, IsCmd
<1>6. Pending(lockq, conn)
  BY <1>1, <1>2, <1>5, PendingAtStart
<1>7. /\ conn' \in [Object -> ConnState] /\ conn'[i] = "active"
      /\ \A o \in Object : o # i => conn'[o] = conn[o]
  BY <1>1, <1>5 DEF IInv, TypeOK, ConnState
<1>8. ActiveIsMapped'
  BY <1>1, <1>4, <1>7 DEF IInv, ActiveIsMapped
<1>9. /\ sessions' \in [Sid -> Object \cup {NoObject}]
      /\ \A s \in Sid : sessions'[s] <= Len(log')
  BY <1>1 DEF IInv, TypeOK, Started
<1>10. \A o \in Object :
         \/ conn'[o] = conn[o]
         \/ /\ Head(lockq) = CmdTask(o) /\ conn[o] \in {"none", "opening"}
            /\ conn'[o] \in {"opening", "active"} /\ log'[o].op \in Connects
  BY <1>1, <1>4, <1>5, <1>7
<1>. QED  BY <1>1, <1>2, <1>6, <1>7, <1>8, <1>9, <1>10, SectionEnds
(* A connect fails; its task queues behind itself to report it. *)
LEMMA ConnectFailsKeeps ==
    ASSUME IInv, ConnectFails
    PROVE  IInv'
<1>. DEFINE i == Head(lockq).id
            t == CmdTask(i)
<1>1. /\ phase = "connecting" /\ conn' = [conn EXCEPT ![i] = "failed"]
      /\ lockq' = Append(lockq, t) /\ phase' = "notifying"
      /\ log' = log /\ sessions' = sessions /\ UNCHANGED dataVars /\ shutdown' = shutdown
  BY DEF ConnectFails, FailConnect, Hold
<1>2. LogGrows /\ lockq # <<>> /\ lockq \in Seq(Task)
  BY <1>1 DEF LogGrows, IInv, TypeOK, Queue, OwnerOf
<1>3. lockq[1] = Head(lockq) /\ 1 \in DOMAIN lockq /\ Head(lockq) \in Task
  BY <1>2
<1>4. IsCmd(Head(lockq)) /\ log[i].op \in Connects /\ conn[i] = "opening"
  BY <1>1 DEF IInv, Queue, OwnerOf
<1>5. Head(lockq) = t /\ i \in Object /\ t \in Task /\ IsCmd(t)
  BY <1>3, <1>4 DEF Task, CmdTask, RelayTask, CleanupTask, IsCmd
<1>6. /\ conn' \in [Object -> ConnState] /\ conn'[i] = "failed"
      /\ \A o \in Object : o # i => conn'[o] = conn[o]
  BY <1>1, <1>5 DEF IInv, TypeOK, ConnState
<1>. HIDE DEF t
<1>7. /\ lockq' \in Seq(Task) /\ lockq' # <<>> /\ Head(lockq') = Head(lockq)
      /\ DOMAIN lockq = 1..Len(lockq) /\ DOMAIN lockq' = 1..(Len(lockq) + 1)
      /\ \A k \in DOMAIN lockq : lockq'[k] = lockq[k]
      /\ lockq'[Len(lockq) + 1] = t /\ Len(lockq) \in Nat
  BY <1>1, <1>2, <1>5, AppendFacts
<1>8. \A k \in DOMAIN lockq' : k \in DOMAIN lockq \/ k = Len(lockq) + 1
  BY <1>7
<1>9. \A o \in Object : t # RelayTask(o)
  BY <1>5 DEF RelayTask, IsCmd
<1>10. \A o \in Object : IsWaiting(o)' <=> IsWaiting(o)
  BY <1>7, <1>8, <1>9 DEF IsWaiting
<1>11. Turns(conn')
  BY <1>4, <1>5, <1>6, <1>10 DEF Turns
<1>12. Untouched' /\ NoHole' /\ NoReplyLost'
  BY <1>1, <1>2, <1>11, DataKept
<1>13. TypeOK'
  BY <1>1, <1>6, <1>7 DEF IInv, TypeOK, dataVars, ConnState
<1>14. Started'
  BY <1>1, <1>2, <1>4, <1>5, <1>6, StartedKept
<1>15. ActiveIsMapped'
  BY <1>1, <1>2, <1>5, <1>6, MappedKept
<1>16. QueuedOnce'
  <2>. SUFFICES ASSUME NEW j \in DOMAIN lockq', NEW k \in DOMAIN lockq',
                       lockq'[j] = lockq'[k]
                PROVE  j = k \/ IsCmd(lockq'[j])
    BY <1>1 DEF QueuedOnce
  <2>1. CASE j \in DOMAIN lockq /\ k \in DOMAIN lockq
    BY <1>1, <1>7, <2>1 DEF IInv, Queue, QueuedOnce
  <2>. QED  BY <1>5, <1>7, <1>8, <2>1
<1>17. QueuedKnown'
  <2>. SUFFICES ASSUME NEW k \in DOMAIN lockq'
                PROVE  /\ IsCmd(lockq'[k]) => /\ lockq'[k].id <= Len(log)
                                              /\ log[lockq'[k].id].op # "DATA"
                       /\ lockq'[k] = CleanupTask => shutdown
    BY <1>1 DEF QueuedKnown
  <2>1. \E j \in DOMAIN lockq : lockq'[k] = lockq[j]
    BY <1>3, <1>5, <1>7, <1>8
  <2>. QED  BY <2>1 DEF IInv, Queue, QueuedKnown
<1>18. WaitingIsActive'
  <2>. SUFFICES ASSUME NEW o \in Object, IsWaiting(o)' PROVE IsActive(o)'
    BY DEF WaitingIsActive
  <2>1. IsActive(o)
    BY <1>10 DEF IInv, Queue, WaitingIsActive
  <2>. QED  BY <1>4, <1>6, <2>1 DEF IsActive
<1>19. OwnerOf' /\ NotEntered'
  BY <1>1, <1>5, <1>7 DEF OwnerOf, NotEntered
<1>. QED  BY <1>12, <1>13, <1>14, <1>15, <1>16, <1>17, <1>18, <1>19 DEF IInv, Queue

(* A reply of a target arrives. *)
LEMMA TargetReplyKeeps ==
    ASSUME NEW o \in Object, IInv, TargetReply(o)
    PROVE  IInv'
<1>. DEFINE n == reads[o] + 1
<1>1. /\ IsActive(o) /\ ~ IsWaiting(o) /\ reads[o] < MaxReplies
      /\ reads' = [reads EXCEPT ![o] = @ + 1]
      /\ log' = log /\ phase' = phase /\ UNCHANGED objVars /\ sessions' = sessions
      /\ conn' = conn /\ target' = target /\ shutdown' = shutdown
  BY DEF TargetReply, objVars
<1>2. LogGrows
  BY <1>1 DEF LogGrows
<1>3. /\ reads[o] \in Nat /\ n \in 1..MaxReplies /\ n - 1 = reads[o]
      /\ reads' \in [Object -> 0..MaxReplies] /\ reads'[o] = n
      /\ \A p \in Object : p # o => reads'[p] = reads[p]
  <2>1. reads \in [Object -> 0..MaxReplies] /\ MaxReplies \in Nat
    BY RouterAssumption DEF IInv, TypeOK
  <2>2. reads[o] \in Nat /\ n \in 1..MaxReplies /\ n \in 0..MaxReplies /\ n - 1 = reads[o]
    BY <1>1, <2>1
  <2>3. reads' = [reads EXCEPT ![o] = n]
    BY <1>1
  <2>. HIDE DEF n
  <2>. QED  BY <2>1, <2>2, <2>3
<1>4. Cardinality(Sent(o, Len(toClient))) = reads[o]
  BY <1>1 DEF IInv, NoReplyLost
<1>5. Started' /\ ActiveIsMapped' /\ NoHole'
  BY <1>1 DEF IInv, Started, ActiveIsMapped, NoHole, IsActive
<1>6. \A p \in Object : conn[p] \notin {"active", "closed"} => p # o
  BY <1>1 DEF IsActive
<1>7. CASE lockq = <<>> /\ SendReply(o, n) /\ UNCHANGED lockq
  <2>1. /\ toClient' \in Seq([seq : Nat, obj : Object, n : 1..MaxReplies])
        /\ \A p \in Object : p # o => \A k \in DOMAIN toClient' :
             toClient'[k].obj = p => k \in DOMAIN toClient /\ toClient[k].obj = p
        /\ \A p \in Object :
             /\ Cardinality(Sent(p, Len(toClient)))' =
                  IF p = o THEN n ELSE Cardinality(Sent(p, Len(toClient)))
             /\ \A k \in DOMAIN toClient' : toClient'[k].obj = p =>
                  toClient'[k].n = Cardinality(Sent(p, k)')
    <3>. HIDE DEF n
    <3>. QED  BY <1>3, <1>4, <1>7, SendFacts, ZenonT(60) DEF IInv
  <2>2. TypeOK'
    BY <1>1, <1>3, <1>7, <2>1 DEF IInv, TypeOK
  <2>3. Queue' /\ \A p \in Object : IsWaiting(p)' <=> IsWaiting(p)
    <3>1. /\ UNCHANGED <<lockVars, objVars>> /\ Len(log') \in Nat /\ Len(log) <= Len(log')
          /\ \A i \in 1..Len(log) : log'[i] = log[i]
      BY <1>1, <1>7 DEF lockVars, IInv, TypeOK
    <3>. QED  BY <1>1, <3>1, IdleKeepsQueue
  <2>4. Untouched'
    <3>. SUFFICES ASSUME NEW p \in Object, conn[p] \notin {"active", "closed"}
                  PROVE  /\ target[p] = <<>> /\ reads'[p] = 0
                         /\ \A k \in DOMAIN toClient' : toClient'[k].obj # p
      BY <1>1 DEF Untouched
    <3>1. p # o
      BY <1>6
    <3>2. /\ target[p] = <<>> /\ reads[p] = 0
          /\ \A k \in DOMAIN toClient : toClient[k].obj # p
      BY DEF IInv, Untouched
    <3>3. reads'[p] = 0
      BY <1>3, <3>1, <3>2
    <3>. QED  BY <2>1, <3>1, <3>2, <3>3
  <2>5. NoReplyLost'
    <3>1. ASSUME NEW p \in Object, IsActive(p)
          PROVE  Cardinality(Sent(p, Len(toClient)))'
                   = IF IsWaiting(p)' THEN reads'[p] - 1 ELSE reads'[p]
      <4>1. CASE p = o
        BY <1>1, <1>3, <2>1, <2>3, <4>1
      <4>2. CASE p # o
        <5>1. Cardinality(Sent(p, Len(toClient)))
                = IF IsWaiting(p) THEN reads[p] - 1 ELSE reads[p]
          BY <3>1 DEF IInv, NoReplyLost
        <5>. QED  BY <1>3, <2>1, <2>3, <4>2, <5>1
      <4>. QED  BY <4>1, <4>2
    <3>2. \A p \in Object : IsActive(p)' <=> IsActive(p)
      BY <1>1 DEF IsActive
    <3>. QED  BY <2>1, <3>1, <3>2 DEF NoReplyLost
  <2>. QED  BY <1>5, <2>2, <2>3, <2>4, <2>5 DEF IInv
<1>8. CASE lockq # <<>> /\ lockq' = Append(lockq, RelayTask(o)) /\ UNCHANGED toClient
  <2>. DEFINE t == RelayTask(o)
  <2>1. t \in Task /\ ~ IsCmd(t) /\ t # CleanupTask /\ t.id = o
    BY DEF Task, RelayTask, IsCmd, CleanupTask
  <2>2. \A k \in DOMAIN lockq : lockq[k] # t
    BY <1>1 DEF IsWaiting
  <2>3. \A p \in Object : p # o => t # RelayTask(p)
    BY DEF RelayTask
  <2>4. Queue' /\ \A p \in Object : p # o => (IsWaiting(p)' <=> IsWaiting(p))
    <3>1. lockq' = Append(lockq, t)
      BY <1>8
    <3>. HIDE DEF t
    <3>. QED  BY <1>1, <1>2, <1>8, <2>1, <2>2, <2>3, <3>1, JoinKeepsQueue
  <2>5. lockq' \in Seq(Task) /\ IsWaiting(o)'
    <3>1. lockq' \in Seq(Task) /\ lockq'[Len(lockq) + 1] = t
          /\ Len(lockq) + 1 \in DOMAIN lockq'
      <4>1. lockq' = Append(lockq, t) /\ lockq \in Seq(Task)
        BY <1>8 DEF IInv, TypeOK
      <4>. HIDE DEF t
      <4>. QED  BY <2>1, <4>1, AppendFacts
    <3>. QED  BY <3>1 DEF IsWaiting
  <2>6. TypeOK'
    BY <1>1, <1>3, <1>8, <2>5 DEF IInv, TypeOK
  <2>7. Untouched'
    <3>. SUFFICES ASSUME NEW p \in Object, conn[p] \notin {"active", "closed"}
                  PROVE  /\ target[p] = <<>> /\ reads'[p] = 0
                         /\ \A k \in DOMAIN toClient : toClient[k].obj # p
      BY <1>1, <1>8 DEF Untouched
    <3>. QED  BY <1>3, <1>6 DEF IInv, Untouched
  <2>8. NoReplyLost'
    <3>0. \A p, k : Sent(p, k)' = Sent(p, k)
      BY <1>8 DEF Sent
    <3>1. ASSUME NEW p \in Object, IsActive(p)
          PROVE  Cardinality(Sent(p, Len(toClient)))
                   = IF IsWaiting(p)' THEN reads'[p] - 1 ELSE reads'[p]
      <4>1. CASE p = o
        BY <1>3, <1>4, <2>5, <4>1
      <4>2. CASE p # o
        <5>1. Cardinality(Sent(p, Len(toClient)))
                = IF IsWaiting(p) THEN reads[p] - 1 ELSE reads[p]
          BY <3>1 DEF IInv, NoReplyLost
        <5>. QED  BY <1>3, <2>4, <4>2, <5>1
      <4>. QED  BY <4>1, <4>2
    <3>2. \A p \in Object : IsActive(p)' <=> IsActive(p)
      BY <1>1 DEF IsActive
    <3>3. \A p \in Object : \A k \in DOMAIN toClient :
            toClient[k].obj = p => toClient[k].n = Cardinality(Sent(p, k))
      BY DEF IInv, NoReplyLost
    <3>. QED  BY <1>8, <3>0, <3>1, <3>2, <3>3 DEF NoReplyLost
  <2>. QED  BY <1>5, <2>4, <2>6, <2>7, <2>8 DEF IInv
<1>. QED  BY <1>7, <1>8 DEF TargetReply
(* A connection is closed by a task that does not have the lock: what is left
   of the queue is all but the relay task of that connection. *)
LEMMA CloseKeeps ==
    ASSUME NEW o \in Object, IInv, IsActive(o), conn' = CloseConn({o}),
           UNCHANGED <<log, phase, sessions, dataVars, shutdown>>,
           lockq' \in Seq(Task),
           \E f \in [DOMAIN lockq' -> DOMAIN lockq] :
             /\ \A i \in DOMAIN lockq' :
                  lockq'[i] = lockq[f[i]] /\ lockq'[i] # RelayTask(o)
             /\ \A i, j \in DOMAIN lockq' : i # j => f[i] # f[j]
             /\ \A i \in DOMAIN lockq' : i # 1 => f[i] # 1
             /\ \A k \in DOMAIN lockq : lockq[k] # RelayTask(o) =>
                  \E i \in DOMAIN lockq' : f[i] = k,
           phase # "idle" => lockq' # <<>> /\ Head(lockq') = Head(lockq)
    PROVE  IInv'
<1>1. PICK f \in [DOMAIN lockq' -> DOMAIN lockq] :
        /\ \A i \in DOMAIN lockq' :
             lockq'[i] = lockq[f[i]] /\ lockq'[i] # RelayTask(o)
        /\ \A i, j \in DOMAIN lockq' : i # j => f[i] # f[j]
        /\ \A i \in DOMAIN lockq' : i # 1 => f[i] # 1
        /\ \A k \in DOMAIN lockq : lockq[k] # RelayTask(o) =>
             \E i \in DOMAIN lockq' : f[i] = k
  OBVIOUS
<1>2. /\ conn' \in [Object -> ConnState] /\ conn'[o] = "closed"
      /\ \A p \in Object : p # o => conn'[p] = conn[p]
      /\ conn[o] = "active"
  BY DEF CloseConn, IInv, TypeOK, ConnState, IsActive
<1>3. /\ log' = log /\ phase' = phase /\ sessions' = sessions
      /\ UNCHANGED dataVars /\ shutdown' = shutdown /\ LogGrows
  BY DEF LogGrows
<1>4. ASSUME NEW p \in Object PROVE IsWaiting(p)' <=> IsWaiting(p) /\ p # o
  <2>1. ASSUME NEW i \in DOMAIN lockq', lockq'[i] = RelayTask(p)
        PROVE  IsWaiting(p) /\ p # o
    BY <1>1, <2>1 DEF IsWaiting
  <2>2. ASSUME NEW k \in DOMAIN lockq, lockq[k] = RelayTask(p), p # o
        PROVE  IsWaiting(p)'
    <3>1. lockq[k] # RelayTask(o)
      BY <2>2 DEF RelayTask
    <3>. QED  BY <1>1, <2>2, <3>1 DEF IsWaiting
  <2>. QED  BY <2>1, <2>2 DEF IsWaiting
<1>5. Turns(conn')
  BY <1>2, <1>4 DEF Turns
<1>6. Untouched' /\ NoHole' /\ NoReplyLost'
  BY <1>3, <1>5, DataKept
<1>7. TypeOK'
  BY <1>2, <1>3 DEF IInv, TypeOK, dataVars, ConnState
<1>8. Started'
  BY <1>2, <1>3, StartedKept
<1>9. ActiveIsMapped'
  BY <1>2, <1>3, MappedKept
<1>10. QueuedOnce'
  <2>. SUFFICES ASSUME NEW j \in DOMAIN lockq', NEW k \in DOMAIN lockq',
                       lockq'[j] = lockq'[k]
                PROVE  j = k \/ (phase = "notifying" /\ IsCmd(lockq'[j]))
    BY <1>3 DEF QueuedOnce
  <2>1. lockq[f[j]] = lockq[f[k]] /\ f[j] \in DOMAIN lockq /\ f[k] \in DOMAIN lockq
    BY <1>1
  <2>2. f[j] = f[k] \/ (phase = "notifying" /\ IsCmd(lockq[f[j]]))
    BY <2>1 DEF IInv, Queue, QueuedOnce
  <2>. QED  BY <1>1, <2>2
<1>11. QueuedKnown'
  BY <1>1, <1>3, SMTT(30) DEF IInv, Queue, QueuedKnown
<1>12. WaitingIsActive'
  <2>. SUFFICES ASSUME NEW p \in Object, IsWaiting(p)' PROVE IsActive(p)'
    BY DEF WaitingIsActive
  <2>1. IsWaiting(p) /\ p # o
    BY <1>4
  <2>2. IsActive(p)
    BY <2>1 DEF IInv, Queue, WaitingIsActive
  <2>3. conn'[p] = conn[p]
    BY <1>2, <2>1
  <2>. QED  BY <2>2, <2>3 DEF IsActive
<1>13. OwnerOf'
  <2>1. CASE phase = "idle"
    BY <1>3, <2>1 DEF OwnerOf
  <2>2. CASE phase # "idle"
    <3>1. OwnerOf
      BY DEF IInv, Queue
    <3>2. lockq' # <<>> /\ Head(lockq') = Head(lockq)
      BY <2>2
    <3>3. \A x \in Object \cup {NoObject} : ~ IsActive(x) => ~ IsActive(x)'
      BY <1>2 DEF IsActive, NoObject
    <3>4. phase = "closing_old" =>
            sessions[log[Head(lockq).id].sid] \in Object \cup {NoObject}
      <4>. SUFFICES ASSUME phase = "closing_old"
                    PROVE  sessions[log[Head(lockq).id].sid] \in Object \cup {NoObject}
        OBVIOUS
      <4>1. IsCmd(Head(lockq)) /\ lockq # <<>> /\ lockq \in Seq(Task)
        BY <3>1 DEF OwnerOf, IInv, TypeOK
      <4>2. 1 \in DOMAIN lockq /\ lockq[1] = Head(lockq) /\ Head(lockq) \in Task
        BY <4>1
      <4>3. Head(lockq).id \in Object /\ Head(lockq).id <= Len(log)
        BY <4>1, <4>2 DEF IInv, Queue, QueuedKnown, Task, CmdTask, RelayTask,
                         CleanupTask, IsCmd
      <4>4. log[Head(lockq).id] \in Command
        <5>1. log \in Seq(Command) /\ Head(lockq).id \in 1..Len(log)
          BY <4>3 DEF IInv, TypeOK, Object
        <5>. QED  BY <5>1
      <4>. QED  BY <4>4 DEF Command, IInv, TypeOK
    <3>5. phase = "connecting" => Head(lockq).id # o /\ Head(lockq).id \in Object
      <4>. SUFFICES ASSUME phase = "connecting"
                    PROVE  Head(lockq).id # o /\ Head(lockq).id \in Object
        OBVIOUS
      <4>1. /\ IsCmd(Head(lockq)) /\ lockq # <<>> /\ lockq \in Seq(Task)
            /\ conn[Head(lockq).id] = "opening"
        BY <3>1 DEF OwnerOf, IInv, TypeOK
      <4>2. Head(lockq) \in Task
        BY <4>1
      <4>. QED  BY <1>2, <4>1, <4>2 DEF Task, CmdTask, RelayTask, CleanupTask, IsCmd
    <3>. QED  BY <1>2, <1>3, <3>1, <3>2, <3>3, <3>4, <3>5 DEF OwnerOf
  <2>. QED  BY <2>1, <2>2
<1>14. NotEntered'
  <2>. SUFFICES ASSUME phase # "notifying", NEW k \in DOMAIN lockq', IsCmd(lockq'[k]),
                       k # 1 \/ phase \in {"idle", "closing_old"}
                PROVE  conn'[lockq'[k].id] = "none"
    BY <1>3 DEF NotEntered
  <2>1. f[k] \in DOMAIN lockq /\ lockq'[k] = lockq[f[k]] /\ (k # 1 => f[k] # 1)
    BY <1>1
  <2>2. conn[lockq'[k].id] = "none"
    BY <2>1 DEF IInv, Queue, NotEntered
  <2>3. lockq'[k] \in Task
    OBVIOUS
  <2>4. lockq'[k].id \in Object
    BY <2>3 DEF Task, CmdTask, RelayTask, CleanupTask, IsCmd
  <2>. QED  BY <1>2, <2>2, <2>4
<1>. QED  BY <1>6, <1>7, <1>8, <1>9, <1>10, <1>11, <1>12, <1>13, <1>14 DEF IInv, Queue

(* A relay task reads the end of its stream. *)
LEMMA TargetEofKeeps ==
    ASSUME NEW o \in Object, IInv, TargetEof(o)
    PROVE  IInv'
<1>1. /\ IsActive(o) /\ ~ IsWaiting(o) /\ conn' = CloseConn({o})
      /\ UNCHANGED <<log, phase, sessions, dataVars, shutdown>> /\ lockq' = lockq
  BY DEF TargetEof, lockVars
<1>2. /\ lockq' \in Seq(Task)
      /\ phase # "idle" => lockq' # <<>> /\ Head(lockq') = Head(lockq)
  BY <1>1 DEF IInv, TypeOK, Queue, OwnerOf
<1>3. \A i \in DOMAIN lockq : lockq[i] # RelayTask(o)
  BY <1>1 DEF IsWaiting
<1>4. \E f \in [DOMAIN lockq' -> DOMAIN lockq] :
        /\ \A i \in DOMAIN lockq' :
             lockq'[i] = lockq[f[i]] /\ lockq'[i] # RelayTask(o)
        /\ \A i, j \in DOMAIN lockq' : i # j => f[i] # f[j]
        /\ \A i \in DOMAIN lockq' : i # 1 => f[i] # 1
        /\ \A k \in DOMAIN lockq : lockq[k] # RelayTask(o) =>
             \E i \in DOMAIN lockq' : f[i] = k
  <2>. DEFINE same == [i \in DOMAIN lockq |-> i]
  <2>1. same \in [DOMAIN lockq' -> DOMAIN lockq] /\ \A i \in DOMAIN lockq : same[i] = i
    BY <1>1
  <2>. HIDE DEF same
  <2>. QED  BY <1>1, <1>3, <2>1
<1>. QED  BY <1>1, <1>2, <1>4, CloseKeeps

(* The write of a DATA task fails. *)
LEMMA SendFailsKeeps ==
    ASSUME NEW o \in Object, IInv, SendFails(o)
    PROVE  IInv'
<1>1. /\ IsActive(o) /\ conn' = CloseConn({o}) /\ lockq' = CancelRelays(lockq, {o})
      /\ UNCHANGED <<log, phase, sessions, dataVars, shutdown>>
      /\ lockq \in Seq(Task)
  BY DEF SendFails, IInv, TypeOK
<1>2. \A t \in Task : IsGone(t, {o}) <=> t = RelayTask(o)
  BY <1>1 DEF IsGone, Task, CmdTask, RelayTask, CleanupTask
<1>3. /\ lockq' \in Seq(Task)
      /\ \E f \in [DOMAIN lockq' -> DOMAIN lockq] :
           /\ \A i \in DOMAIN lockq' :
                lockq'[i] = lockq[f[i]] /\ ~ IsGone(lockq'[i], {o})
           /\ \A i, j \in DOMAIN lockq' : i # j => f[i] # f[j]
           /\ \A i \in DOMAIN lockq' : i # 1 => f[i] # 1
           /\ \A k \in DOMAIN lockq : ~ IsGone(lockq[k], {o}) =>
                \E i \in DOMAIN lockq' : f[i] = k
      /\ lockq # <<>> /\ ~ IsGone(Head(lockq), {o}) =>
           lockq' # <<>> /\ Head(lockq') = Head(lockq)
  <2>. DEFINE r == CancelRelays(lockq, {o})
  <2>1. /\ r \in Seq(Task)
        /\ \E f \in [DOMAIN r -> DOMAIN lockq] :
             /\ \A i \in DOMAIN r :
                  r[i] = lockq[f[i]] /\ ~ IsGone(r[i], {o})
             /\ \A i, j \in DOMAIN r : i # j => f[i] # f[j]
             /\ \A i \in DOMAIN r : i # 1 => f[i] # 1
             /\ \A k \in DOMAIN lockq : ~ IsGone(lockq[k], {o}) =>
                  \E i \in DOMAIN r : f[i] = k
        /\ lockq # <<>> /\ ~ IsGone(Head(lockq), {o}) =>
             r # <<>> /\ Head(r) = Head(lockq)
    BY <1>1, CancelKeepsOrder
  <2>2. lockq' = r
    BY <1>1
  <2>. HIDE DEF r
  <2>. QED  BY ONLY <2>1, <2>2, ZenonT(60)
<1>4. phase # "idle" => lockq # <<>> /\ ~ IsGone(Head(lockq), {o})
  BY DEF IInv, TypeOK, Queue, OwnerOf, IsCmd, CleanupTask, IsGone
<1>5. /\ \A i \in DOMAIN lockq' : lockq'[i] \in Task
      /\ \A k \in DOMAIN lockq : lockq[k] \in Task
  BY <1>1, <1>3
<1>6. \E f \in [DOMAIN lockq' -> DOMAIN lockq] :
        /\ \A i \in DOMAIN lockq' :
             lockq'[i] = lockq[f[i]] /\ lockq'[i] # RelayTask(o)
        /\ \A i, j \in DOMAIN lockq' : i # j => f[i] # f[j]
        /\ \A i \in DOMAIN lockq' : i # 1 => f[i] # 1
        /\ \A k \in DOMAIN lockq : lockq[k] # RelayTask(o) =>
             \E i \in DOMAIN lockq' : f[i] = k
  BY <1>2, <1>3, <1>5
<1>. QED  BY <1>1, <1>3, <1>4, <1>6, CloseKeeps

(* Every step keeps the invariant. *)
LEMMA NextIInv == IInv /\ [Next]_vars => IInv'
<1>. SUFFICES ASSUME IInv, [Next]_vars PROVE IInv'
  OBVIOUS
<1>1. ASSUME NEW sid \in Sid, StartData(sid) PROVE IInv'
  BY <1>1, StartDataKeeps
<1>2. ASSUME NEW sid \in Sid, NEW op \in Op, StartLocked(op, sid) PROVE IInv'
  BY <1>2, StartLockedKeeps
<1>3. CASE Shutdown
  BY <1>3, ShutdownKeeps
<1>4. CASE Resume
  BY <1>4, ResumeKeeps
<1>5. CASE StreamClosed
  BY <1>5, StreamClosedKeeps
<1>6. CASE ConnectOk
  BY <1>6, ConnectOkKeeps
<1>7. CASE ConnectFails
  BY <1>7, ConnectFailsKeeps
<1>8. ASSUME NEW o \in Object, TargetReply(o) PROVE IInv'
  BY <1>8, TargetReplyKeeps
<1>9. ASSUME NEW o \in Object, TargetEof(o) PROVE IInv'
  BY <1>9, TargetEofKeeps
<1>10. ASSUME NEW o \in Object, SendFails(o) PROVE IInv'
  BY <1>10, SendFailsKeeps
<1>11. CASE UNCHANGED vars
  <2>0. /\ log' = log /\ lockq' = lockq /\ phase' = phase /\ sessions' = sessions
        /\ conn' = conn /\ target' = target /\ reads' = reads
        /\ toClient' = toClient /\ shutdown' = shutdown
    BY <1>11 DEF vars
  <2>1. TypeOK'
    BY <2>0 DEF IInv, TypeOK
  <2>2. Queue'
    <3>1. /\ UNCHANGED <<lockVars, objVars>> /\ Len(log') \in Nat /\ Len(log) <= Len(log')
          /\ \A i \in 1..Len(log) : log'[i] = log[i]
      BY <2>0 DEF lockVars, objVars, IInv, TypeOK
    <3>. QED  BY <2>0, <3>1, IdleKeepsQueue
  <2>3. Started' /\ Untouched' /\ ActiveIsMapped'
    BY <2>0 DEF IInv, Started, Untouched, ActiveIsMapped
  <2>4. NoHole'
    BY <2>0 DEF IInv, NoHole, IsActive
  <2>5. NoReplyLost'
    BY <2>0 DEF IInv, NoReplyLost, Sent, IsWaiting, IsActive
  <2>. QED  BY <2>1, <2>2, <2>3, <2>4, <2>5 DEF IInv
<1>. QED  BY <1>1, <1>2, <1>3, <1>4, <1>5, <1>6, <1>7, <1>8, <1>9, <1>10, <1>11 DEF Next
----------------------------------------------------------------------------
(* The theorems. *)

(* IInv holds in every reachable state. *)
THEOREM Invariant == Spec => []IInv
<1>. QED  BY InitIInv, NextIInv, PTL DEF Spec

(* The variables keep their types; the lock's queue holds tasks only. *)
THEOREM TypeCorrect == Spec => []TypeOK
<1>1. IInv => TypeOK
  BY DEF IInv
<1>. QED  BY <1>1, Invariant, PTL

(* ActiveIsMapped: an open connection is the one the map holds for its id, so a
   CLOSE, a second CONNECT and the shutdown find it. *)
THEOREM MappedTheorem == Spec => []ActiveIsMapped
<1>1. IInv => ActiveIsMapped
  BY DEF IInv
<1>. QED  BY <1>1, Invariant, PTL

(* NoHole: from the first DATA that got through on, an open connection's target
   receives every one, although DATA does not take the lock. *)
THEOREM HoleTheorem == Spec => []NoHole
<1>1. IInv => NoHole
  BY DEF IInv
<1>. QED  BY <1>1, Invariant, PTL

(* NoReplyLost: the replies of a target go out in its order, none missing and
   none twice, whoever holds the lock meanwhile. *)
THEOREM ReplyTheorem == Spec => []NoReplyLost
<1>1. IInv => NoReplyLost
  BY DEF IInv
<1>. QED  BY <1>1, Invariant, PTL

(* The reply just sent is of the object it was sent for. *)
LEMMA LastSent ==
    ASSUME TypeOK, NEW o \in Object, NEW n \in Nat, SendReply(o, n)
    PROVE  toClient'[Len(toClient')].obj = o
<1>. DEFINE R == [seq : Nat, obj : Object, n : Nat]
            r == [seq |-> Len(toClient), obj |-> o, n |-> n]
<1>1. toClient \in Seq(R) /\ r \in R /\ toClient' = Append(toClient, r)
  <2>1. toClient \in Seq([seq : Nat, obj : Object, n : 1..MaxReplies]) /\ Len(toClient) \in Nat
    BY DEF TypeOK
  <2>2. \A x \in [seq : Nat, obj : Object, n : 1..MaxReplies] : x \in R
    BY RouterAssumption
  <2>3. \A k \in 1..Len(toClient) : toClient[k] \in R
    <3>. DEFINE Q == [seq : Nat, obj : Object, n : 1..MaxReplies]
    <3>1. toClient \in Seq(Q) /\ \A x \in Q : x \in R
      BY <2>1, <2>2
    <3>. HIDE DEF Q, R
    <3>. QED  BY <3>1
  <2>4. toClient \in Seq(R)
    <3>. HIDE DEF R
    <3>. QED  BY <2>1, <2>3, IsASeq
  <2>. QED  BY <2>1, <2>4 DEF SendReply
<1>2. r.obj = o
  OBVIOUS
<1>. HIDE DEF R, r
<1>3. Len(toClient') = Len(toClient) + 1 /\ toClient'[Len(toClient) + 1] = r
  BY <1>1, AppendFacts
<1>. QED  BY <1>2, <1>3

(* NoReplyFromClosed: no reply leaves after its session was closed, although its
   task may have been waiting for the lock at that moment. *)
THEOREM ClosedReplyTheorem == Spec => NoReplyFromClosed
<1>1. ASSUME IInv, [Next]_vars PROVE SendsOnlyActive
  <2>. SUFFICES ASSUME toClient' # toClient
                PROVE  IsActive(toClient'[Len(toClient')].obj)
    BY DEF SendsOnlyActive
  <2>1. ASSUME NEW o \in Object, TargetReply(o)
        PROVE  IsActive(toClient'[Len(toClient')].obj)
    <3>1. IsActive(o) /\ SendReply(o, reads[o] + 1)
      BY <2>1 DEF TargetReply
    <3>2. reads[o] + 1 \in Nat
      BY <1>1 DEF IInv, TypeOK
    <3>. QED  BY <1>1, <3>1, <3>2, LastSent DEF IInv
  <2>2. CASE Resume
    <3>. DEFINE t == Head(lockq)
    <3>1. /\ lockq # <<>> /\ phase = "idle" /\ t.task = "relay"
          /\ SendReply(t.id, reads[t.id]) /\ Leave(lockq)
          /\ UNCHANGED <<log, objVars, target, reads, shutdown>>
      BY <2>2 DEF Resume, dataVars
    <3>2. IsActive(t.id)
      BY <1>1, <3>1, RelayKeeps
    <3>3. t.id \in Object /\ reads[t.id] \in Nat
      <4>1. t \in Task
        BY <1>1, <3>1 DEF IInv, TypeOK
      <4>2. t.id \in Object
        BY <3>1, <4>1 DEF Task, CmdTask, RelayTask, CleanupTask
      <4>. QED  BY <1>1, <4>2 DEF IInv, TypeOK
    <3>. QED  BY <1>1, <3>1, <3>2, <3>3, LastSent DEF IInv
  <2>3. ~ StreamClosed /\ ~ ConnectOk /\ ~ ConnectFails /\ ~ Shutdown
    BY DEF StreamClosed, ConnectOk, ConnectFails, Shutdown, dataVars
  <2>4. /\ \A sid \in Sid : ~ StartData(sid)
        /\ \A sid \in Sid, op \in Op : ~ StartLocked(op, sid)
        /\ \A o \in Object : ~ TargetEof(o) /\ ~ SendFails(o)
    BY DEF StartData, StartLocked, TargetEof, SendFails, dataVars
  <2>5. vars' # vars
    BY DEF vars
  <2>. QED  BY <1>1, <2>1, <2>2, <2>3, <2>4, <2>5 DEF Next
<1>. QED  BY <1>1, Invariant, PTL DEF NoReplyFromClosed, Spec

(* cleanup lets go of the lock only when no connection is open. *)
LEMMA CleanupLast ==
    ASSUME IInv, lockq # <<>>, Head(lockq) = CleanupTask, EnterCleanup(lockq)
    PROVE  LeavesNothingOpen
<1>. DEFINE open == {o \in Object : IsActive(o) /\ sessions[log[o].sid] = o}
            tcp == {o \in open : IsTcp(o)}
<1>1. ASSUME NEW o \in tcp, NEW U \in SUBSET (open \ tcp),
             Hold(CancelRelays(lockq, {o} \cup U), "cleaning")
      PROVE  LeavesNothingOpen
  <2>. DEFINE O == {o} \cup U
  <2>1. lockq' = CancelRelays(lockq, O) /\ lockq \in Seq(Task)
    BY <1>1 DEF Hold, IInv, TypeOK
  <2>2. ~ IsGone(Head(lockq), O)
    BY DEF IsGone, CleanupTask
  <2>. HIDE DEF O
  <2>3. lockq' # <<>> /\ Head(lockq') = CleanupTask
    BY <2>1, <2>2, CancelKeepsOrder
  <2>. QED  BY <2>3 DEF LeavesNothingOpen
<1>2. CASE conn' = CloseConn(open)
  <2>1. \A o \in Object : conn[o] = "active" => o \in open
    BY DEF IInv, ActiveIsMapped, IsActive, Object, NoObject
  <2>2. \A o \in Object : conn'[o] # "active"
    BY <1>2, <2>1 DEF CloseConn
  <2>. QED  BY <2>2 DEF LeavesNothingOpen
<1>. QED  BY <1>1, <1>2 DEF EnterCleanup

(* CleanupClosesAll: when cleanup is done no connection is open, whatever was
   connecting or closing when it was called. *)
THEOREM CleanupTheorem == Spec => CleanupClosesAll
<1>1. ASSUME IInv, [Next]_vars PROVE LeavesNothingOpen
  <2>. SUFFICES ASSUME lockq # <<>>, Head(lockq) = CleanupTask
                PROVE  LeavesNothingOpen
    BY DEF LeavesNothingOpen
  <2>0. /\ lockq \in Seq(Task) /\ 1 \in DOMAIN lockq /\ lockq[1] = Head(lockq)
        /\ Head(lockq).task = "cleanup" /\ ~ IsCmd(Head(lockq))
    BY <1>1 DEF IInv, TypeOK, CleanupTask, IsCmd
  <2>1. (lockq' # <<>> /\ Head(lockq') = CleanupTask) => LeavesNothingOpen
    BY DEF LeavesNothingOpen
  <2>2. lockq' = lockq => LeavesNothingOpen
    BY <2>1
  <2>3. ASSUME NEW t \in Task, lockq' = Append(lockq, t) PROVE LeavesNothingOpen
    <3>1. lockq' # <<>> /\ Head(lockq') = Head(lockq)
      BY <2>0, <2>3, AppendFacts
    <3>. QED  BY <2>1, <3>1
  <2>4. phase \notin {"closing_old", "connecting", "closing"}
    BY <1>1, <2>0 DEF IInv, Queue, OwnerOf
  <2>5. ASSUME NEW sid \in Sid, StartData(sid) PROVE LeavesNothingOpen
    BY <2>2, <2>5 DEF StartData, lockVars
  <2>6. ASSUME NEW sid \in Sid, NEW op \in Op, StartLocked(op, sid)
        PROVE  LeavesNothingOpen
    <3>1. lockq' = Append(lockq, CmdTask(Len(log'))) /\ Len(log) < MaxCmds
          /\ log' = Append(log, [op |-> op, sid |-> sid])
      BY <2>6 DEF StartLocked, Starts
    <3>2. Len(log') \in Object
      <4>1. [op |-> op, sid |-> sid] \in Command /\ log \in Seq(Command)
        BY <1>1 DEF Command, IInv, TypeOK
      <4>2. Len(log') = Len(log) + 1 /\ Len(log) \in Nat
        BY <3>1, <4>1, AppendFacts
      <4>. QED  BY <3>1, <4>2, RouterAssumption DEF Object
    <3>3. CmdTask(Len(log')) \in Task
      BY <3>2 DEF Task
    <3>. QED  BY <2>3, <3>1, <3>3
  <2>7. CASE Shutdown
    <3>1. lockq' = Append(lockq, CleanupTask) /\ CleanupTask \in Task
      BY <2>7 DEF Shutdown, Task
    <3>. QED  BY <2>3, <3>1
  <2>8. CASE Resume
    <3>1. EnterCleanup(lockq)
      BY <2>0, <2>8 DEF Resume
    <3>. QED  BY <1>1, <3>1, CleanupLast
  <2>9. CASE StreamClosed
    <3>1. EnterCleanup(lockq)
      BY <2>4, <2>9 DEF StreamClosed
    <3>. QED  BY <1>1, <3>1, CleanupLast
  <2>10. ~ ConnectOk /\ ~ ConnectFails
    BY <2>4 DEF ConnectOk, ConnectFails
  <2>11. ASSUME NEW o \in Object, TargetReply(o) PROVE LeavesNothingOpen
    <3>1. lockq' = Append(lockq, RelayTask(o)) /\ RelayTask(o) \in Task
      BY <2>11 DEF TargetReply, Task
    <3>. QED  BY <2>3, <3>1
  <2>12. ASSUME NEW o \in Object, TargetEof(o) PROVE LeavesNothingOpen
    BY <2>2, <2>12 DEF TargetEof, lockVars
  <2>13. ASSUME NEW o \in Object, SendFails(o) PROVE LeavesNothingOpen
    <3>1. lockq' = CancelRelays(lockq, {o}) /\ ~ IsGone(Head(lockq), {o})
      BY <2>0, <2>13 DEF SendFails, IsGone
    <3>2. lockq' # <<>> /\ Head(lockq') = Head(lockq)
      BY <2>0, <3>1, CancelKeepsOrder
    <3>. QED  BY <2>1, <3>2
  <2>14. CASE UNCHANGED vars
    BY <2>2, <2>14 DEF vars
  <2>. QED  BY <1>1, <2>5, <2>6, <2>7, <2>8, <2>9, <2>10, <2>11, <2>12, <2>13, <2>14
            DEF Next
<1>. QED  BY <1>1, Invariant, PTL DEF CleanupClosesAll, Spec
=============================================================================
