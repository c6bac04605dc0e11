--------------------------- MODULE BufXUsers_proofs ---------------------------
(***************************************************************************)
(* Proofs about BufXChange and the threads that use it, for any number of  *)
(* threads and buffers and any sizes of the two queues.                    *)
(***************************************************************************)
EXTENDS BufXUsers, FiniteSetTheorems, SequenceTheorems, TLAPS

-----------------------------------------------------------------------------
\* Queues without repetitions, and what the operations leave of them.

Distinct(s) == \A j, k \in 1 .. Len(s) : s[j] = s[k] => j = k

LEMMA EmptyQueue == In(<<>>) = {} /\ Distinct(<<>>)
BY DEF In, Distinct

LEMMA OneOnQueue ==
  ASSUME NEW b \in Bufs
  PROVE  <<b>> \in Seq(Bufs) /\ In(<<b>>) = {b} /\ Distinct(<<b>>)
BY DEF In, Distinct

LEMMA InQueueType ==
  ASSUME NEW s \in Seq(Bufs)
  PROVE  In(s) \subseteq Bufs
BY DEF In

\* The two queues one after the other have no repetition if and only if neither has
\* and they have no buffer in common.
LEMMA Joined ==
  ASSUME NEW s \in Seq(Bufs), NEW t \in Seq(Bufs)
  PROVE  /\ s \o t \in Seq(Bufs)
         /\ Len(s \o t) = Len(s) + Len(t)
         /\ In(s \o t) = In(s) \cup In(t)
         /\ Distinct(s \o t) <=> Distinct(s) /\ Distinct(t) /\ In(s) \cap In(t) = {}
  <1>1. /\ s \o t \in Seq(Bufs)
        /\ Len(s \o t) = Len(s) + Len(t)
        /\ \A k \in 1 .. Len(s) + Len(t) : (s \o t)[k] = IF k <= Len(s) THEN s[k] ELSE t[k - Len(s)]
        /\ Len(s) \in Nat /\ Len(t) \in Nat
    BY ConcatProperties
  <1>2. \A k \in 1 .. Len(s) : (s \o t)[k] = s[k] /\ k \in 1 .. Len(s) + Len(t)
    BY <1>1
  <1>3. \A k \in 1 .. Len(t) : (s \o t)[Len(s) + k] = t[k] /\ Len(s) + k \in 1 .. Len(s) + Len(t)
    BY <1>1
  <1>4. In(s \o t) = In(s) \cup In(t)
    <2>1. ASSUME NEW b \in In(s \o t) PROVE b \in In(s) \cup In(t)
      BY <1>1, <2>1 DEF In
    <2>2. In(s) \subseteq In(s \o t)
      BY <1>1, <1>2 DEF In
    <2>3. In(t) \subseteq In(s \o t)
      BY <1>1, <1>3 DEF In
    <2>4. QED
      BY <2>1, <2>2, <2>3
  <1>5. ASSUME Distinct(s \o t) PROVE Distinct(s) /\ Distinct(t) /\ In(s) \cap In(t) = {}
    <2>1. Distinct(s)
      BY <1>1, <1>2, <1>5 DEF Distinct
    <2>2. Distinct(t)
      <3>1. ASSUME NEW j \in 1 .. Len(t), NEW k \in 1 .. Len(t), t[j] = t[k] PROVE j = k
        <4>1. Len(s) + j = Len(s) + k
          BY <1>1, <1>3, <1>5, <3>1 DEF Distinct
        <4>2. QED
          BY <1>1, <4>1
      <3>2. QED
        BY <3>1 DEF Distinct
    <2>3. ASSUME NEW j \in 1 .. Len(s), NEW k \in 1 .. Len(t), s[j] = t[k] PROVE FALSE
      <3>1. j = Len(s) + k
        BY <1>1, <1>2, <1>3, <1>5, <2>3 DEF Distinct
      <3>2. QED
        BY <1>1, <3>1
    <2>4. QED
      BY <2>1, <2>2, <2>3 DEF In
  <1>6. ASSUME Distinct(s), Distinct(t), In(s) \cap In(t) = {},
               NEW j \in 1 .. Len(s) + Len(t), NEW k \in 1 .. Len(s) + Len(t),
               (s \o t)[j] = (s \o t)[k]
        PROVE  j = k
    <2>1. \A m \in 1 .. Len(s), n \in 1 .. Len(t) : s[m] # t[n]
      BY <1>6 DEF In
    <2>2. CASE j <= Len(s) /\ k <= Len(s)
      BY <1>1, <1>6, <2>2 DEF Distinct
    <2>3. CASE j > Len(s) /\ k > Len(s)
      <3>1. j - Len(s) \in 1 .. Len(t) /\ k - Len(s) \in 1 .. Len(t)
        BY <1>1, <2>3
      <3>2. t[j - Len(s)] = t[k - Len(s)]
        BY <1>1, <1>6, <2>3
      <3>3. QED
        BY <1>1, <1>6, <3>1, <3>2 DEF Distinct
    <2>4. CASE j <= Len(s) /\ k > Len(s)
      BY <1>1, <1>6, <2>1, <2>4
    <2>5. CASE j > Len(s) /\ k <= Len(s)
      BY <1>1, <1>6, <2>1, <2>5
    <2>6. QED
      BY <1>1, <2>2, <2>3, <2>4, <2>5
  <1>7. QED
    BY <1>1, <1>4, <1>5, <1>6 DEF Distinct

\* A buffer that joins a queue, at its end (put) or at its beginning (untake).
LEMMA JoinedByOne ==
  ASSUME NEW s \in Seq(Bufs), NEW b \in Bufs, Distinct(s), b \notin In(s)
  PROVE  /\ Append(s, b) \in Seq(Bufs) /\ Distinct(Append(s, b))
         /\ In(Append(s, b)) = In(s) \cup {b} /\ Len(Append(s, b)) = Len(s) + 1
         /\ <<b>> \o s \in Seq(Bufs) /\ Distinct(<<b>> \o s)
         /\ In(<<b>> \o s) = In(s) \cup {b} /\ Len(<<b>> \o s) = Len(s) + 1
  <1> DEFINE one == <<b>>
  <1>1. one \in Seq(Bufs) /\ In(one) = {b} /\ Distinct(one) /\ Len(one) = 1
    BY OneOnQueue
  <1>2. Append(s, b) = s \o one
    OBVIOUS
  <1>3. /\ one \o s \in Seq(Bufs) /\ Distinct(one \o s) /\ In(one \o s) = In(s) \cup {b}
        /\ Len(one \o s) = Len(s) + 1
        /\ s \o one \in Seq(Bufs) /\ Distinct(s \o one) /\ In(s \o one) = In(s) \cup {b}
        /\ Len(s \o one) = Len(s) + 1
    <2> HIDE DEF one
    <2>1. In(one) \cap In(s) = {} /\ Len(s) \in Nat /\ one \in Seq(Bufs)
      BY <1>1
    <2>2. /\ one \o s \in Seq(Bufs) /\ Len(one \o s) = Len(one) + Len(s)
          /\ In(one \o s) = In(one) \cup In(s)
          /\ Distinct(one \o s) <=> Distinct(one) /\ Distinct(s) /\ In(one) \cap In(s) = {}
      BY <2>1, Joined, Zenon
    <2>3. /\ s \o one \in Seq(Bufs) /\ Len(s \o one) = Len(s) + Len(one)
          /\ In(s \o one) = In(s) \cup In(one)
          /\ Distinct(s \o one) <=> Distinct(s) /\ Distinct(one) /\ In(s) \cap In(one) = {}
      BY <2>1, Joined, Zenon
    <2>4. In(s) \cap In(one) = {}
      BY <2>1
    <2>5. QED
      BY <1>1, <2>1, <2>2, <2>3, <2>4
  <1>4. QED
    BY <1>2, <1>3

\* The head of a queue and what is left of it.
LEMMA Popped ==
  ASSUME NEW s \in Seq(Bufs), s # <<>>
  PROVE  /\ Head(s) \in Bufs /\ Tail(s) \in Seq(Bufs)
         /\ Len(s) \in Nat /\ Len(s) > 0 /\ Len(Tail(s)) = Len(s) - 1
         /\ Head(s) \in In(s) /\ In(Tail(s)) \subseteq In(s)
         /\ Distinct(s) => Distinct(Tail(s)) /\ Head(s) \notin In(Tail(s))
  <1>1. /\ Len(s) \in Nat /\ Len(s) > 0 /\ Len(Tail(s)) = Len(s) - 1
        /\ Tail(s) \in Seq(Bufs) /\ Head(s) \in Bufs
        /\ \A k \in 1 .. Len(s) - 1 : Tail(s)[k] = s[k + 1] /\ k + 1 \in 1 .. Len(s)
        /\ Head(s) = s[1]
    BY HeadTailProperties
  <1>2. Head(s) \in In(s) /\ In(Tail(s)) \subseteq In(s)
    BY <1>1 DEF In
  <1>3. ASSUME Distinct(s) PROVE Distinct(Tail(s)) /\ Head(s) \notin In(Tail(s))
    <2>1. ASSUME NEW j \in 1 .. Len(s) - 1, NEW k \in 1 .. Len(s) - 1, Tail(s)[j] = Tail(s)[k]
          PROVE  j = k
      <3>1. j + 1 = k + 1
        BY <1>1, <1>3, <2>1 DEF Distinct
      <3>2. QED
        BY <1>1, <3>1
    <2>2. \A k \in 1 .. Len(s) - 1 : Tail(s)[k] # s[1]
      BY <1>1, <1>3 DEF Distinct
    <2>3. QED
      BY <1>1, <2>1, <2>2 DEF Distinct, In
  <1>4. QED
    BY <1>1, <1>2, <1>3

\* recycle_nolock() and reset(): the newest buffers are kept.
LEMMA Kept ==
  ASSUME NEW s \in Seq(Bufs)
  PROVE  /\ LastN(s, MaxRecycled) \in Seq(Bufs)
         /\ Len(LastN(s, MaxRecycled)) <= MaxRecycled
         /\ In(LastN(s, MaxRecycled)) \subseteq In(s)
         /\ Distinct(s) => Distinct(LastN(s, MaxRecycled))
  <1>1. MaxRecycled \in Nat /\ Len(s) \in Nat
    BY BufXAssumption
  <1>2. CASE Len(s) <= MaxRecycled
    BY <1>1, <1>2 DEF LastN
  <1>3. CASE Len(s) > MaxRecycled
    <2> DEFINE m == Len(s) - MaxRecycled + 1
               u == SubSeq(s, m, Len(s))
    <2>1. m \in 1 .. Len(s) + 1 /\ Len(s) - m + 1 = MaxRecycled
      BY <1>1, <1>3
    <2>2. /\ u \in Seq(Bufs) /\ Len(u) = MaxRecycled
          /\ \A k \in 1 .. MaxRecycled : u[k] = s[m + k - 1] /\ m + k - 1 \in 1 .. Len(s)
      BY <1>1, <2>1, SubSeqProperties
    <2>3. In(u) \subseteq In(s)
      BY <2>2 DEF In
    <2>4. ASSUME Distinct(s) PROVE Distinct(u)
      <3>1. ASSUME NEW j \in 1 .. MaxRecycled, NEW k \in 1 .. MaxRecycled, u[j] = u[k] PROVE j = k
        <4>1. m + j - 1 = m + k - 1
          BY <2>2, <2>4, <3>1 DEF Distinct
        <4>2. QED
          BY <1>1, <2>1, <4>1
      <3>2. QED
        BY <2>2, <3>1 DEF Distinct
    <2>5. LastN(s, MaxRecycled) = u
      BY <1>3 DEF LastN
    <2>6. QED
      BY <1>1, <2>2, <2>3, <2>4, <2>5
  <1>4. QED
    BY <1>1, <1>2, <1>3
-----------------------------------------------------------------------------
\* Where the buffers are: on one of the queues, with a thread, or deleted.

Apart ==
  /\ Distinct(queue) /\ Distinct(rqueue) /\ In(queue) \cap In(rqueue) = {}
  /\ \A t \in Threads : held[t] \notin In(queue) \cup In(rqueue) \cup deleted
  /\ \A s, t \in Threads : held[s] = held[t] /\ held[s] # NoBuf => s = t
  /\ deleted \cap (In(queue) \cup In(rqueue)) = {}
Typed ==
  /\ queue \in Seq(Bufs) /\ rqueue \in Seq(Bufs)
  /\ held \in [Threads -> Bufs \cup {NoBuf}]
  /\ next \in 0 .. MaxBufs /\ deleted \subseteq Bufs

Owners == Typed /\ Apart /\ Allocated /\ RecycledBound /\ QueueBound

LEMMA BufNumbers ==
  ASSUME Streaming
  PROVE  /\ NoBuf \notin Bufs /\ Bufs \subseteq Nat
         /\ \A b \in Bufs : b <= MaxBufs /\ b >= 1
BY DEF Streaming, Bufs, NoBuf

LEMMA OwnersMean ==
  ASSUME Streaming, Owners
  PROVE  OneOwner
  <1>1. /\ queue \in Seq(Bufs) /\ rqueue \in Seq(Bufs) /\ deleted \subseteq Bufs
        /\ NoBuf \notin deleted
    BY BufNumbers DEF Owners, Typed
  <1>2. /\ Distinct(queue \o rqueue)
        /\ In(queue \o rqueue) = In(queue) \cup In(rqueue)
    BY <1>1, Joined DEF Owners, Apart
  <1>3. \A t \in Threads : held[t] \notin In(queue \o rqueue) \cup deleted
    BY <1>2 DEF Owners, Apart
  <1>4. deleted \cap (In(queue \o rqueue) \cup {held[t] : t \in Threads}) = {}
    BY <1>2, <1>3 DEF Owners, Apart
  <1>5. QED
    BY <1>2, <1>3, <1>4 DEF OneOwner, Distinct, Owners, Apart

\* The workers that have a buffer, and how their number changes.
Holders == {w \in Workers : held[w] # NoBuf}

LEMMA HoldersCounted ==
  ASSUME NEW S, S \subseteq Workers
  PROVE  /\ IsFiniteSet(S) /\ Cardinality(S) \in Nat /\ Cardinality(Workers) \in Nat
         /\ Cardinality(S) <= Cardinality(Workers)
         /\ \A w \in S : Cardinality(S \ {w}) = Cardinality(S) - 1
         /\ \A w \in Workers \ S : Cardinality(S \cup {w}) = Cardinality(S) + 1
BY BufXAssumption, FS_CardinalityType, FS_Subset, FS_AddElement, FS_RemoveElement

-----------------------------------------------------------------------------
\* What the actions do with the buffers.

LEMMA Stays ==
  ASSUME Owners, UNCHANGED <<queue, rqueue, held, next, deleted>>
  PROVE  Owners'
BY DEF Owners, Typed, Apart, Allocated, RecycledBound, QueueBound

\* The counts of Holders after a step that changes the buffer of one thread.
LEMMA HoldersAfter ==
  ASSUME Streaming, Typed, NEW t \in Threads, NEW b \in Bufs \cup {NoBuf}, Hold(t, b)
  PROVE  /\ held'[t] = b /\ \A s \in Threads : s # t => held'[s] = held[s]
         /\ held' \in [Threads -> Bufs \cup {NoBuf}]
         /\ Cardinality(Holders) \in Nat /\ Cardinality(Holders') \in Nat
         /\ Cardinality(Holders') <= Cardinality(Workers) /\ Cardinality(Workers) \in Nat
         /\ t \in Clients => Holders' = Holders
         /\ t \in Workers /\ held[t] = NoBuf /\ b # NoBuf =>
              Cardinality(Holders') = Cardinality(Holders) + 1
         /\ t \in Workers /\ held[t] # NoBuf /\ b = NoBuf =>
              Cardinality(Holders') = Cardinality(Holders) - 1
  <1>1. /\ held'[t] = b /\ \A s \in Threads : s # t => held'[s] = held[s]
        /\ held' \in [Threads -> Bufs \cup {NoBuf}]
    BY DEF Typed, Hold
  <1>2. Holders \subseteq Workers /\ Holders' \subseteq Workers
    BY DEF Holders
  <1>3. t \in Clients => Holders' = Holders
    BY <1>1 DEF Streaming, Holders, Threads
  <1>4. t \in Workers /\ held[t] = NoBuf /\ b # NoBuf => t \notin Holders /\ Holders' = Holders \cup {t}
    BY <1>1 DEF Holders, Threads
  <1>5. t \in Workers /\ held[t] # NoBuf /\ b = NoBuf => t \in Holders /\ Holders' = Holders \ {t}
    BY <1>1 DEF Holders, Threads
  <1>6. QED
    BY <1>1, <1>2, <1>3, <1>4, <1>5, HoldersCounted

\* Acquire: a client takes a recycled buffer.
LEMMA GetsRecycled ==
  ASSUME Streaming, Owners, NEW c \in Clients, held[c] = NoBuf, rqueue # <<>>,
         Hold(c, Head(rqueue)), rqueue' = Tail(rqueue), next < MaxBufs, next' = next + 1,
         UNCHANGED <<queue, deleted>>
  PROVE  Owners'
  <1>1. rqueue \in Seq(Bufs) /\ Distinct(rqueue) /\ c \in Threads
    BY DEF Owners, Typed, Apart, Threads
  <1>2. /\ Head(rqueue) \in Bufs /\ Tail(rqueue) \in Seq(Bufs)
        /\ Len(rqueue) \in Nat /\ Len(Tail(rqueue)) = Len(rqueue) - 1
        /\ Head(rqueue) \in In(rqueue) /\ In(Tail(rqueue)) \subseteq In(rqueue)
        /\ Distinct(Tail(rqueue)) /\ Head(rqueue) \notin In(Tail(rqueue))
    BY <1>1, Popped
  <1>3. /\ held'[c] = Head(rqueue) /\ \A s \in Threads : s # c => held'[s] = held[s]
        /\ held' \in [Threads -> Bufs \cup {NoBuf}] /\ Holders' = Holders
    BY <1>1, <1>2, HoldersAfter DEF Owners
  <1>4. Typed'
    BY <1>2, <1>3 DEF Owners, Typed, Streaming
  <1>5. Apart'
    BY <1>2, <1>3 DEF Owners, Apart
  <1>6. Allocated'
    <2>1. next \in Nat /\ \A b \in Bufs \cup {NoBuf} : b \in Nat
      BY BufNumbers DEF Owners, Typed, NoBuf
    <2>2. \A t \in Threads : held'[t] \in Nat /\ held'[t] <= next
      BY <1>2, <1>3, <2>1 DEF Owners, Allocated
    <2>3. \A b \in In(queue') \cup In(rqueue') \cup deleted' : b \in Nat /\ b <= next
      BY <1>1, <1>2, <2>1, InQueueType DEF Owners, Typed, Allocated
    <2>4. QED
      BY <2>1, <2>2, <2>3 DEF Allocated
  <1>7. RecycledBound'
    BY <1>2, BufXAssumption DEF Owners, RecycledBound
  <1>8. QueueBound'
    BY <1>3 DEF Owners, QueueBound, Holders
  <1>9. QED
    BY <1>4, <1>5, <1>6, <1>7, <1>8 DEF Owners

\* Acquire: a client allocates a buffer.
LEMMA GetsNew ==
  ASSUME Streaming, Owners, NEW c \in Clients, held[c] = NoBuf,
         Hold(c, next + 1), next < MaxBufs, next' = next + 1,
         UNCHANGED <<queue, rqueue, deleted>>
  PROVE  Owners'
  <1>1. /\ next \in Nat /\ next + 1 \in Bufs /\ c \in Threads
        /\ \A b \in Bufs \cup {NoBuf} : b \in Nat
    BY BufNumbers DEF Owners, Typed, Threads, Bufs, NoBuf, Streaming
  <1>2. /\ held'[c] = next + 1 /\ \A s \in Threads : s # c => held'[s] = held[s]
        /\ held' \in [Threads -> Bufs \cup {NoBuf}] /\ Holders' = Holders
    BY <1>1, HoldersAfter DEF Owners
  <1>3. \A b \in In(queue) \cup In(rqueue) \cup deleted : b \in Nat /\ b <= next
    BY <1>1, InQueueType DEF Owners, Typed, Allocated
  <1>4. \A t \in Threads : held[t] \in Nat /\ held[t] <= next
    BY <1>1 DEF Owners, Typed, Allocated
  <1>5. Typed'
    BY <1>1, <1>2 DEF Owners, Typed, Streaming
  <1>6. next + 1 \notin In(queue) \cup In(rqueue) \cup deleted
        /\ \A t \in Threads : held[t] # next + 1
    BY <1>1, <1>3, <1>4
  <1>7. Apart'
    BY <1>2, <1>6 DEF Owners, Apart
  <1>8. Allocated'
    BY <1>1, <1>2, <1>3, <1>4 DEF Allocated
  <1>9. RecycledBound' /\ QueueBound'
    BY <1>2 DEF Owners, RecycledBound, QueueBound, Holders
  <1>10. QED
    BY <1>5, <1>7, <1>8, <1>9 DEF Owners

\* Acquire: a client allocates a buffer in place of a recycled one that is too small.
LEMMA GetsLarger ==
  ASSUME Streaming, Owners, NEW c \in Clients, held[c] = NoBuf, rqueue # <<>>,
         Hold(c, next + 1), rqueue' = Tail(rqueue), deleted' = deleted \cup {Head(rqueue)},
         next < MaxBufs, next' = next + 1, UNCHANGED queue
  PROVE  Owners'
  <1>1. /\ next \in Nat /\ next + 1 \in Bufs /\ c \in Threads
        /\ \A b \in Bufs \cup {NoBuf} : b \in Nat
    BY BufNumbers DEF Owners, Typed, Threads, Bufs, NoBuf, Streaming
  <1>2. rqueue \in Seq(Bufs) /\ Distinct(rqueue)
    BY DEF Owners, Typed, Apart
  <1>3. /\ Head(rqueue) \in Bufs /\ Tail(rqueue) \in Seq(Bufs)
        /\ Len(rqueue) \in Nat /\ Len(Tail(rqueue)) = Len(rqueue) - 1
        /\ Head(rqueue) \in In(rqueue) /\ In(Tail(rqueue)) \subseteq In(rqueue)
        /\ Distinct(Tail(rqueue)) /\ Head(rqueue) \notin In(Tail(rqueue))
    BY <1>2, Popped
  <1>4. /\ held'[c] = next + 1 /\ \A s \in Threads : s # c => held'[s] = held[s]
        /\ held' \in [Threads -> Bufs \cup {NoBuf}] /\ Holders' = Holders
    BY <1>1, HoldersAfter DEF Owners
  <1>5. \A b \in In(queue) \cup In(rqueue) \cup deleted : b \in Nat /\ b <= next
    BY <1>1, InQueueType DEF Owners, Typed, Allocated
  <1>6. \A t \in Threads : held[t] \in Nat /\ held[t] <= next
    BY <1>1 DEF Owners, Typed, Allocated
  <1>7. Typed'
    BY <1>1, <1>3, <1>4 DEF Owners, Typed, Streaming
  <1>8. /\ next + 1 \notin In(queue) \cup In(rqueue) \cup deleted
        /\ \A t \in Threads : held[t] # next + 1
    BY <1>1, <1>5, <1>6
  <1>9. Apart'
    BY <1>3, <1>4, <1>8 DEF Owners, Apart
  <1>10. Allocated'
    <2>1. In(queue') \cup In(rqueue') \cup deleted' \subseteq In(queue) \cup In(rqueue) \cup deleted
      BY <1>3
    <2>2. QED
      BY <1>1, <1>4, <1>5, <1>6, <2>1 DEF Allocated
  <1>11. RecycledBound'
    BY <1>3, BufXAssumption DEF Owners, RecycledBound
  <1>12. QueueBound'
    BY <1>4 DEF Owners, QueueBound, Holders
  <1>13. QED
    BY <1>7, <1>9, <1>10, <1>11, <1>12 DEF Owners

\* What a step that allocates nothing may do: the buffers that it moves or deletes
\* are those that it found.
LEMMA NothingNew ==
  ASSUME Streaming, Owners, next' = next,
         In(queue') \cup In(rqueue') \cup deleted'
           \subseteq In(queue) \cup In(rqueue) \cup deleted \cup {held[t] : t \in Threads},
         \A t \in Threads : held'[t] \in In(queue) \cup {held[t], NoBuf}
  PROVE  Allocated'
  <1>1. next \in Nat /\ NoBuf <= next
    BY DEF Owners, Typed, NoBuf
  <1>2. QED
    BY <1>1 DEF Owners, Allocated

\* put() queues the buffer of its caller, who may have asked for a flush.
LEMMA Queues ==
  ASSUME Streaming, Owners, NEW c \in Clients, held[c] # NoBuf, ~ Full, NEW flush,
         queue' = Append(IF flush THEN <<>> ELSE queue, held[c]), Hold(c, NoBuf),
         deleted' = deleted \cup (In(queue) \ In(queue')), UNCHANGED <<rqueue, next>>
  PROVE  Owners'
  <1> DEFINE q == IF flush THEN <<>> ELSE queue
  <1>1. /\ q \in Seq(Bufs) /\ Distinct(q) /\ In(q) \subseteq In(queue)
        /\ held[c] \in Bufs /\ c \in Threads /\ Len(queue) \in Nat /\ Len(q) \in Nat
        /\ Len(q) <= Len(queue)
    <2>1. queue \in Seq(Bufs) /\ Distinct(queue) /\ held[c] \in Bufs /\ c \in Threads
      BY DEF Owners, Typed, Apart, Threads
    <2>2. QED
      BY <2>1, EmptyQueue
  <1>2. held[c] \notin In(queue) /\ held[c] \notin In(rqueue) /\ held[c] \notin deleted
    BY <1>1 DEF Owners, Apart
  <1>3. /\ queue' \in Seq(Bufs) /\ Len(queue') = Len(q) + 1
        /\ In(queue') = In(q) \cup {held[c]} /\ Distinct(queue')
    <2> HIDE DEF q
    <2>1. held[c] \notin In(q) /\ queue' = Append(q, held[c])
      BY <1>1, <1>2 DEF q
    <2>2. QED
      BY <1>1, <2>1, JoinedByOne
  <1>4. /\ held'[c] = NoBuf /\ \A s \in Threads : s # c => held'[s] = held[s]
        /\ held' \in [Threads -> Bufs \cup {NoBuf}]
        /\ Cardinality(Holders') \in Nat /\ Cardinality(Workers) \in Nat
        /\ Cardinality(Holders') <= Cardinality(Workers)
    BY <1>1, HoldersAfter DEF Owners
  <1>5. Typed'
    BY <1>1, <1>3, <1>4, InQueueType DEF Owners, Typed
  <1>6. Apart'
    <2>1. Distinct(queue') /\ Distinct(rqueue') /\ In(queue') \cap In(rqueue') = {}
      BY <1>1, <1>3, <1>2 DEF Owners, Apart
    <2>2. \A t \in Threads : held'[t] \notin In(queue') \cup In(rqueue') \cup deleted'
      <3>1. NoBuf \notin In(queue') \cup In(rqueue') \cup deleted'
        BY <1>5, BufNumbers, InQueueType DEF Typed
      <3>2. ASSUME NEW t \in Threads, t # c
            PROVE  held'[t] \notin In(queue') \cup In(rqueue') \cup deleted'
        BY <1>1, <1>3, <1>4, <3>2 DEF Owners, Apart
      <3>3. QED
        BY <1>4, <3>1, <3>2
    <2>3. \A s, t \in Threads : held'[s] = held'[t] /\ held'[s] # NoBuf => s = t
      BY <1>4 DEF Owners, Apart
    <2>4. deleted' \cap (In(queue') \cup In(rqueue')) = {}
      BY <1>1, <1>3, <1>2 DEF Owners, Apart
    <2>5. QED
      BY <2>1, <2>2, <2>3, <2>4 DEF Apart
  <1>7. Allocated'
    BY <1>1, <1>3, <1>4, NothingNew
  <1>8. RecycledBound'
    BY DEF Owners, RecycledBound
  <1>9. QueueBound'
    <2>1. High > 0 => Len(queue') <= High
      BY <1>1, <1>3, BufXAssumption DEF Full
    <2>2. QED
      BY <1>3, <1>4, <2>1, BufXAssumption DEF QueueBound, Holders
  <1>10. QED
    BY <1>5, <1>6, <1>7, <1>8, <1>9 DEF Owners

\* put() failed, or its timeout came: the caller deletes its buffer.
LEMMA Drops ==
  ASSUME Streaming, Owners, NEW c \in Clients, held[c] # NoBuf, Hold(c, NoBuf),
         deleted' = deleted \cup {held[c]}, UNCHANGED <<queue, rqueue, next>>
  PROVE  Owners'
  <1>1. c \in Threads /\ held[c] \in Bufs
    BY DEF Owners, Typed, Threads
  <1>2. /\ held'[c] = NoBuf /\ \A s \in Threads : s # c => held'[s] = held[s]
        /\ held' \in [Threads -> Bufs \cup {NoBuf}] /\ Holders' = Holders
    BY <1>1, HoldersAfter DEF Owners
  <1>3. Typed'
    BY <1>1, <1>2 DEF Owners, Typed
  <1>4. NoBuf \notin In(queue') \cup In(rqueue') \cup deleted'
    BY <1>3, BufNumbers, InQueueType DEF Typed
  <1>5. Apart'
    BY <1>1, <1>2, <1>4 DEF Owners, Apart
  <1>6. Allocated'
    BY <1>1, <1>2, NothingNew
  <1>7. RecycledBound' /\ QueueBound'
    BY <1>2 DEF Owners, RecycledBound, QueueBound, Holders
  <1>8. QED
    BY <1>3, <1>5, <1>6, <1>7 DEF Owners

\* take(): a worker gets the head of the queue.
LEMMA Takes ==
  ASSUME Streaming, Owners, NEW w \in Workers, held[w] = NoBuf, queue # <<>>,
         Hold(w, Head(queue)), queue' = Tail(queue), UNCHANGED <<rqueue, next, deleted>>
  PROVE  Owners'
  <1>1. queue \in Seq(Bufs) /\ Distinct(queue) /\ w \in Threads
    BY DEF Owners, Typed, Apart, Threads
  <1>2. /\ Head(queue) \in Bufs /\ Tail(queue) \in Seq(Bufs)
        /\ Len(queue) \in Nat /\ Len(queue) > 0 /\ Len(Tail(queue)) = Len(queue) - 1
        /\ Head(queue) \in In(queue) /\ In(Tail(queue)) \subseteq In(queue)
        /\ Distinct(Tail(queue)) /\ Head(queue) \notin In(Tail(queue))
    BY <1>1, Popped
  <1>3. Head(queue) # NoBuf
    BY <1>2, BufNumbers
  <1>4. /\ held'[w] = Head(queue) /\ \A s \in Threads : s # w => held'[s] = held[s]
        /\ held' \in [Threads -> Bufs \cup {NoBuf}]
        /\ Cardinality(Holders) \in Nat /\ Cardinality(Holders') = Cardinality(Holders) + 1
        /\ Cardinality(Workers) \in Nat
    BY <1>1, <1>2, <1>3, HoldersAfter DEF Owners
  <1>5. Typed'
    BY <1>2, <1>4 DEF Owners, Typed
  <1>6. Apart'
    BY <1>2, <1>4 DEF Owners, Apart
  <1>7. Allocated'
    BY <1>1, <1>2, <1>4, NothingNew
  <1>8. RecycledBound'
    BY DEF Owners, RecycledBound
  <1>9. QueueBound'
    BY <1>2, <1>4, BufXAssumption DEF Owners, QueueBound, Holders
  <1>10. QED
    BY <1>5, <1>6, <1>7, <1>8, <1>9 DEF Owners

\* untake(): the buffer is the next one again; after the end it is lost.
LEMMA GoesBack ==
  ASSUME Streaming, Owners, NEW w \in Workers, held[w] # NoBuf, Hold(w, NoBuf),
         queue' = IF ok THEN <<held[w]>> \o queue ELSE queue, UNCHANGED <<rqueue, next, deleted>>
  PROVE  Owners'
  <1>1. /\ w \in Threads /\ held[w] \in Bufs /\ queue \in Seq(Bufs) /\ Distinct(queue)
        /\ Len(queue) \in Nat
    BY DEF Owners, Typed, Apart, Threads
  <1>2. /\ held'[w] = NoBuf /\ \A s \in Threads : s # w => held'[s] = held[s]
        /\ held' \in [Threads -> Bufs \cup {NoBuf}]
        /\ Cardinality(Holders) \in Nat /\ Cardinality(Holders') = Cardinality(Holders) - 1
        /\ Cardinality(Workers) \in Nat
    BY <1>1, HoldersAfter DEF Owners
  <1>3. held[w] \notin In(queue) /\ held[w] \notin In(rqueue) /\ held[w] \notin deleted
    BY <1>1 DEF Owners, Apart
  <1>4. /\ queue' \in Seq(Bufs) /\ Distinct(queue')
        /\ In(queue') \in {In(queue), In(queue) \cup {held[w]}}
        /\ Len(queue') \in {Len(queue), Len(queue) + 1}
    <2>1. /\ <<held[w]>> \o queue \in Seq(Bufs) /\ Distinct(<<held[w]>> \o queue)
          /\ In(<<held[w]>> \o queue) = In(queue) \cup {held[w]}
          /\ Len(<<held[w]>> \o queue) = Len(queue) + 1
      BY <1>1, <1>3, JoinedByOne
    <2>2. QED
      BY <1>1, <2>1
  <1>5. Typed'
    BY <1>2, <1>4 DEF Owners, Typed
  <1>6. NoBuf \notin In(queue') \cup In(rqueue') \cup deleted'
    BY <1>5, BufNumbers, InQueueType DEF Typed
  <1>7. Apart'
    BY <1>1, <1>2, <1>3, <1>4, <1>6 DEF Owners, Apart
  <1>8. Allocated'
    BY <1>1, <1>2, <1>4, NothingNew
  <1>9. RecycledBound'
    BY DEF Owners, RecycledBound
  <1>10. QueueBound'
    BY <1>1, <1>2, <1>4, BufXAssumption DEF Owners, QueueBound, Holders
  <1>11. QED
    BY <1>5, <1>7, <1>8, <1>9, <1>10 DEF Owners

\* The recycling queue after some buffers were added to it.
LEMMA RecycledKept ==
  ASSUME NEW rq \in Seq(Bufs), NEW bufs \in Seq(Bufs), Distinct(rq), Distinct(bufs),
         In(rq) \cap In(bufs) = {}
  PROVE  /\ Recycled(rq, bufs) \in Seq(Bufs) /\ Distinct(Recycled(rq, bufs))
         /\ Len(Recycled(rq, bufs)) <= MaxRecycled
         /\ In(Recycled(rq, bufs)) \subseteq In(rq) \cup In(bufs)
  <1>1. rq \o bufs \in Seq(Bufs) /\ Distinct(rq \o bufs) /\ In(rq \o bufs) = In(rq) \cup In(bufs)
    BY Joined
  <1>2. QED
    BY <1>1, Kept DEF Recycled

\* recycle(): the oldest buffer is deleted if there is no room.
LEMMA Recycles ==
  ASSUME Streaming, Owners, NEW w \in Workers, held[w] # NoBuf, Hold(w, NoBuf),
         rqueue' = Recycled(rqueue, <<held[w]>>), deleted' = deleted \cup (In(rqueue) \ In(rqueue')),
         UNCHANGED <<queue, next>>
  PROVE  Owners'
  <1>1. /\ w \in Threads /\ held[w] \in Bufs /\ rqueue \in Seq(Bufs) /\ Distinct(rqueue)
    BY DEF Owners, Typed, Apart, Threads
  <1>2. /\ held'[w] = NoBuf /\ \A s \in Threads : s # w => held'[s] = held[s]
        /\ held' \in [Threads -> Bufs \cup {NoBuf}]
        /\ Cardinality(Holders) \in Nat /\ Cardinality(Holders') = Cardinality(Holders) - 1
        /\ Cardinality(Workers) \in Nat
    BY <1>1, HoldersAfter DEF Owners
  <1>3. held[w] \notin In(queue) /\ held[w] \notin In(rqueue) /\ held[w] \notin deleted
    BY <1>1 DEF Owners, Apart
  <1>4. /\ rqueue' \in Seq(Bufs) /\ Distinct(rqueue') /\ Len(rqueue') <= MaxRecycled
        /\ In(rqueue') \subseteq In(rqueue) \cup {held[w]}
    <2> DEFINE one == <<held[w]>>
    <2>1. one \in Seq(Bufs) /\ In(one) = {held[w]} /\ Distinct(one)
      BY <1>1, OneOnQueue
    <2>2. rqueue' = Recycled(rqueue, one)
      OBVIOUS
    <2> HIDE DEF one
    <2>3. In(rqueue) \cap In(one) = {}
      BY <1>3, <2>1
    <2>4. /\ Recycled(rqueue, one) \in Seq(Bufs) /\ Distinct(Recycled(rqueue, one))
          /\ Len(Recycled(rqueue, one)) <= MaxRecycled
          /\ In(Recycled(rqueue, one)) \subseteq In(rqueue) \cup In(one)
      BY <1>1, <2>1, <2>3, RecycledKept, Zenon
    <2>5. QED
      BY <2>1, <2>2, <2>4
  <1>5. Typed'
    BY <1>1, <1>2, <1>4, InQueueType DEF Owners, Typed
  <1>6. NoBuf \notin In(queue') \cup In(rqueue') \cup deleted'
    BY <1>5, BufNumbers, InQueueType DEF Typed
  <1>7. Apart'
    <2>1. Distinct(queue') /\ Distinct(rqueue') /\ In(queue') \cap In(rqueue') = {}
      BY <1>3, <1>4 DEF Owners, Apart
    <2>2. \A t \in Threads : held'[t] \notin In(queue') \cup In(rqueue') \cup deleted'
      BY <1>1, <1>2, <1>4, <1>6 DEF Owners, Apart
    <2>3. \A s, t \in Threads : held'[s] = held'[t] /\ held'[s] # NoBuf => s = t
      BY <1>2 DEF Owners, Apart
    <2>4. deleted' \cap (In(queue') \cup In(rqueue')) = {}
      BY <1>3, <1>4 DEF Owners, Apart
    <2>5. QED
      BY <2>1, <2>2, <2>3, <2>4 DEF Apart
  <1>8. Allocated'
    BY <1>1, <1>2, <1>4, NothingNew
  <1>9. RecycledBound'
    BY <1>4 DEF RecycledBound
  <1>10. QueueBound'
    BY <1>2, BufXAssumption DEF Owners, Typed, QueueBound, Holders
  <1>11. QED
    BY <1>5, <1>7, <1>8, <1>9, <1>10 DEF Owners

\* reset(): the queue is recycled.
LEMMA Resets ==
  ASSUME Streaming, Owners, queue' = <<>>, rqueue' = Recycled(rqueue, queue),
         deleted' = deleted \cup ((In(queue) \cup In(rqueue)) \ In(rqueue')),
         UNCHANGED <<held, next>>
  PROVE  Owners'
  <1>1. /\ queue \in Seq(Bufs) /\ rqueue \in Seq(Bufs) /\ Distinct(queue) /\ Distinct(rqueue)
        /\ In(queue) \cap In(rqueue) = {} /\ Len(queue) \in Nat
    BY DEF Owners, Typed, Apart
  <1>2. /\ rqueue' \in Seq(Bufs) /\ Distinct(rqueue') /\ Len(rqueue') <= MaxRecycled
        /\ In(rqueue') \subseteq In(rqueue) \cup In(queue)
    BY <1>1, RecycledKept
  <1>3. In(queue') = {} /\ Distinct(queue') /\ queue' \in Seq(Bufs) /\ Len(queue') = 0
    BY EmptyQueue
  <1>4. Typed'
    BY <1>1, <1>2, <1>3, InQueueType DEF Owners, Typed
  <1>5. Apart'
    BY <1>2, <1>3 DEF Owners, Apart
  <1>6. Allocated'
    <2>1. \A t \in Threads : held'[t] \in In(queue) \cup {held[t], NoBuf}
      OBVIOUS
    <2>2. QED
      BY <1>2, <1>3, <2>1, NothingNew
  <1>7. RecycledBound'
    BY <1>2 DEF RecycledBound
  <1>8. QueueBound'
    <2>1. Holders' = Holders /\ Holders \subseteq Workers
      BY DEF Holders
    <2>2. QED
      BY <1>3, <2>1, HoldersCounted, BufXAssumption DEF QueueBound, Holders
  <1>9. QED
    BY <1>4, <1>5, <1>6, <1>7, <1>8 DEF Owners
-----------------------------------------------------------------------------
\* Where the threads are, and the two counters.

Calls == {"out", "put", "waitidle", "take"}
Control ==
  /\ ok \in BOOLEAN
  /\ clientsWaiting \in 0 .. UIntMax /\ workersWaiting \in 0 .. UIntMax
  /\ ccond \subseteq Clients /\ wcond \subseteq Workers
  /\ at \in [Threads -> Calls]
  /\ arg \in [Threads -> [buf : Bufs \cup {NoBuf}, flush : BOOLEAN]]
  /\ \A t \in Threads : at[t] = "put" <=> arg[t].buf # NoBuf
  /\ Positions /\ CountersLeak

\* How many threads wait after one of them returned or began to wait.
LEMMA WaitingAfter ==
  ASSUME Streaming, Control, NEW t \in Threads, NEW call \in Calls, at' = [at EXCEPT ![t] = call],
         NEW S \in {Clients, Workers}
  PROVE  /\ Cardinality(Waiting(S)) \in Nat /\ Cardinality(Waiting(S)') \in Nat
         /\ Cardinality(Waiting(S)) <= Cardinality(S) /\ Cardinality(Waiting(S)') <= Cardinality(S)
         /\ Cardinality(S) \in Nat /\ MaxLeak + Cardinality(S) <= UIntMax
         /\ t \notin S \/ (at[t] = "out" <=> call = "out") =>
              Cardinality(Waiting(S)') = Cardinality(Waiting(S))
         /\ t \in S /\ at[t] = "out" /\ call # "out" =>
              Cardinality(Waiting(S)') = Cardinality(Waiting(S)) + 1
         /\ t \in S /\ at[t] # "out" =>
              /\ Cardinality(Waiting(S)) > 0
              /\ call = "out" => Cardinality(Waiting(S)') = Cardinality(Waiting(S)) - 1
  <1>1. /\ S \subseteq Threads /\ IsFiniteSet(S) /\ MaxLeak + Cardinality(S) <= UIntMax
        /\ Waiting(S) \subseteq S /\ Waiting(S)' \subseteq S
    BY BufXAssumption DEF Streaming, Threads, Waiting
  <1>2. at'[t] = call /\ \A s \in Threads : s # t => at'[s] = at[s]
    BY DEF Control
  <1>3. /\ IsFiniteSet(Waiting(S)) /\ IsFiniteSet(Waiting(S)')
        /\ Cardinality(Waiting(S)) \in Nat /\ Cardinality(Waiting(S)') \in Nat
        /\ Cardinality(Waiting(S)) <= Cardinality(S) /\ Cardinality(Waiting(S)') <= Cardinality(S)
        /\ Cardinality(S) \in Nat
    BY <1>1, FS_Subset, FS_CardinalityType
  <1>4. ASSUME t \notin S \/ (at[t] = "out" <=> call = "out")
        PROVE  Waiting(S)' = Waiting(S)
    BY <1>1, <1>2, <1>4 DEF Waiting
  <1>5. ASSUME t \in S, at[t] = "out", call # "out"
        PROVE  Cardinality(Waiting(S)') = Cardinality(Waiting(S)) + 1
    <2>1. t \notin Waiting(S) /\ Waiting(S)' = Waiting(S) \cup {t}
      BY <1>1, <1>2, <1>5 DEF Waiting
    <2>2. QED
      BY <1>3, <2>1, FS_AddElement
  <1>6. ASSUME t \in S, at[t] # "out"
        PROVE  /\ Cardinality(Waiting(S)) > 0
               /\ call = "out" => Cardinality(Waiting(S)') = Cardinality(Waiting(S)) - 1
    <2>1. t \in Waiting(S) /\ (call = "out" => Waiting(S)' = Waiting(S) \ {t})
      BY <1>1, <1>2, <1>6 DEF Waiting
    <2>2. /\ Cardinality(Waiting(S) \ {t}) = Cardinality(Waiting(S)) - 1
          /\ Cardinality(Waiting(S) \ {t}) \in Nat
      BY <1>3, <2>1, FS_RemoveElement, FS_CardinalityType
    <2>3. QED
      BY <1>3, <2>1, <2>2
  <1>7. QED
    BY <1>1, <1>3, <1>4, <1>5, <1>6

\* The counters after the steps of take(), put() and waitIdle().
LEMMA CountAfter ==
  ASSUME Streaming, Control, NEW t \in Threads, NEW call \in Calls, at' = [at EXCEPT ![t] = call],
         NEW S \in {Clients, Workers}, NEW n, Leaks(n, S)
  PROVE  /\ n \in 0 .. UIntMax
         /\ t \notin S \/ (at[t] = "out" <=> call = "out") =>
              n \in Cardinality(Waiting(S)') .. Cardinality(Waiting(S)') + MaxLeak
         /\ t \in S /\ at[t] = "out" /\ call # "out" =>
              /\ Inc(n) \in 0 .. UIntMax
              /\ Inc(n) \in Cardinality(Waiting(S)') .. Cardinality(Waiting(S)') + MaxLeak
         /\ t \in S /\ at[t] # "out" =>
              /\ n > 0 /\ Inc(Dec(n)) = n /\ Dec(n) \in 0 .. UIntMax
              /\ call = "out" =>
                   /\ Dec(n) \in Cardinality(Waiting(S)') .. Cardinality(Waiting(S)') + MaxLeak
                   /\ n <= MaxLeak =>
                        n \in Cardinality(Waiting(S)') .. Cardinality(Waiting(S)') + MaxLeak
  <1> DEFINE k == Cardinality(Waiting(S))
             l == Cardinality(Waiting(S)')
  <1>1. /\ k \in Nat /\ l \in Nat /\ MaxLeak \in Nat /\ UIntMax \in Nat /\ Cardinality(S) \in Nat
        /\ k <= Cardinality(S) /\ l <= Cardinality(S) /\ MaxLeak + Cardinality(S) <= UIntMax
        /\ t \notin S \/ (at[t] = "out" <=> call = "out") => l = k
        /\ t \in S /\ at[t] = "out" /\ call # "out" => l = k + 1
        /\ t \in S /\ at[t] # "out" => k > 0 /\ (call = "out" => l = k - 1)
        /\ n \in k .. k + MaxLeak
    BY WaitingAfter, BufXAssumption DEF Streaming, Leaks
  <1> HIDE DEF k, l
  <1>2. n \in Nat /\ n <= UIntMax
    BY <1>1
  <1>3. t \in S /\ at[t] = "out" /\ call # "out" => n < UIntMax
    BY <1>1, <1>2
  <1>4. /\ n > 0 => Dec(n) = n - 1 /\ Inc(Dec(n)) = n
        /\ n < UIntMax => Inc(n) = n + 1
    BY <1>1, <1>2 DEF Inc, Dec
  <1>5. /\ n \in 0 .. UIntMax
        /\ t \notin S \/ (at[t] = "out" <=> call = "out") => n \in l .. l + MaxLeak
        /\ t \in S /\ at[t] = "out" /\ call # "out" =>
             Inc(n) \in 0 .. UIntMax /\ Inc(n) \in l .. l + MaxLeak
        /\ t \in S /\ at[t] # "out" =>
             /\ n > 0 /\ Inc(Dec(n)) = n /\ Dec(n) \in 0 .. UIntMax
             /\ call = "out" => /\ Dec(n) \in l .. l + MaxLeak
                                /\ n <= MaxLeak => n \in l .. l + MaxLeak
    BY <1>1, <1>2, <1>3, <1>4
  <1>6. QED
    BY <1>5 DEF l

\* What a step of one thread changes of all that.
Alone(t, call) ==
  /\ call \in Calls /\ at' = [at EXCEPT ![t] = call] /\ ok' = ok
  /\ \A s \in Threads : s # t => held'[s] = held[s] /\ arg'[s] = arg[s]
  /\ arg' \in [Threads -> [buf : Bufs \cup {NoBuf}, flush : BOOLEAN]]
  /\ call = "put" <=> arg'[t].buf # NoBuf

LEMMA ClientSteps ==
  ASSUME Streaming, Control, NEW c \in Clients, NEW call, Alone(c, call), call # "take",
         call = "put" => arg'[c].buf = held'[c],
         ccond' \subseteq ccond \cup {c}, call = "out" => c \notin ccond',
         wcond' \subseteq wcond, workersWaiting' = workersWaiting,
         \/ clientsWaiting' = clientsWaiting /\ (at[c] = "out" <=> call = "out")
         \/ clientsWaiting' = Inc(clientsWaiting) /\ at[c] = "out" /\ call # "out"
         \/ clientsWaiting' = Inc(Dec(clientsWaiting)) /\ at[c] # "out" /\ call # "out"
         \/ clientsWaiting' = Dec(clientsWaiting) /\ at[c] # "out" /\ call = "out"
         \/ clientsWaiting' = clientsWaiting /\ at[c] # "out" /\ call = "out" /\ clientsWaiting <= MaxLeak
  PROVE  Control'
  <1>1. /\ c \in Threads /\ c \notin Workers /\ call \in Calls /\ at' = [at EXCEPT ![c] = call]
        /\ at'[c] = call /\ \A s \in Threads : s # c => at'[s] = at[s]
    BY DEF Threads, Streaming, Alone, Control
  <1>2. Leaks(clientsWaiting, Clients) /\ Leaks(workersWaiting, Workers)
    BY DEF Control, CountersLeak
  <1>3. /\ workersWaiting' \in 0 .. UIntMax
        /\ workersWaiting' \in Cardinality(Waiting(Workers)') .. Cardinality(Waiting(Workers)') + MaxLeak
    BY <1>1, <1>2, CountAfter
  <1>4. /\ clientsWaiting' \in 0 .. UIntMax
        /\ clientsWaiting' \in Cardinality(Waiting(Clients)') .. Cardinality(Waiting(Clients)') + MaxLeak
    <2> DEFINE n == clientsWaiting
               l == Cardinality(Waiting(Clients)')
    <2>1. /\ n \in 0 .. UIntMax
          /\ (at[c] = "out" <=> call = "out") => n \in l .. l + MaxLeak
          /\ at[c] = "out" /\ call # "out" => Inc(n) \in 0 .. UIntMax /\ Inc(n) \in l .. l + MaxLeak
          /\ at[c] # "out" =>
               /\ Inc(Dec(n)) = n /\ Dec(n) \in 0 .. UIntMax
               /\ call = "out" => /\ Dec(n) \in l .. l + MaxLeak
                                  /\ n <= MaxLeak => n \in l .. l + MaxLeak
      BY <1>1, <1>2, CountAfter
    <2>2. QED
      BY <2>1
  <1>5. CountersLeak'
    BY <1>3, <1>4 DEF CountersLeak, Leaks
  <1>6. Positions'
    BY <1>1 DEF Control, Positions, Alone, Threads
  <1>7. \A t \in Threads : at'[t] = "put" <=> arg'[t].buf # NoBuf
    BY <1>1 DEF Control, Alone
  <1>8. at' \in [Threads -> Calls] /\ ok' \in BOOLEAN /\ ccond' \subseteq Clients /\ wcond' \subseteq Workers
    BY <1>1 DEF Control, Alone
  <1>9. QED
    BY <1>3, <1>4, <1>5, <1>6, <1>7, <1>8 DEF Control, Alone

LEMMA WorkerSteps ==
  ASSUME Streaming, Control, NEW w \in Workers, NEW call, Alone(w, call), call \in {"out", "take"},
         call = "take" => held'[w] = NoBuf,
         wcond' \subseteq wcond \cup {w}, call = "out" => w \notin wcond',
         ccond' \subseteq ccond, clientsWaiting' = clientsWaiting,
         \/ workersWaiting' = workersWaiting /\ (at[w] = "out" <=> call = "out")
         \/ workersWaiting' = Inc(workersWaiting) /\ at[w] = "out" /\ call # "out"
         \/ workersWaiting' = Inc(Dec(workersWaiting)) /\ at[w] # "out" /\ call # "out"
         \/ workersWaiting' = Dec(workersWaiting) /\ at[w] # "out" /\ call = "out"
         \/ workersWaiting' = workersWaiting /\ at[w] # "out" /\ call = "out" /\ workersWaiting <= MaxLeak
  PROVE  Control'
  <1>1. /\ w \in Threads /\ w \notin Clients /\ call \in Calls /\ at' = [at EXCEPT ![w] = call]
        /\ at'[w] = call /\ \A s \in Threads : s # w => at'[s] = at[s]
    BY DEF Threads, Streaming, Alone, Control
  <1>2. Leaks(clientsWaiting, Clients) /\ Leaks(workersWaiting, Workers)
    BY DEF Control, CountersLeak
  <1>3. /\ clientsWaiting' \in 0 .. UIntMax
        /\ clientsWaiting' \in Cardinality(Waiting(Clients)') .. Cardinality(Waiting(Clients)') + MaxLeak
    BY <1>1, <1>2, CountAfter
  <1>4. /\ workersWaiting' \in 0 .. UIntMax
        /\ workersWaiting' \in Cardinality(Waiting(Workers)') .. Cardinality(Waiting(Workers)') + MaxLeak
    <2> DEFINE n == workersWaiting
               l == Cardinality(Waiting(Workers)')
    <2>1. /\ n \in 0 .. UIntMax
          /\ (at[w] = "out" <=> call = "out") => n \in l .. l + MaxLeak
          /\ at[w] = "out" /\ call # "out" => Inc(n) \in 0 .. UIntMax /\ Inc(n) \in l .. l + MaxLeak
          /\ at[w] # "out" =>
               /\ Inc(Dec(n)) = n /\ Dec(n) \in 0 .. UIntMax
               /\ call = "out" => /\ Dec(n) \in l .. l + MaxLeak
                                  /\ n <= MaxLeak => n \in l .. l + MaxLeak
      BY <1>1, <1>2, CountAfter
    <2>2. QED
      BY <2>1
  <1>5. CountersLeak'
    BY <1>3, <1>4 DEF CountersLeak, Leaks
  <1>6. Positions'
    BY <1>1 DEF Control, Positions, Alone, Threads
  <1>7. \A t \in Threads : at'[t] = "put" <=> arg'[t].buf # NoBuf
    BY <1>1 DEF Control, Alone
  <1>8. at' \in [Threads -> Calls] /\ ok' \in BOOLEAN /\ ccond' \subseteq Clients /\ wcond' \subseteq Workers
    BY <1>1 DEF Control, Alone
  <1>9. QED
    BY <1>3, <1>4, <1>5, <1>6, <1>7, <1>8 DEF Control, Alone

\* A step of no thread in particular: some of those that were blocked may run again.
LEMMA WakeSteps ==
  ASSUME Control, ccond' \subseteq ccond, wcond' \subseteq wcond, ok' \in BOOLEAN,
         UNCHANGED <<counts, at, arg, held>>
  PROVE  Control'
  <1>1. Waiting(Clients)' = Waiting(Clients) /\ Waiting(Workers)' = Waiting(Workers)
    BY DEF Waiting
  <1>2. CountersLeak'
    BY <1>1 DEF Control, CountersLeak, Leaks, counts
  <1>3. Positions'
    BY DEF Control, Positions
  <1>4. QED
    BY <1>2, <1>3 DEF Control, counts

-----------------------------------------------------------------------------
\* The wakeups.

\* A worker that is blocked is counted: put() notifies.
LEMMA BlockedIsCounted ==
  ASSUME Streaming, Control, wcond # {}
  PROVE  workersWaiting > 0
  <1>1. PICK w \in Workers : w \in wcond /\ at[w] = "take" /\ w \in Threads
    BY DEF Control, Positions, Threads
  <1>2. w \in Waiting(Workers)
    BY <1>1 DEF Waiting
  <1>3. IsFiniteSet(Waiting(Workers))
    BY BufXAssumption, FS_Subset DEF Waiting
  <1>4. Cardinality(Waiting(Workers)) \in Nat /\ Cardinality(Waiting(Workers)) # 0
    BY <1>2, <1>3, FS_CardinalityType, FS_EmptySet
  <1>5. QED
    BY <1>4 DEF Control, CountersLeak, Leaks, Streaming

LEMMA WakesOne ==
  ASSUME Streaming, Control, wcond' \in IF workersWaiting > 0 THEN Notified(wcond) ELSE {wcond}
  PROVE  wcond' \subseteq wcond /\ \E w \in Workers : w \notin wcond'
  <1>1. CASE wcond = {}
    BY <1>1 DEF Notified, Streaming
  <1>2. CASE wcond # {}
    <2>1. PICK w \in wcond : wcond' = wcond \ {w}
      BY <1>2, BlockedIsCounted DEF Notified
    <2>2. QED
      BY <2>1 DEF Control
  <1>3. QED
    BY <1>1, <1>2

LEMMA StaysAwake ==
  ASSUME NoLostWakeup, wcond' \subseteq wcond, ok' => ok, queue' # <<>> => queue # <<>>
  PROVE  NoLostWakeup'
BY DEF NoLostWakeup
-----------------------------------------------------------------------------
\* The invariant, action by action.

PInv == Owners /\ Control /\ NoLostWakeup

\* What put() may do with the buffer of its caller.
LEMMA PutOwners ==
  ASSUME Streaming, Owners, NEW c \in Clients, held[c] # NoBuf, NEW flush, NEW r,
         PutEnd(c, held[c], flush, r) \/ PutRefused(c, r) \/ PutSleeps(c, r),
         PutDone(c, r), UNCHANGED rqueue
  PROVE  /\ Owners'
         /\ \A s \in Threads : s # c => held'[s] = held[s]
         /\ held'[c] = IF r = Waits THEN held[c] ELSE NoBuf
  <1>1. /\ c \in Threads /\ held \in [Threads -> Bufs \cup {NoBuf}]
        /\ held' = [held EXCEPT ![c] = IF r = Waits THEN held[c] ELSE NoBuf]
    BY DEF Owners, Typed, Threads, PutDone, Hold
  <1>2. CASE PutEnd(c, held[c], flush, r)
    <2>1. /\ ~ Full /\ queue' = Append(IF flush THEN <<>> ELSE queue, held[c]) /\ r = Yes
      BY <1>2 DEF PutEnd
    <2>2. /\ Hold(c, NoBuf) /\ deleted' = deleted \cup (In(queue) \ In(queue')) /\ next' = next
      BY <2>1 DEF PutDone, Yes, No, Waits
    <2>3. Owners'
      BY <2>1, <2>2, Queues
    <2>4. QED
      BY <1>1, <2>3
  <1>3. CASE PutRefused(c, r)
    <2>1. queue' = queue /\ r = No
      BY <1>3 DEF PutRefused
    <2>2. /\ Hold(c, NoBuf) /\ deleted' = deleted \cup {held[c]} /\ next' = next
      BY <2>1 DEF PutDone, Yes, No, Waits
    <2>3. Owners'
      BY <2>1, <2>2, Drops
    <2>4. QED
      BY <1>1, <2>3
  <1>4. CASE PutSleeps(c, r)
    <2>1. queue' = queue /\ r = Waits
      BY <1>4 DEF PutSleeps
    <2>2. deleted' = deleted /\ next' = next /\ held' = held
      BY <1>1, <2>1 DEF PutDone, Yes, No, Waits
    <2>3. QED
      BY <1>1, <2>1, <2>2, Stays
  <1>5. QED
    BY <1>2, <1>3, <1>4

\* put() and the wakeup that it owes.
LEMMA PutWakes ==
  ASSUME Streaming, PInv, NEW c, NEW buf, NEW flush, NEW r,
         PutEnd(c, buf, flush, r) \/ PutRefused(c, r) \/ PutSleeps(c, r), ok' = ok
  PROVE  wcond' \subseteq wcond /\ NoLostWakeup'
  <1>1. CASE PutEnd(c, buf, flush, r)
    <2>1. wcond' \subseteq wcond /\ \E w \in Workers : w \notin wcond'
      BY <1>1, WakesOne DEF PInv, PutEnd
    <2>2. QED
      BY <2>1 DEF NoLostWakeup
  <1>2. CASE PutRefused(c, r) \/ PutSleeps(c, r)
    <2>1. wcond' = wcond /\ queue' = queue
      BY <1>2 DEF PutRefused, PutSleeps, conds
    <2>2. QED
      BY <2>1, StaysAwake DEF PInv
  <1>3. QED
    BY <1>1, <1>2

LEMMA AcquireInv ==
  ASSUME Streaming, PInv, NEW c \in Clients, Acquire(c)
  PROVE  PInv'
  <1>1. /\ held[c] = NoBuf /\ next < MaxBufs /\ next' = next + 1 /\ at[c] = "out"
        /\ UNCHANGED <<queue, ok, counts, conds, at, arg>>
    BY DEF Acquire, TakeRecycled
  <1>2. Owners' /\ \E b : Hold(c, b)
    <2>1. CASE TakeRecycled(c, Yes) /\ Hold(c, Head(rqueue)) /\ UNCHANGED deleted
      <3>1. rqueue # <<>> /\ rqueue' = Tail(rqueue)
        BY <2>1 DEF TakeRecycled, Result, Yes, No
      <3>2. QED
        BY <1>1, <2>1, <3>1, GetsRecycled DEF PInv
    <2>2. CASE TakeRecycled(c, No) /\ Hold(c, next + 1) /\ UNCHANGED deleted
      <3>1. rqueue' = rqueue
        BY <2>2 DEF TakeRecycled, Result, Yes, No
      <3>2. QED
        BY <1>1, <2>2, <3>1, GetsNew DEF PInv
    <2>3. CASE TakeRecycled(c, Yes) /\ Hold(c, next + 1) /\ deleted' = deleted \cup {Head(rqueue)}
      <3>1. rqueue # <<>> /\ rqueue' = Tail(rqueue)
        BY <2>3 DEF TakeRecycled, Result, Yes, No
      <3>2. QED
        BY <1>1, <2>3, <3>1, GetsLarger DEF PInv
    <2>4. QED
      BY <2>1, <2>2, <2>3 DEF Acquire
  <1>3. Alone(c, "out")
    BY <1>1, <1>2 DEF Alone, Calls, PInv, Control, Owners, Typed, Hold, Threads
  <1>4. Control'
    <2>1. c \notin ccond /\ UNCHANGED <<ccond, wcond, clientsWaiting, workersWaiting>>
      BY <1>1 DEF PInv, Control, Positions, conds, counts
    <2>2. QED
      BY <1>1, <1>3, <2>1, ClientSteps DEF PInv
  <1>5. NoLostWakeup'
    BY <1>1, StaysAwake DEF PInv, conds
  <1>6. QED
    BY <1>2, <1>4, <1>5 DEF PInv

LEMMA UPutInv ==
  ASSUME Streaming, PInv, NEW c \in Clients, NEW flush \in BOOLEAN, UPut(c, flush)
  PROVE  PInv'
  <1>1. PICK r : Put(c, held[c], flush, r) /\ PutDone(c, r)
    BY DEF UPut
  <1>2. /\ held[c] # NoBuf /\ at[c] = "out" /\ UNCHANGED <<rqueue, ok, workersWaiting>>
        /\ PutEnd(c, held[c], flush, r) \/ PutRefused(c, r) \/ PutSleeps(c, r)
    BY <1>1 DEF UPut, Put
  <1>3. /\ Owners' /\ wcond' \subseteq wcond /\ NoLostWakeup'
        /\ \A s \in Threads : s # c => held'[s] = held[s]
        /\ held'[c] = IF r = Waits THEN held[c] ELSE NoBuf
    BY <1>1, <1>2, PutOwners, PutWakes DEF PInv
  <1>4. c \in Threads /\ c \notin ccond /\ held[c] \in Bufs /\ arg[c].buf = NoBuf
    BY <1>2 DEF PInv, Control, Positions, Owners, Typed, Threads
  <1>5. Control'
    <2>1. CASE /\ PutEnd(c, held[c], flush, r) \/ PutRefused(c, r)
               /\ UNCHANGED <<clientsWaiting, arg>>
      <3>1. ccond' = ccond /\ at' = [at EXCEPT ![c] = "out"]
        BY <2>1 DEF PutEnd, PutRefused, Return, conds
      <3>2. Alone(c, "out")
        BY <1>2, <1>3, <1>4, <2>1, <3>1 DEF Alone, Calls, PInv, Control
      <3>3. QED
        BY <1>2, <1>3, <1>4, <2>1, <3>1, <3>2, ClientSteps DEF PInv
    <2>2. CASE /\ PutSleeps(c, r) /\ clientsWaiting' = Inc(clientsWaiting)
               /\ arg' = [arg EXCEPT ![c] = [buf |-> held[c], flush |-> flush]]
      <3>1. ccond' = ccond \cup {c} /\ at' = [at EXCEPT ![c] = "put"] /\ r = Waits
        BY <2>2 DEF PutSleeps, WaitIn
      <3>2. /\ arg'[c].buf = held[c] /\ \A s \in Threads : s # c => arg'[s] = arg[s]
            /\ arg' \in [Threads -> [buf : Bufs \cup {NoBuf}, flush : BOOLEAN]]
        BY <1>4, <2>2 DEF PInv, Control
      <3>3. Alone(c, "put")
        BY <1>2, <1>3, <1>4, <3>1, <3>2 DEF Alone, Calls, PInv, Control
      <3>4. QED
        BY <1>2, <1>3, <2>2, <3>1, <3>2, <3>3, ClientSteps DEF PInv
    <2>3. QED
      BY <1>1, <2>1, <2>2 DEF Put
  <1>6. QED
    BY <1>3, <1>5 DEF PInv

LEMMA UPutWakeInv ==
  ASSUME Streaming, PInv, NEW c \in Clients, UPutWake(c)
  PROVE  PInv'
  <1>1. PICK r : PutWake(c, r) /\ PutDone(c, r)
    BY DEF UPutWake
  <1>2. c \in Threads /\ at[c] = "put" /\ c \notin ccond /\ UNCHANGED <<rqueue, ok, workersWaiting>>
    BY <1>1 DEF PutWake, Threads
  <1>3. arg[c].buf = held[c] /\ held[c] # NoBuf
    BY <1>2 DEF PInv, Control, Positions
  <1>4. PutEnd(c, held[c], arg[c].flush, r) \/ PutRefused(c, r) \/ PutSleeps(c, r)
    BY <1>1, <1>3 DEF PutWake
  <1>5. /\ Owners' /\ wcond' \subseteq wcond /\ NoLostWakeup'
        /\ \A s \in Threads : s # c => held'[s] = held[s]
        /\ held'[c] = IF r = Waits THEN held[c] ELSE NoBuf
    BY <1>1, <1>2, <1>3, <1>4, PutOwners, PutWakes DEF PInv
  <1>6. Control'
    <2>1. CASE /\ PutEnd(c, arg[c].buf, arg[c].flush, r) \/ PutRefused(c, r)
               /\ clientsWaiting' = Dec(clientsWaiting) /\ arg' = [arg EXCEPT ![c] = NoArg]
      <3>1. ccond' = ccond /\ at' = [at EXCEPT ![c] = "out"]
        BY <2>1 DEF PutEnd, PutRefused, Return, conds
      <3>2. /\ arg'[c].buf = NoBuf /\ \A s \in Threads : s # c => arg'[s] = arg[s]
            /\ arg' \in [Threads -> [buf : Bufs \cup {NoBuf}, flush : BOOLEAN]]
        BY <1>2, <2>1 DEF PInv, Control, NoArg
      <3>3. Alone(c, "out")
        BY <1>2, <1>5, <3>1, <3>2 DEF Alone, Calls
      <3>4. QED
        BY <1>2, <1>5, <2>1, <3>1, <3>3, ClientSteps DEF PInv
    <2>2. CASE PutSleeps(c, r) /\ UNCHANGED <<clientsWaiting, arg>>
      <3>1. ccond' = ccond \cup {c} /\ at' = [at EXCEPT ![c] = "put"] /\ r = Waits
        BY <2>2 DEF PutSleeps, WaitIn
      <3>2. Alone(c, "put")
        BY <1>2, <1>3, <1>5, <2>2, <3>1 DEF Alone, Calls, PInv, Control
      <3>3. QED
        BY <1>2, <1>3, <1>5, <2>2, <3>1, <3>2, ClientSteps DEF PInv
    <2>3. QED
      BY <1>1, <2>1, <2>2 DEF PutWake
  <1>7. QED
    BY <1>5, <1>6 DEF PInv

LEMMA UTimeoutInv ==
  ASSUME Streaming, PInv, NEW c \in Clients, UTimeout(c)
  PROVE  PInv'
  <1>1. /\ at[c] \in {"put", "waitidle"} /\ clientsWaiting <= MaxLeak
        /\ ccond' = ccond \ {c} /\ arg' = [arg EXCEPT ![c] = NoArg]
        /\ at' = [at EXCEPT ![c] = "out"]
        /\ UNCHANGED <<queue, rqueue, ok, clientsWaiting, workersWaiting, wcond>> /\ c \in Threads
    BY DEF UTimeout, ClientTimeout, Return, counts, Threads
  <1>2. Owners' /\ \A s \in Threads : s # c => held'[s] = held[s]
    <2>1. CASE at[c] = "put"
      <3>1. held[c] # NoBuf
        BY <1>1, <2>1 DEF PInv, Control, Positions
      <3>2. Hold(c, NoBuf) /\ deleted' = deleted \cup {held[c]} /\ next' = next
        BY <1>1, <2>1 DEF UTimeout, PutDone, No, Waits
      <3>3. QED
        BY <1>1, <3>1, <3>2, Drops DEF PInv, Owners, Typed, Hold
    <2>2. CASE at[c] # "put"
      BY <1>1, <2>2, Stays DEF UTimeout, PInv
    <2>3. QED
      BY <2>1, <2>2
  <1>3. /\ arg'[c].buf = NoBuf /\ \A s \in Threads : s # c => arg'[s] = arg[s]
        /\ arg' \in [Threads -> [buf : Bufs \cup {NoBuf}, flush : BOOLEAN]]
    BY <1>1 DEF PInv, Control, NoArg
  <1>4. Alone(c, "out")
    BY <1>1, <1>2, <1>3 DEF Alone, Calls
  <1>5. Control'
    BY <1>1, <1>4, ClientSteps DEF PInv
  <1>6. NoLostWakeup'
    BY <1>1, StaysAwake DEF PInv
  <1>7. QED
    BY <1>2, <1>5, <1>6 DEF PInv

\* waitIdle(), from its call and from its wait.
LEMMA IdleInv ==
  ASSUME Streaming, PInv, NEW c \in Clients, NEW r, WaitIdle(c, r) \/ WaitIdleWake(c, r),
         UNCHANGED <<held, next, deleted>>
  PROVE  PInv'
  <1>1. /\ UNCHANGED <<queue, rqueue, ok, workersWaiting, wcond, arg>>
        /\ c \in Threads /\ at[c] \in {"out", "waitidle"} /\ c \notin ccond
    BY DEF WaitIdle, WaitIdleWake, PInv, Control, Positions, Threads
  <1>2. Owners' /\ NoLostWakeup'
    BY <1>1, Stays, StaysAwake DEF PInv
  <1>3. arg[c].buf = NoBuf
    BY <1>1 DEF PInv, Control
  <1>4. ASSUME NEW call \in {"out", "waitidle"}, at' = [at EXCEPT ![c] = call] PROVE Alone(c, call)
    BY <1>1, <1>3, <1>4 DEF Alone, Calls, PInv, Control
  <1>5. PICK n : IdleCheck(c, n, r) /\ \/ at[c] = "out" /\ n = clientsWaiting
                                       \/ at[c] = "waitidle" /\ n = Dec(clientsWaiting)
    BY DEF WaitIdle, WaitIdleWake
  <1>6. Control'
    <2>1. CASE /\ ccond' = ccond \cup {c} /\ clientsWaiting' = Inc(n)
               /\ at' = [at EXCEPT ![c] = "waitidle"]
      BY <1>1, <1>4, <1>5, <2>1, ClientSteps DEF PInv
    <2>2. CASE clientsWaiting' = n /\ at' = [at EXCEPT ![c] = "out"] /\ ccond' = ccond
      BY <1>1, <1>4, <1>5, <2>2, ClientSteps DEF PInv
    <2>3. QED
      BY <1>5, <2>1, <2>2 DEF IdleCheck, WaitIn, Return
  <1>7. QED
    BY <1>2, <1>6 DEF PInv

\* take(), from its call and from its wait.
LEMMA TakeInv ==
  ASSUME Streaming, PInv, NEW w \in Workers, held[w] = NoBuf, NEW r, Take(w, r) \/ TakeWake(w, r),
         TakeDone(w, r)
  PROVE  PInv'
  <1>1. /\ UNCHANGED <<rqueue, ok, clientsWaiting, arg, next, deleted>>
        /\ w \in Threads /\ at[w] \in {"out", "take"} /\ w \notin wcond
        /\ held \in [Threads -> Bufs \cup {NoBuf}]
    BY DEF Take, TakeWake, TakeDone, PInv, Control, Positions, Threads, Owners, Typed
  <1>2. PICK n : TakeCheck(w, n, r) /\ \/ at[w] = "out" /\ n = workersWaiting
                                       \/ at[w] = "take" /\ n = Dec(workersWaiting)
    BY DEF Take, TakeWake
  <1>3. ASSUME NEW call \in {"out", "take"}, at' = [at EXCEPT ![w] = call],
               \A s \in Threads : s # w => held'[s] = held[s]
        PROVE  Alone(w, call)
    BY <1>1, <1>3 DEF Alone, Calls, PInv, Control
  <1>4. CASE TakeRefused(w, n, r) \/ TakeSleeps(w, n, r)
    <2>1. held' = held /\ queue' = queue
      BY <1>1, <1>4 DEF TakeDone, Hold, TakeRefused, TakeSleeps, Yes, No, Waits
    <2>2. Owners'
      BY <1>1, <2>1, Stays DEF PInv
    <2>3. CASE TakeRefused(w, n, r)
      <3>1. /\ ccond' = ccond /\ wcond' = wcond /\ workersWaiting' = n
            /\ at' = [at EXCEPT ![w] = "out"]
        BY <2>3 DEF TakeRefused, Return, conds
      <3>2. Control'
        BY <1>1, <1>2, <1>3, <2>1, <3>1, WorkerSteps DEF PInv
      <3>3. QED
        BY <1>1, <2>1, <2>2, <3>1, <3>2, StaysAwake DEF PInv
    <2>4. CASE TakeSleeps(w, n, r)
      <3>1. /\ ccond' = {} /\ wcond' = wcond \cup {w} /\ workersWaiting' = Inc(n)
            /\ at' = [at EXCEPT ![w] = "take"] /\ queue = <<>>
        BY <2>4 DEF TakeSleeps, WaitIn
      <3>2. Control'
        BY <1>1, <1>2, <1>3, <2>1, <3>1, WorkerSteps DEF PInv
      <3>3. QED
        BY <2>1, <2>2, <3>1, <3>2 DEF PInv, NoLostWakeup
    <2>5. QED
      BY <1>4, <2>3, <2>4
  <1>5. CASE TakeBuf(w, n, r)
    <2>1. /\ queue # <<>> /\ queue' = Tail(queue) /\ workersWaiting' = n /\ r = Yes
          /\ ccond' \in IF clientsWaiting > 0 THEN Notified(ccond) ELSE {ccond}
          /\ at' = [at EXCEPT ![w] = "out"] /\ wcond' = wcond
      BY <1>5 DEF TakeBuf, Return
    <2>2. Hold(w, Head(queue)) /\ ccond' \subseteq ccond
      BY <2>1 DEF TakeDone, Notified
    <2>3. Owners'
      BY <1>1, <2>1, <2>2, Takes DEF PInv
    <2>4. \A s \in Threads : s # w => held'[s] = held[s]
      BY <1>1, <2>2 DEF Hold
    <2>5. Control'
      BY <1>1, <1>2, <1>3, <2>1, <2>2, <2>4, WorkerSteps DEF PInv
    <2>6. NoLostWakeup'
      BY <1>1, <2>1, StaysAwake DEF PInv
    <2>7. QED
      BY <2>3, <2>5, <2>6 DEF PInv
  <1>6. QED
    BY <1>2, <1>4, <1>5 DEF TakeCheck

LEMMA UTakeTimeoutInv ==
  ASSUME Streaming, PInv, NEW w \in Workers, UTakeTimeout(w)
  PROVE  PInv'
  <1>1. /\ at[w] = "take" /\ workersWaiting <= MaxLeak /\ w \in Threads
        /\ wcond' = wcond \ {w} /\ at' = [at EXCEPT ![w] = "out"]
        /\ UNCHANGED <<queue, rqueue, ok, clientsWaiting, workersWaiting, ccond, arg, held, next, deleted>>
    BY DEF UTakeTimeout, TakeTimeout, Return, counts, Threads
  <1>2. Alone(w, "out")
    BY <1>1 DEF Alone, Calls, PInv, Control
  <1>3. Control'
    BY <1>1, <1>2, WorkerSteps DEF PInv
  <1>4. Owners' /\ NoLostWakeup'
    BY <1>1, Stays, StaysAwake DEF PInv
  <1>5. QED
    BY <1>3, <1>4 DEF PInv

\* untake() and recycle(): the worker's buffer goes to one of the queues.
LEMMA GiveBackInv ==
  ASSUME Streaming, PInv, NEW w \in Workers, UUntake(w) \/ URecycle(w)
  PROVE  PInv'
  <1>1. /\ held[w] # NoBuf /\ at[w] = "out" /\ Hold(w, NoBuf) /\ w \in Threads /\ w \notin wcond
        /\ UNCHANGED <<ok, counts, conds, at, arg, next>>
    BY DEF UUntake, Untake, URecycle, Recycle, PInv, Control, Positions, Threads
  <1>2. Owners'
    <2>1. CASE UUntake(w)
      BY <1>1, <2>1, GoesBack DEF UUntake, Untake, PInv
    <2>2. CASE URecycle(w)
      BY <1>1, <2>2, Recycles DEF URecycle, Recycle, PInv
    <2>3. QED
      BY <2>1, <2>2
  <1>3. Alone(w, "out")
    BY <1>1 DEF Alone, Calls, PInv, Control, Owners, Typed, Hold
  <1>4. Control'
    BY <1>1, <1>3, WorkerSteps DEF PInv, conds, counts
  <1>5. NoLostWakeup'
    BY <1>1 DEF NoLostWakeup, conds
  <1>6. QED
    BY <1>2, <1>4, <1>5 DEF PInv

LEMMA UResetInv ==
  ASSUME Streaming, PInv, UReset
  PROVE  PInv'
  <1>1. /\ \A t \in Threads : at[t] = "out"
        /\ queue' = <<>> /\ rqueue' = Recycled(rqueue, queue)
        /\ clientsWaiting' = 0 /\ workersWaiting' = 0 /\ ok' = TRUE /\ ccond' = {} /\ wcond' = {}
        /\ UNCHANGED <<at, arg, held, next>>
        /\ deleted' = deleted \cup ((In(queue) \cup In(rqueue)) \ In(rqueue'))
    BY DEF UReset, Reset, Streaming
  <1>2. Owners'
    BY <1>1, Resets DEF PInv
  <1>3. Waiting(Clients)' = {} /\ Waiting(Workers)' = {}
    BY <1>1 DEF Waiting, Threads
  <1>4. CountersLeak'
    BY <1>1, <1>3, FS_EmptySet DEF CountersLeak, Leaks, Streaming
  <1>5. Positions'
    BY <1>1 DEF PInv, Control, Positions
  <1>6. Control'
    BY <1>1, <1>4, <1>5, BufXAssumption DEF PInv, Control
  <1>7. NoLostWakeup'
    BY <1>1 DEF NoLostWakeup
  <1>8. QED
    BY <1>2, <1>6, <1>7 DEF PInv

\* setTerminate(), and the wakeups that nobody asked for.
LEMMA WakeInv ==
  ASSUME PInv, UTerminate \/ (XWakeup /\ UNCHANGED <<held, next, deleted>>)
  PROVE  PInv'
  <1>1. /\ UNCHANGED <<queue, rqueue, counts, at, arg, held, next, deleted>>
        /\ ccond' \subseteq ccond /\ wcond' \subseteq wcond /\ (ok' = ok \/ ok' = FALSE)
    BY DEF UTerminate, SetTerminate, XWakeup
  <1>2. Owners'
    BY <1>1, Stays DEF PInv
  <1>3. NoLostWakeup'
    BY <1>1 DEF PInv, NoLostWakeup
  <1>4. ok' \in BOOLEAN
    BY <1>1 DEF PInv, Control
  <1>5. Control'
    BY <1>1, <1>4, WakeSteps DEF PInv
  <1>6. QED
    BY <1>2, <1>3, <1>5 DEF PInv

LEMMA StutterInv ==
  ASSUME PInv, UNCHANGED uvars
  PROVE  PInv'
  <1>1. UNCHANGED <<queue, rqueue, ok, ccond, wcond, counts, at, arg, held, next, deleted>>
    BY DEF uvars, xvars, conds
  <1>2. QED
    BY <1>1, Stays, StaysAwake, WakeSteps DEF PInv, Control

LEMMA InitPInv == Streaming /\ UInit => PInv
  <1> SUFFICES ASSUME Streaming, UInit PROVE PInv
    OBVIOUS
  <1>1. /\ queue = <<>> /\ rqueue = <<>> /\ ok = TRUE
        /\ clientsWaiting = 0 /\ workersWaiting = 0 /\ ccond = {} /\ wcond = {}
        /\ at = [t \in Threads |-> "out"] /\ arg = [t \in Threads |-> NoArg]
        /\ held = [t \in Threads |-> NoBuf] /\ next = 0 /\ deleted = {}
    BY DEF UInit, XInit
  <1>2. In(queue) = {} /\ In(rqueue) = {} /\ Distinct(queue) /\ Distinct(rqueue)
    BY <1>1, EmptyQueue
  <1>3. Typed /\ Apart /\ Allocated
    BY <1>1, <1>2 DEF Typed, Apart, Allocated, Streaming, NoBuf
  <1>4. Holders = {} /\ Waiting(Clients) = {} /\ Waiting(Workers) = {}
    BY <1>1 DEF Holders, Waiting, Threads
  <1>5. RecycledBound /\ QueueBound
    <2>1. Cardinality({}) = 0 /\ Cardinality(Workers) \in Nat /\ Len(queue) = 0 /\ Len(rqueue) = 0
      BY <1>1, FS_EmptySet, FS_CardinalityType, BufXAssumption
    <2>2. Cardinality(Holders) = 0
      BY <1>4, <2>1
    <2>3. QED
      BY <2>1, <2>2, BufXAssumption DEF RecycledBound, QueueBound, Holders
  <1>6. CountersLeak
    BY <1>1, <1>4, FS_EmptySet DEF CountersLeak, Leaks, Streaming
  <1>7. Positions
    BY <1>1 DEF Positions, Threads
  <1>8. Control
    BY <1>1, <1>6, <1>7, BufXAssumption DEF Control, Calls, NoArg
  <1>9. NoLostWakeup
    BY <1>1 DEF NoLostWakeup
  <1>10. QED
    BY <1>3, <1>5, <1>8, <1>9 DEF PInv, Owners

LEMMA NextPInv == Streaming /\ PInv /\ [UNext]_uvars => PInv'
  <1> SUFFICES ASSUME Streaming, PInv, [UNext]_uvars PROVE PInv'
    OBVIOUS
  <1>1. ASSUME NEW c \in Clients,
               Acquire(c) \/ UTimeout(c) \/ UPutWake(c) \/ \E flush \in BOOLEAN : UPut(c, flush)
        PROVE  PInv'
    BY <1>1, AcquireInv, UTimeoutInv, UPutWakeInv, UPutInv
  <1>2. ASSUME NEW c \in Clients, UWaitIdle(c) \/ UIdleWake(c) PROVE PInv'
    BY <1>2, IdleInv DEF UWaitIdle, UIdleWake
  <1>3. ASSUME NEW w \in Workers, UTake(w) \/ UTakeWake(w) PROVE PInv'
    <2>1. held[w] = NoBuf
      BY <1>3 DEF UTake, UTakeWake, TakeWake, PInv, Control, Positions
    <2>2. QED
      BY <1>3, <2>1, TakeInv DEF UTake, UTakeWake
  <1>4. ASSUME NEW w \in Workers, UTakeTimeout(w) \/ UUntake(w) \/ URecycle(w) PROVE PInv'
    BY <1>4, UTakeTimeoutInv, GiveBackInv
  <1>5. ASSUME UTerminate \/ UReset \/ (XWakeup /\ UNCHANGED <<held, next, deleted>>) \/ UNCHANGED uvars
        PROVE  PInv'
    BY <1>5, UResetInv, WakeInv, StutterInv
  <1>6. QED
    BY <1>1, <1>2, <1>3, <1>4, <1>5 DEF UNext, ClientResumes, WorkerGoesOn

LEMMA PInvMeans == Streaming /\ PInv => BuffersKept
  <1> SUFFICES ASSUME Streaming, PInv PROVE BuffersKept
    OBVIOUS
  <1>1. OneOwner
    BY OwnersMean DEF PInv
  <1>2. TypeOK
    BY DEF PInv, Owners, Typed, Control, TypeOK, Calls
  <1>3. QED
    BY <1>1, <1>2 DEF BuffersKept, PInv, Owners

\* Every buffer has one owner from its allocation to its only deletion, both queues
\* keep to their bounds, and no wakeup of put() is lost, for any number of threads,
\* buffers and timeouts, as long as reset() waits for the threads to return and
\* the counters do not wrap (put, take, untake, recycle, reset of bufxchange.h).
THEOREM BuffersHaveOneOwner ==
  ASSUME Streaming
  PROVE  USpec => []BuffersKept
  <1>1. UInit => PInv
    BY InitPInv
  <1>2. PInv /\ [UNext]_uvars => PInv'
    BY NextPInv
  <1>3. PInv => BuffersKept
    BY PInvMeans
  <1>4. QED
    BY <1>1, <1>2, <1>3, PTL DEF USpec
=============================================================================
