-------------------------- MODULE StreamProxy_proofs --------------------------
(***************************************************************************)
(* Proofs about one proxied request, for any resource, any sizes of the    *)
(* network reads and of MHD's buffers, and any number of network errors.   *)
(***************************************************************************)
EXTENDS MCStream, SequenceTheorems, TLAPS

-----------------------------------------------------------------------------
\* Buffers and the queue of them.

LEMMA Joined ==
  ASSUME NEW S, NEW s \in Seq(S), NEW t \in Seq(S)
  PROVE  /\ s \o t \in Seq(S) /\ Len(s \o t) = Len(s) + Len(t) /\ Len(s) \in Nat /\ Len(t) \in Nat
         /\ \A k \in 1 .. Len(s) + Len(t) : (s \o t)[k] = IF k <= Len(s) THEN s[k] ELSE t[k - Len(s)]
BY ConcatProperties

LEMMA Unit ==
  ASSUME NEW b \in Buffers
  PROVE  b[1] \in 0 .. Size /\ b[2] \in 0 .. Size /\ b = <<b[1], b[2]>> /\ Units(b) = b[2] - b[1]
BY DEF Buffers, Units

LEMMA OneBuffer ==
  ASSUME NEW a \in 0 .. Size, NEW b \in 0 .. Size
  PROVE  <<a, b>> \in Buffers /\ <<a, b>>[1] = a /\ <<a, b>>[2] = b /\ Units(<<a, b>>) = b - a
BY DEF Buffers, Units

LEMMA SizeFacts == Size \in Nat /\ 0 \in 0 .. Size /\ Size \in 0 .. Size /\ Empty \in Buffers
BY ProxyAssumption DEF Empty, Buffers

\* A buffer is put behind the last one.
LEMMA ChainAppended ==
  ASSUME NEW q \in Seq(Buffers), NEW e \in 0 .. Size, NEW f \in 0 .. Size,
         Chain(q, e), e < f \/ (e = Size /\ f = Size)
  PROVE  /\ Append(q, <<e, f>>) \in Seq(Buffers) /\ Chain(Append(q, <<e, f>>), f)
         /\ First(Append(q, <<e, f>>), f) = First(q, e)
  <1> DEFINE b == <<e, f>>
             s == Append(q, b)
  <1>1. b \in Buffers /\ b[1] = e /\ b[2] = f /\ (e < f \/ b = <<Size, Size>>)
    BY OneBuffer
  <1> HIDE DEF b
  <1>2. /\ s \in Seq(Buffers) /\ Len(s) = Len(q) + 1 /\ Len(q) \in Nat
        /\ \A i \in 1 .. Len(q) : s[i] = q[i]
        /\ s[Len(q) + 1] = b
    BY <1>1, AppendProperties
  <1> HIDE DEF s
  <1>3. Chain(s, f)
    <2> SUFFICES ASSUME NEW i \in 1 .. Len(s)
                 PROVE  /\ s[i][1] < s[i][2] \/ s[i] = <<Size, Size>>
                        /\ s[i][2] = IF i = Len(s) THEN f ELSE s[i + 1][1]
      BY DEF Chain
    <2>1. CASE i = Len(q) + 1
      BY <1>1, <1>2, <2>1
    <2>2. CASE i = Len(q)
      BY <1>1, <1>2, <2>2 DEF Chain
    <2>3. CASE i \in 1 .. Len(q) - 1
      <3>1. s[i] = q[i] /\ s[i + 1] = q[i + 1] /\ i # Len(q) /\ i # Len(s)
        BY <1>2, <2>3
      <3>2. QED
        BY <1>2, <2>3, <3>1 DEF Chain
    <2>4. QED
      BY <1>2, <2>1, <2>2, <2>3
  <1>4. First(s, f) = First(q, e)
    <2>1. s # <<>> /\ (q # <<>> => 1 \in 1 .. Len(q))
      BY <1>2
    <2>2. CASE q = <<>>
      BY <1>1, <1>2, <2>1, <2>2 DEF First
    <2>3. CASE q # <<>>
      BY <1>2, <2>1, <2>3 DEF First
    <2>4. QED
      BY <2>2, <2>3
  <1>5. QED
    BY <1>2, <1>3, <1>4 DEF b, s

\* The first buffer is taken.
LEMMA ChainTaken ==
  ASSUME NEW q \in Seq(Buffers), NEW e \in 0 .. Size, Chain(q, e), q # <<>>
  PROVE  /\ Tail(q) \in Seq(Buffers) /\ Chain(Tail(q), e)
         /\ Head(q) \in Buffers
         /\ First(q, e) = Head(q)[1] /\ First(Tail(q), e) = Head(q)[2]
         /\ Head(q)[1] < Head(q)[2] \/ Head(q) = <<Size, Size>>
  <1> DEFINE s == Tail(q)
  <1>1. /\ Len(q) \in Nat /\ Len(q) > 0 /\ Len(s) = Len(q) - 1 /\ s \in Seq(Buffers)
        /\ Head(q) = q[1] /\ q[1] \in Buffers
        /\ \A i \in 1 .. Len(q) - 1 : s[i] = q[i + 1]
    BY HeadTailProperties, ElementOfSeq
  <1> HIDE DEF s
  <1>2. Chain(s, e)
    <2> SUFFICES ASSUME NEW i \in 1 .. Len(s)
                 PROVE  /\ s[i][1] < s[i][2] \/ s[i] = <<Size, Size>>
                        /\ s[i][2] = IF i = Len(s) THEN e ELSE s[i + 1][1]
      BY DEF Chain
    <2>1. i + 1 \in 1 .. Len(q) /\ s[i] = q[i + 1] /\ (i + 1 = Len(q) <=> i = Len(s))
      BY <1>1
    <2>2. i # Len(s) => s[i + 1] = q[(i + 1) + 1]
      BY <1>1
    <2>3. QED
      BY <2>1, <2>2 DEF Chain
  <1>3. First(q, e) = q[1][1] /\ 1 \in 1 .. Len(q)
    BY <1>1 DEF First
  <1>4. q[1][1] < q[1][2] \/ q[1] = <<Size, Size>>
    BY <1>3 DEF Chain
  <1>5. First(s, e) = q[1][2]
    <2>1. CASE s = <<>>
      <3>1. Len(q) = 1
        BY <1>1, <2>1
      <3>2. QED
        BY <1>3, <2>1, <3>1 DEF Chain, First
    <2>2. CASE s # <<>>
      <3>1. Len(s) # 0
        BY <1>1, <2>2, EmptySeq
      <3>2. Len(q) # 1 /\ s[1] = q[1 + 1]
        BY <1>1, <3>1
      <3>3. QED
        BY <1>3, <2>2, <3>2 DEF Chain, First
    <2>3. QED
      BY <2>1, <2>2
  <1>6. QED
    BY <1>1, <1>2, <1>3, <1>4, <1>5 DEF s

\* What is left of a buffer goes back to the head of the queue.
LEMMA ChainPutBack ==
  ASSUME NEW q \in Seq(Buffers), NEW e \in 0 .. Size, Chain(q, e),
         NEW b \in Buffers, b[1] < b[2], b[2] = First(q, e)
  PROVE  /\ <<b>> \o q \in Seq(Buffers) /\ Chain(<<b>> \o q, e)
         /\ First(<<b>> \o q, e) = b[1]
  <1> DEFINE one == <<b>>
             s == one \o q
  <1>1. one \in Seq(Buffers) /\ Len(one) = 1 /\ one[1] = b
    <2> DEFINE S == Buffers
    <2> HIDE DEF S
    <2>1. b \in S => one \in Seq(S) /\ Len(one) = 1 /\ one[1] = b
      OBVIOUS
    <2>2. QED
      BY <2>1 DEF S
  <1> HIDE DEF one
  <1>0. /\ one \o q \in Seq(Buffers) /\ Len(one \o q) = Len(one) + Len(q) /\ Len(q) \in Nat
        /\ \A k \in 1 .. Len(one) + Len(q) : (one \o q)[k] = IF k <= Len(one) THEN one[k] ELSE q[k - Len(one)]
    BY <1>1, Joined
  <1>2. /\ s \in Seq(Buffers) /\ Len(s) = 1 + Len(q) /\ Len(q) \in Nat
        /\ \A k \in 1 .. 1 + Len(q) : s[k] = IF k <= 1 THEN one[k] ELSE q[k - 1]
    BY <1>0, <1>1
  <1>3. s[1] = b /\ \A k \in 2 .. Len(s) : s[k] = q[k - 1] /\ k - 1 \in 1 .. Len(q)
    BY <1>1, <1>2
  <1> HIDE DEF s
  <1>4. s # <<>> /\ First(s, e) = b[1]
    BY <1>2, <1>3 DEF First
  <1>5. Chain(s, e)
    <2> SUFFICES ASSUME NEW i \in 1 .. Len(s)
                 PROVE  /\ s[i][1] < s[i][2] \/ s[i] = <<Size, Size>>
                        /\ s[i][2] = IF i = Len(s) THEN e ELSE s[i + 1][1]
      BY DEF Chain
    <2>1. CASE i = 1
      <3>1. CASE q = <<>>
        BY <1>2, <1>3, <2>1, <3>1 DEF First
      <3>2. CASE q # <<>>
        <4>1. Len(q) # 0
          BY <3>2, EmptySeq
        <4>2. i # Len(s) /\ s[i + 1] = q[1]
          BY <1>2, <1>3, <2>1, <4>1
        <4>3. QED
          BY <1>3, <2>1, <3>2, <4>2 DEF First
      <3>3. QED
        BY <3>1, <3>2
    <2>2. CASE i \in 2 .. Len(s)
      <3>1. s[i] = q[i - 1] /\ i - 1 \in 1 .. Len(q) /\ (i - 1 = Len(q) <=> i = Len(s))
        BY <1>2, <1>3, <2>2
      <3>2. i # Len(s) => s[i + 1] = q[(i - 1) + 1]
        BY <1>2, <1>3, <2>2
      <3>3. QED
        BY <3>1, <3>2 DEF Chain
    <2>3. QED
      BY <1>2, <2>1, <2>2
  <1>6. QED
    BY <1>2, <1>4, <1>5 DEF s, one

-----------------------------------------------------------------------------
\* What the operations of BufXChange do, without a limit on the queue.

LEMMA PutFacts ==
  ASSUME NEW b, NEW r \in {Yes, No}, Put(Curl, b, FALSE, r)
  PROVE  /\ ok' = ok /\ rqueue' = rqueue
         /\ r = Yes => ok /\ queue' = Append(queue, b)
         /\ r = No => ~ ok /\ queue' = queue
  <1>1. ~ Full
    BY ProxyAssumption DEF Full
  <1>2. QED
    BY <1>1 DEF Put, PutEnd, PutRefused, PutSleeps, Yes, No, Waits

LEMMA TakeFacts ==
  ASSUME NEW r \in Results, Take(Conn, r) \/ TakeWake(Conn, r)
  PROVE  /\ ok' = ok /\ rqueue' = rqueue
         /\ r = Yes => ok /\ queue # <<>> /\ queue' = Tail(queue)
         /\ r = No => ~ ok /\ queue' = queue
         /\ r = Waits => queue' = queue
BY DEF Results, Take, TakeWake, TakeCheck, TakeRefused, TakeSleeps, TakeBuf, Yes, No, Waits

LEMMA RecycledType ==
  ASSUME NEW rq \in Seq(Buffers), NEW bufs \in Seq(Buffers)
  PROVE  Recycled(rq, bufs) \in Seq(Buffers)
  <1> DEFINE s == rq \o bufs
  <1>1. s \in Seq(Buffers) /\ Len(s) \in Nat
    BY Joined
  <1> HIDE DEF s
  <1>2. MaxRecycled \in Nat
    BY BufXAssumption
  <1>3. Len(s) > MaxRecycled => SubSeq(s, Len(s) - MaxRecycled + 1, Len(s)) \in Seq(Buffers)
    <2> SUFFICES ASSUME Len(s) > MaxRecycled PROVE SubSeq(s, Len(s) - MaxRecycled + 1, Len(s)) \in Seq(Buffers)
      OBVIOUS
    <2>1. \A i \in (Len(s) - MaxRecycled + 1) .. Len(s) : s[i] \in Buffers
      BY <1>1, <1>2, ElementOfSeq
    <2>2. Len(s) - MaxRecycled + 1 \in Int /\ Len(s) \in Int
      BY <1>1, <1>2
    <2>3. QED
      BY <2>1, <2>2, SubSeqProperties
  <1>4. QED
    BY <1>1, <1>3 DEF Recycled, LastN, s

-----------------------------------------------------------------------------
\* The transfer's thread.

\* What the types of the fetcher and of the reader say of their numbers.
LEMMA Numbers ==
  ASSUME PInv
  PROVE  /\ rpos \in 0 .. Size /\ head \in 0 .. Size /\ count \in 0 .. Size /\ range \in 0 .. Size
         /\ offset \in 0 .. Size /\ Len(delivered) \in Nat /\ Len(copied) \in Nat
         /\ cur \in Buffers /\ abuf \in Buffers /\ queue \in Seq(Buffers) /\ Sent \in 0 .. Size
         /\ ok \/ done
  <1>1. /\ rpos \in 0 .. Size /\ head \in 0 .. Size /\ count \in 0 .. Size /\ range \in 0 .. Size
        /\ offset \in 0 .. Size /\ delivered \in Seq(1 .. Size) /\ copied \in Seq(1 .. Size)
        /\ cur \in Buffers /\ abuf \in Buffers /\ queue \in Seq(Buffers)
    BY DEF PInv, PTypeOK
  <1>2. Len(delivered) \in Nat /\ Len(copied) \in Nat
    BY <1>1, LenProperties
  <1>3. Sent \in 0 .. Size
    <2>1. count <= Sent
      BY DEF PInv, Transfer
    <2>2. CASE cpc = "write"
      BY <1>1, <2>2, Unit DEF Sent
    <2>3. CASE cpc # "write"
      <3>1. Sent = rpos - head
        BY <2>3 DEF Sent
      <3>2. QED
        BY <1>1, <2>1, <3>1, SizeFacts
    <2>4. QED
      BY <2>2, <2>3
  <1>4. ok \/ done
    BY DEF PInv, Phases
  <1>5. QED
    BY <1>1, <1>2, <1>3, <1>4

\* A step that leaves the reader alone keeps the queue whole for it.
LEMMA ReaderKept ==
  ASSUME PInv, UNCHANGED <<mpc, reader>>, ok' => ok,
         Reading /\ Chain(queue, Sent) =>
           ~ok' \/ (Chain(queue', Sent') /\ First(queue', Sent') = First(queue, Sent))
  PROVE  Positions' /\ Ordered'
  <1>1. Ordered'
    BY DEF PInv, Ordered, InOrder, reader, request
  <1>2. Reading' => Reading /\ ok'
    BY DEF Reading, Holding, reader
  <1>3. Holding' = Holding /\ abuf' = abuf /\ eos' = eos
    BY DEF Holding, reader
  <1>4. UNCHANGED <<delivered, copied, spoiled, offset>>
    BY DEF reader, request
  <1>5. Reading' => /\ Chain(queue', Sent')
                    /\ IF Holding THEN abuf[2] = First(queue', Sent') ELSE Place(First(queue', Sent'))
    BY <1>2, <1>3 DEF PInv, Positions
  <1>6. Positions'
    BY <1>3, <1>4, <1>5 DEF PInv, Positions, Place
  <1>7. QED
    BY <1>1, <1>6

LEMMA HeadersEndKeeps ==
  ASSUME PInv, HeadersEnd
  PROVE  PInv'
  <1>1. UNCHANGED <<xvars, range, rpos, head, cur, count, code, done, aborting, errors, mpc, reader>>
    BY DEF HeadersEnd
  <1>2. cpc = "connect" /\ cpc' = "data" /\ headersOk' = TRUE
    BY DEF HeadersEnd
  <1>3. UNCHANGED <<queue, rqueue, ok>> /\ Sent' = Sent
    BY <1>1, <1>2 DEF xvars, Sent
  <1>4. Positions' /\ Ordered'
    BY <1>1, <1>3, ReaderKept
  <1>5. PTypeOK'
    BY <1>1, <1>2, <1>3 DEF PInv, PTypeOK, reader, request
  <1>6. Phases'
    BY <1>1, <1>2, <1>3 DEF PInv, Phases, Transferring, Leaving, reader, request
  <1>7. Transfer'
    BY <1>1, <1>2, <1>3 DEF PInv, Transfer, Transferring, reader, request
  <1>8. QED
    BY <1>4, <1>5, <1>6, <1>7 DEF PInv

LEMMA PerformKeeps ==
  ASSUME PInv, Perform
  PROVE  PInv'
  <1>1. UNCHANGED <<xvars, range, rpos, head, cur, count, done, aborting, headersOk, mpc, reader>>
    BY DEF Perform
  <1>2. cpc \in {"connect", "data"} /\ cpc' = "finish"
    BY DEF Perform
  <1>3. UNCHANGED <<queue, rqueue, ok>> /\ Sent' = Sent
    BY <1>1, <1>2 DEF xvars, Sent
  <1>4. Positions' /\ Ordered'
    BY <1>1, <1>3, ReaderKept
  <1>5. code' \in {"ok", "retry", "fatal"} /\ errors' \in 0 .. MaxErrors /\ (code' = "ok" => rpos = Size)
    <2>1. errors \in 0 .. MaxErrors /\ MaxErrors \in Nat /\ ErrorCodes \subseteq {"retry", "fatal"}
      BY ProxyAssumption DEF PInv, PTypeOK
    <2>2. CASE code' = "ok" /\ rpos = Size /\ errors' = errors
      BY <2>1, <2>2
    <2>3. CASE code' \in ErrorCodes /\ errors' = errors + 1 /\ errors < MaxErrors
      <3>1. code' \in {"retry", "fatal"}
        BY <2>1, <2>3
      <3>2. errors' \in 0 .. MaxErrors
        BY <2>1, <2>3
      <3>3. QED
        BY <3>1, <3>2
    <2>4. QED
      BY <2>2, <2>3 DEF Perform
  <1>6. PTypeOK'
    BY <1>1, <1>2, <1>3, <1>5 DEF PInv, PTypeOK, reader, request
  <1>7. Phases'
    BY <1>1, <1>2, <1>3 DEF PInv, Phases, Transferring, Leaving, reader, request
  <1>8. Transfer'
    BY <1>1, <1>2, <1>3, <1>5 DEF PInv, Transfer, Transferring, reader, request
  <1>9. QED
    BY <1>4, <1>6, <1>7, <1>8 DEF PInv

LEMMA KeepHeadKeeps ==
  ASSUME PInv, KeepHead
  PROVE  PInv'
  <1>1. UNCHANGED <<xvars, cpc, range, cur, count, code, done, aborting, headersOk, errors, mpc, reader>>
    BY DEF KeepHead
  <1>2. PICK n \in 1 .. MaxUnits : rpos + n <= Size /\ rpos' = rpos + n /\ head' = head + n
    BY DEF KeepHead
  <1>3. cpc = "data" /\ MaxUnits \in Nat
    BY ProxyAssumption DEF KeepHead
  <1>4. Sent = rpos - head /\ Sent \in 0 .. Size /\ rpos \in 0 .. Size /\ head \in 0 .. Size
    BY <1>3, Numbers DEF Sent
  <1>5. Sent' = Sent /\ rpos' \in 0 .. Size /\ head' \in 0 .. Size
    BY <1>1, <1>2, <1>3, <1>4, SizeFacts DEF Sent
  <1>6. UNCHANGED <<queue, rqueue, ok>>
    BY <1>1 DEF xvars
  <1>7. Positions' /\ Ordered'
    BY <1>1, <1>5, <1>6, ReaderKept
  <1>8. PTypeOK'
    BY <1>1, <1>5, <1>6 DEF PInv, PTypeOK, reader, request
  <1>9. Phases'
    BY <1>1, <1>6 DEF PInv, Phases, Transferring, Leaving, reader, request
  <1>10. Transfer'
    BY <1>1, <1>3, <1>5 DEF PInv, Transfer, Transferring, reader, request
  <1>11. QED
    BY <1>7, <1>8, <1>9, <1>10 DEF PInv

\* The types hold after a put of the transfer's thread.
LEMMA PutTypes ==
  ASSUME PInv, UNCHANGED <<rqueue, range, code, aborting, headersOk, errors, mpc, reader>>,
         queue' \in Seq(Buffers), cur' \in Buffers, done' \in BOOLEAN,
         rpos' \in 0 .. Size, head' \in 0 .. Size, count' \in 0 .. Size,
         cpc' \in {"data", "write", "eos", "term"}
  PROVE  PTypeOK'
BY DEF PInv, PTypeOK, reader, request

LEMMA SendHeadKeeps ==
  ASSUME PInv, SendHead
  PROVE  PInv'
  <1>1. UNCHANGED <<range, code, done, aborting, headersOk, errors, mpc, reader>>
    BY DEF SendHead
  <1>2. PICK n \in 1 .. MaxUnits : rpos + n <= Size /\ cur' = <<rpos, rpos + n>> /\ rpos' = rpos + n
    BY DEF SendHead
  <1>3. cpc = "data" /\ cpc' = "write" /\ head > 0 /\ head' = 0 /\ count' = count + head /\ MaxUnits \in Nat
    BY ProxyAssumption DEF SendHead
  <1>4. ok /\ ok' = ok /\ rqueue' = rqueue /\ queue' = Append(queue, <<rpos - head, rpos>>)
    BY PutFacts DEF SendHead
  <1>5. /\ Sent = rpos - head /\ Sent \in 0 .. Size /\ rpos \in 0 .. Size /\ head \in 0 .. Size
        /\ count \in 0 .. Size /\ queue \in Seq(Buffers)
    BY <1>3, Numbers DEF Sent
  <1>6. rpos' \in 0 .. Size /\ rpos < rpos'
    BY <1>2, <1>3, <1>5, SizeFacts
  <1>7. cur' \in Buffers /\ cur'[1] = rpos /\ cur'[2] = rpos'
    BY <1>2, <1>5, <1>6, OneBuffer
  <1>8. Sent' = rpos /\ Sent < Sent'
    BY <1>3, <1>5, <1>7 DEF Sent
  <1>9. queue' \in Seq(Buffers)
    BY <1>4, <1>5, OneBuffer, AppendProperties
  <1>10. Chain(queue, Sent) => Chain(queue', Sent') /\ First(queue', Sent') = First(queue, Sent)
    BY <1>4, <1>5, <1>8, ChainAppended
  <1>11. Positions' /\ Ordered'
    BY <1>1, <1>4, <1>10, ReaderKept
  <1>12. count' \in 0 .. Size /\ count' <= Sent'
    <2>1. count <= Sent
      BY DEF PInv, Transfer
    <2>2. QED
      BY <1>3, <1>5, <1>8, <2>1, SizeFacts
  <1>13. PTypeOK'
    BY <1>1, <1>3, <1>4, <1>6, <1>7, <1>9, <1>12, PutTypes, SizeFacts DEF PInv, PTypeOK
  <1>14. Phases'
    <2>1. mpc \notin {"first", "restart"}
      BY <1>3 DEF PInv, Phases
    <2>2. QED
      BY <1>1, <1>3, <1>4, <2>1 DEF PInv, Phases, Transferring, Leaving, reader, request
  <1>15. Transfer'
    BY <1>1, <1>3, <1>6, <1>7, <1>12 DEF PInv, Transfer, Transferring, reader, request
  <1>16. QED
    BY <1>11, <1>13, <1>14, <1>15 DEF PInv

LEMMA SendRestKeeps ==
  ASSUME PInv, SendRest
  PROVE  PInv'
  <1>1. UNCHANGED <<range, rpos, head, code, done, aborting, headersOk, errors, mpc, reader>>
    BY DEF SendRest
  <1>2. cpc = "write" /\ cpc' = "data" /\ count' = count + Units(cur) /\ cur' = Empty
    BY DEF SendRest
  <1>3. ok /\ ok' = ok /\ rqueue' = rqueue /\ queue' = Append(queue, cur)
    BY PutFacts DEF SendRest
  <1>4. head = 0 /\ cur[1] < cur[2] /\ cur[2] = rpos /\ Sent = cur[1] /\ count <= Sent
    BY <1>2 DEF PInv, Transfer, Sent
  <1>5. /\ Sent \in 0 .. Size /\ rpos \in 0 .. Size /\ count \in 0 .. Size /\ queue \in Seq(Buffers)
        /\ cur \in Buffers
    BY Numbers
  <1>6. cur = <<Sent, rpos>> /\ Units(cur) = rpos - Sent
    BY <1>4, <1>5, Unit
  <1>7. Sent' = rpos /\ Sent < Sent' /\ Sent' \in 0 .. Size
    BY <1>1, <1>2, <1>4, <1>5 DEF Sent
  <1>8. queue' \in Seq(Buffers)
    BY <1>3, <1>5, AppendProperties
  <1>9. Chain(queue, Sent) => Chain(queue', Sent') /\ First(queue', Sent') = First(queue, Sent)
    BY <1>3, <1>5, <1>6, <1>7, ChainAppended
  <1>10. Positions' /\ Ordered'
    BY <1>1, <1>3, <1>9, ReaderKept
  <1>11. count' \in 0 .. Size /\ count' <= Sent'
    BY <1>2, <1>4, <1>5, <1>6, <1>7, SizeFacts
  <1>12. PTypeOK'
    BY <1>1, <1>2, <1>3, <1>5, <1>8, <1>11, PutTypes, SizeFacts DEF PInv, PTypeOK
  <1>13. Phases'
    <2>1. mpc \notin {"first", "restart"}
      BY <1>2 DEF PInv, Phases
    <2>2. QED
      BY <1>1, <1>2, <1>3, <2>1 DEF PInv, Phases, Transferring, Leaving, reader, request
  <1>14. Transfer'
    BY <1>1, <1>2, <1>4, <1>11 DEF PInv, Transfer, Transferring, reader, request
  <1>15. QED
    BY <1>10, <1>12, <1>13, <1>14 DEF PInv

LEMMA SendDataKeeps ==
  ASSUME PInv, SendData
  PROVE  PInv'
  <1>1. UNCHANGED <<cpc, range, head, cur, code, done, aborting, headersOk, errors, mpc, reader>>
    BY DEF SendData
  <1>2. PICK n \in 1 .. MaxUnits : /\ rpos + n <= Size /\ rpos' = rpos + n /\ count' = count + n
                                  /\ Put(Curl, <<rpos, rpos + n>>, FALSE, Yes)
    BY DEF SendData
  <1>3. cpc = "data" /\ head = 0 /\ MaxUnits \in Nat
    BY ProxyAssumption DEF SendData
  <1>4. ok /\ ok' = ok /\ rqueue' = rqueue /\ queue' = Append(queue, <<rpos, rpos + n>>)
    BY <1>2, PutFacts
  <1>5. Sent = rpos /\ rpos \in 0 .. Size /\ count \in 0 .. Size /\ queue \in Seq(Buffers)
    BY <1>3, Numbers DEF Sent
  <1>6. rpos' \in 0 .. Size /\ rpos < rpos'
    BY <1>2, <1>3, <1>5, SizeFacts
  <1>7. Sent' = rpos' /\ Sent < Sent'
    <2>1. Sent' = (rpos + n) - 0
      BY <1>1, <1>2, <1>3 DEF Sent
    <2>2. (rpos + n) - 0 = rpos + n /\ n > 0
      BY <1>3, <1>5
    <2>3. QED
      BY <1>2, <1>5, <2>1, <2>2
  <1>8. <<rpos, rpos + n>> = <<Sent, Sent'>> /\ <<Sent, Sent'>> \in Buffers
    BY <1>2, <1>5, <1>6, <1>7, OneBuffer
  <1>9. queue' \in Seq(Buffers)
    BY <1>4, <1>5, <1>8, AppendProperties
  <1>10. Chain(queue, Sent) => Chain(queue', Sent') /\ First(queue', Sent') = First(queue, Sent)
    <2>1. Sent \in 0 .. Size /\ Sent' \in 0 .. Size /\ queue' = Append(queue, <<Sent, Sent'>>)
      BY <1>4, <1>5, <1>6, <1>7, <1>8
    <2>2. QED
      BY <1>5, <1>7, <2>1, ChainAppended
  <1>11. Positions' /\ Ordered'
    BY <1>1, <1>4, <1>10, ReaderKept
  <1>12. count' \in 0 .. Size /\ count' <= Sent'
    <2>1. count <= Sent
      BY DEF PInv, Transfer
    <2>2. QED
      BY <1>2, <1>3, <1>5, <1>6, <1>7, <2>1, SizeFacts
  <1>13. PTypeOK'
    BY <1>1, <1>3, <1>4, <1>6, <1>9, <1>12, PutTypes, SizeFacts DEF PInv, PTypeOK
  <1>14. Phases'
    <2>1. mpc \notin {"first", "restart"}
      BY <1>3 DEF PInv, Phases
    <2>2. QED
      BY <1>1, <1>4, <2>1 DEF PInv, Phases, Transferring, Leaving, reader, request
  <1>15. Transfer'
    BY <1>1, <1>3, <1>12 DEF PInv, Transfer, Transferring, reader, request
  <1>16. QED
    BY <1>11, <1>13, <1>14, <1>15 DEF PInv

\* A transfer that ends without having filled headbuf sends it then.
LEMMA FinishKeeps ==
  ASSUME PInv, Finish
  PROVE  PInv'
  <1>1. UNCHANGED <<range, rpos, cur, code, aborting, headersOk, errors, mpc, reader>> /\ cpc = "finish"
    BY DEF Finish
  <1>2. /\ Sent = rpos - head /\ Sent \in 0 .. Size /\ rpos \in 0 .. Size /\ head \in 0 .. Size
        /\ count \in 0 .. Size /\ queue \in Seq(Buffers) /\ cur = Empty /\ count <= Sent
    BY <1>1, Numbers DEF Sent, PInv, Transfer
  <1>3. mpc \notin {"first", "restart"}
    BY <1>1 DEF PInv, Phases
  <1>4. CASE aborting /\ cpc' = "exited" /\ UNCHANGED <<xvars, head, count, done>>
    <2>1. UNCHANGED <<queue, rqueue, ok>> /\ Sent' = Sent
      BY <1>1, <1>4 DEF xvars, Sent
    <2>2. Positions' /\ Ordered'
      BY <1>1, <2>1, ReaderKept
    <2>3. PTypeOK'
      BY <1>1, <1>4, <2>1 DEF PInv, PTypeOK, reader, request
    <2>4. Phases'
      BY <1>1, <1>4, <2>1 DEF PInv, Phases, Transferring, Leaving, reader, request
    <2>5. Transfer'
      BY <1>1, <1>4, <2>1 DEF PInv, Transfer, Transferring, reader, request
    <2>6. QED
      BY <2>2, <2>3, <2>4, <2>5 DEF PInv
  <1>5. CASE ~ aborting
    <2>1. done' = TRUE /\ cpc' = (IF code = "ok" THEN "eos" ELSE "term") /\ head' = 0 /\ ok' = ok /\ rqueue' = rqueue
      BY <1>5, PutFacts DEF Finish, xvars
    <2>2. \/ head = 0 /\ queue' = queue /\ count' = count
          \/ head > 0 /\ queue' = Append(queue, <<rpos - head, rpos>>) /\ count' = count + head
      BY <1>5, PutFacts DEF Finish, xvars
    <2>3. Sent' = rpos
      BY <1>1, <1>2, <2>1 DEF Sent
    <2>4. queue' \in Seq(Buffers)
      <3>1. ASSUME NEW b \in Buffers, NEW q \in Seq(Buffers) PROVE Append(q, b) \in Seq(Buffers)
        BY ONLY AppendProperties
      <3>2. <<rpos - head, rpos>> \in Buffers
        BY <1>2, OneBuffer
      <3>3. QED
        BY <1>2, <2>2, <3>1, <3>2
    <2>5. Chain(queue, Sent) => Chain(queue', Sent') /\ First(queue', Sent') = First(queue, Sent)
      <3>1. CASE head = 0 /\ queue' = queue
        BY <1>2, <2>3, <3>1
      <3>2. CASE head > 0 /\ queue' = Append(queue, <<rpos - head, rpos>>)
        <4>1. Sent < Sent' /\ queue' = Append(queue, <<Sent, Sent'>>)
          BY <1>2, <2>3, <3>2
        <4>2. QED
          BY <1>2, <2>3, <4>1, ChainAppended
      <3>3. QED
        BY <2>2, <3>1, <3>2
    <2>6. Positions' /\ Ordered'
      BY <1>1, <2>1, <2>5, ReaderKept
    <2>7. count' \in 0 .. Size /\ count' <= Sent'
      BY <1>2, <2>2, <2>3, SizeFacts
    <2>8. PTypeOK'
      BY <1>1, <1>2, <2>1, <2>4, <2>7, PutTypes, SizeFacts DEF PInv, PTypeOK
    <2>9. Phases'
      BY <1>1, <1>3, <1>5, <2>1 DEF PInv, Phases, Transferring, Leaving, reader, request
    <2>10. Transfer'
      BY <1>1, <1>2, <2>1, <2>7 DEF PInv, Transfer, Transferring, reader, request
    <2>11. QED
      BY <2>6, <2>8, <2>9, <2>10 DEF PInv
  <1>6. QED
    BY <1>4, <1>5 DEF Finish

\* The end marker is put behind the last unit of the resource.
LEMMA PutEosKeeps ==
  ASSUME PInv, PutEos
  PROVE  PInv'
  <1>1. /\ UNCHANGED <<range, rpos, head, cur, count, code, done, aborting, headersOk, errors, mpc, reader>>
        /\ cpc = "eos" /\ cpc' = "drain"
    BY DEF PutEos, GoCurl
  <1>2. PICK r \in {Yes, No} : Put(Curl, <<Size, Size>>, FALSE, r)
    BY DEF PutEos
  <1>3. ok' = ok /\ rqueue' = rqueue /\ (queue' = queue \/ queue' = Append(queue, <<Size, Size>>))
    BY <1>2, PutFacts
  <1>4. ok => queue' = Append(queue, <<Size, Size>>)
    BY <1>2, PutFacts
  <1>5. /\ Sent = rpos - head /\ Sent \in 0 .. Size /\ rpos \in 0 .. Size /\ rpos = Size
        /\ queue \in Seq(Buffers) /\ count <= Sent
    BY <1>1, Numbers DEF Sent, PInv, Transfer
  <1>6. Sent' = Sent
    BY <1>1 DEF Sent
  <1>7. queue' \in Seq(Buffers)
    <2>1. <<Size, Size>> \in Buffers
      BY OneBuffer, SizeFacts
    <2>2. Append(queue, <<Size, Size>>) \in Seq(Buffers)
      BY <1>5, <2>1, AppendProperties
    <2>3. QED
      BY <1>3, <1>5, <2>2
  <1>8. Reading => Sent = Size
    <2>1. Reading => ~ aborting
      BY DEF Reading, Holding, PInv, Phases, Leaving
    <2>2. ~ aborting => head = 0
      BY <1>1 DEF PInv, Transfer, Transferring
    <2>3. head = 0 => Sent = Size
      BY <1>5
    <2>4. QED
      BY <2>1, <2>2, <2>3
  <1>9. Reading /\ Chain(queue, Sent) => Chain(queue', Sent') /\ First(queue', Sent') = First(queue, Sent)
    <2> SUFFICES ASSUME Reading, Chain(queue, Sent)
                 PROVE  Chain(queue', Sent') /\ First(queue', Sent') = First(queue, Sent)
      OBVIOUS
    <2>1. Sent = Size /\ queue' = Append(queue, <<Size, Size>>) /\ Chain(queue, Size)
      BY <1>4, <1>8 DEF Reading
    <2>2. Chain(queue', Size) /\ First(queue', Size) = First(queue, Size)
      BY <1>5, <2>1, SizeFacts, ChainAppended
    <2>3. QED
      BY <1>6, <2>1, <2>2
  <1>10. Positions' /\ Ordered'
    BY <1>1, <1>3, <1>9, ReaderKept
  <1>11. PTypeOK'
    BY <1>1, <1>3, <1>7 DEF PInv, PTypeOK, reader, request
  <1>12. Phases'
    <2>1. mpc \notin {"first", "restart"}
      BY <1>1 DEF PInv, Phases
    <2>2. QED
      BY <1>1, <1>3, <2>1 DEF PInv, Phases, Transferring, Leaving, reader, request
  <1>13. Transfer'
    BY <1>1, <1>5, <1>6 DEF PInv, Transfer, Transferring, reader, request
  <1>14. QED
    BY <1>10, <1>11, <1>12, <1>13 DEF PInv

LEMMA LeaveKeeps ==
  ASSUME PInv, Drain \/ Term
  PROVE  PInv'
  <1>1. /\ UNCHANGED <<range, rpos, head, cur, count, code, done, aborting, headersOk, errors, mpc, reader>>
        /\ cpc \in {"drain", "term"} /\ cpc' \in {"drain", "term", "exited"}
    BY DEF Drain, Term, GoCurl
  <1>2. UNCHANGED <<queue, rqueue>> /\ (ok' = ok \/ ok' = FALSE)
    BY DEF Drain, Term, WaitIdle, WaitIdleWake, SetTerminate
  <1>3. Sent' = Sent
    BY <1>1 DEF Sent
  <1>4. Positions' /\ Ordered'
    BY <1>1, <1>2, <1>3, ReaderKept
  <1>5. PTypeOK'
    BY <1>1, <1>2 DEF PInv, PTypeOK, reader, request
  <1>6. Phases'
    <2>1. done /\ mpc \notin {"first", "restart"}
      BY <1>1 DEF PInv, Phases
    <2>2. QED
      BY <1>1, <1>2, <2>1 DEF PInv, Phases, Transferring, Leaving, reader, request
  <1>7. Transfer'
    BY <1>1, <1>3 DEF PInv, Transfer, Transferring, reader, request
  <1>8. QED
    BY <1>4, <1>5, <1>6, <1>7 DEF PInv

LEMMA CurlKeeps == ASSUME PInv, CurlStep PROVE PInv'
BY HeadersEndKeeps, KeepHeadKeeps, SendHeadKeeps, SendRestKeeps, SendDataKeeps, PerformKeeps, FinishKeeps,
   PutEosKeeps, LeaveKeeps DEF CurlStep

-----------------------------------------------------------------------------
\* The connection's thread.

\* It leaves the transfer alone while it reads.
LEMMA TransferKept ==
  ASSUME PInv, UNCHANGED <<cvars, offset, spoiled>>, Len(delivered') \in Nat, Len(delivered) <= Len(delivered')
  PROVE  Transfer' /\ Sent' = Sent
  <1>1. Sent' = Sent
    BY DEF Sent, cvars
  <1>2. spoiled \/ range <= offset + Len(delivered')
    <2>1. spoiled \/ range <= offset + Len(delivered)
      BY DEF PInv, Transfer
    <2>2. QED
      BY <2>1, Numbers, SizeFacts
  <1>3. Transfer'
    BY <1>1, <1>2 DEF PInv, Transfer, Transferring, cvars
  <1>4. QED
    BY <1>1, <1>3

LEMMA NoUnits == \A S : <<>> \in Seq(S) /\ Len(<<>>) = 0
  OBVIOUS

LEMMA AnswerFirstKeeps ==
  ASSUME PInv, AnswerFirst
  PROVE  PInv'
  <1>1. /\ UNCHANGED <<xvars, delivered, copied, want, abuf, eos, reply, outcome, uninit, spoiled,
                       head, cur, count, code, done, aborting, headersOk, errors>>
        /\ mpc = "first" /\ mpc' = "headers" /\ cpc' = "connect"
    BY DEF AnswerFirst, StartFetch
  <1>2. /\ cpc = "none" /\ queue = <<>> /\ count = 0 /\ range = 0 /\ delivered = <<>> /\ copied = <<>>
        /\ ~ done /\ ok /\ ~ aborting /\ ~ eos /\ outcome = "none" /\ ~ spoiled
    BY <1>1 DEF PInv, Phases, Leaving
  <1>3. head = 0 /\ cur = Empty
    BY <1>2 DEF PInv, Transfer, Transferring
  <1>4. PICK o \in 0 .. Size : offset' = o /\ range' = o /\ rpos' = o /\ known' \in BOOLEAN
    BY <1>2, ProxyAssumption DEF AnswerFirst, StartFetch
  <1>5. UNCHANGED <<queue, rqueue, ok>>
    BY <1>1 DEF xvars
  <1>6. Sent' = o
    <2>1. Sent' = o - 0
      BY <1>1, <1>3, <1>4 DEF Sent
    <2>2. o - 0 = o
      BY SizeFacts
    <2>3. QED
      BY <2>1, <2>2
  <1>7. PTypeOK'
    BY <1>1, <1>4, <1>5 DEF PInv, PTypeOK
  <1>8. Phases'
    BY <1>1, <1>2, <1>5 DEF PInv, Phases, Transferring, Leaving
  <1>9. o + 0 = o /\ 0 <= o /\ o <= o /\ o \in Nat
    BY SizeFacts
  <1>10. Transfer'
    <2>1. Len(delivered') = 0 /\ count' = 0
      BY <1>1, <1>2, NoUnits
    <2>2. count' <= Sent' /\ range' <= offset' + Len(delivered')
      BY <1>4, <1>6, <1>9, <2>1
    <2>3. QED
      BY <1>1, <1>3, <2>2 DEF Transfer, Transferring
  <1>11. Positions'
    <2>1. Chain(queue', Sent') /\ First(queue', Sent') = o
      BY <1>2, <1>5, <1>6 DEF Chain, First
    <2>2. Len(delivered') = 0 /\ Len(copied') = 0 /\ ~ eos' /\ ~ Holding'
      BY <1>1, <1>2, NoUnits DEF Holding
    <2>3. 0 + 0 <= o /\ o = o + 0 + 0 /\ 0 + 0 <= Size
      BY <1>9, SizeFacts
    <2>4. Place(First(queue, Sent))'
      BY <1>4, <2>1, <2>2, <2>3 DEF Place
    <2>5. QED
      BY <2>1, <2>2, <2>3, <2>4 DEF Positions
  <1>12. Ordered'
    BY <1>1, <1>2, NoUnits DEF Ordered, InOrder
  <1>13. QED
    BY <1>7, <1>8, <1>10, <1>11, <1>12 DEF PInv

\* The headers, and the call of contentRead().
LEMMA CallKeeps ==
  ASSUME PInv, HeadersFailed \/ HeadersGot \/ ReadCall
  PROVE  PInv'
  <1>1. /\ UNCHANGED <<xvars, cvars, request, delivered, copied, abuf, eos, uninit, spoiled>>
        /\ reply' \in {200, reply}
        /\ \/ mpc = "headers" /\ mpc' \in {"failed", "serve"} /\ want' = want /\ outcome' = outcome
           \/ mpc = "serve" /\ ~ eos /\ mpc' = "read" /\ want' \in 1 .. MaxUnits /\ outcome' = outcome /\ outcome = "none"
           \/ mpc = "serve" /\ eos /\ mpc' = mpc /\ want' = want /\ outcome' = "eos"
    BY DEF HeadersFailed, HeadersGot, ReadCall
  <1>2. UNCHANGED <<queue, rqueue, ok>> /\ UNCHANGED <<offset, known>>
    BY <1>1 DEF xvars, request
  <1>3. Len(delivered) \in Nat /\ Len(copied) \in Nat /\ copied = <<>>
    BY <1>1, Numbers DEF PInv, Phases
  <1>4. Transfer' /\ Sent' = Sent
    BY <1>1, <1>2, <1>3, TransferKept
  <1>5. PTypeOK'
    <2>1. want' \in 0 .. MaxUnits /\ Len(copied') <= want'
      BY <1>1, <1>3, NoUnits, ProxyAssumption DEF PInv, PTypeOK
    <2>2. QED
      BY <1>1, <1>2, <2>1 DEF PInv, PTypeOK, cvars
  <1>6. Phases'
    BY <1>1, <1>2 DEF PInv, Phases, Transferring, Leaving, cvars
  <1>7. Reading' => Reading /\ ~ Holding /\ ~ Holding'
    BY <1>1, <1>2 DEF Reading, Holding
  <1>8. ~ Holding'
    BY <1>1 DEF Holding
  <1>9. Positions'
    BY <1>1, <1>2, <1>4, <1>7, <1>8 DEF PInv, Positions, Place
  <1>10. Ordered'
    BY <1>1, <1>2 DEF PInv, Ordered, InOrder
  <1>11. QED
    BY <1>4, <1>5, <1>6, <1>9, <1>10 DEF PInv

\* contentRead() returns: what it copied was delivered.
LEMMA Returned ==
  ASSUME PInv, delivered' = delivered \o copied, copied' = <<>>, UNCHANGED <<spoiled, offset>>
  PROVE  /\ delivered' \in Seq(1 .. Size) /\ Len(delivered') = Len(delivered) + Len(copied)
         /\ Len(delivered') \in Nat /\ Len(delivered) <= Len(delivered')
         /\ Len(copied') = 0 /\ copied' \in Seq(1 .. Size) /\ Ordered'
  <1>1. delivered \in Seq(1 .. Size) /\ copied \in Seq(1 .. Size)
    BY DEF PInv, PTypeOK
  <1>2. /\ delivered' \in Seq(1 .. Size) /\ Len(delivered') = Len(delivered) + Len(copied)
        /\ Len(delivered) \in Nat /\ Len(copied) \in Nat
        /\ \A k \in 1 .. Len(delivered) + Len(copied) :
             delivered'[k] = IF k <= Len(delivered) THEN delivered[k] ELSE copied[k - Len(delivered)]
    BY <1>1, Joined
  <1>3. Len(copied') = 0 /\ copied' \in Seq(1 .. Size)
    BY NoUnits
  <1>4. ASSUME ~ spoiled, NEW k \in 1 .. Len(delivered') PROVE delivered'[k] = offset + k
    <2>1. CASE k <= Len(delivered)
      BY <1>2, <1>4, <2>1 DEF PInv, Ordered, InOrder
    <2>2. CASE k > Len(delivered)
      <3>1. k - Len(delivered) \in 1 .. Len(copied) /\ delivered'[k] = copied[k - Len(delivered)]
        BY <1>2, <2>2
      <3>2. copied[k - Len(delivered)] = offset + Len(delivered) + (k - Len(delivered))
        BY <1>4, <3>1 DEF PInv, Ordered
      <3>3. QED
        BY <1>2, <3>1, <3>2, Numbers
    <2>3. QED
      BY <1>2, <2>1, <2>2
  <1>5. Ordered'
    BY <1>3, <1>4 DEF Ordered, InOrder
  <1>6. QED
    BY <1>2, <1>3, <1>5

\* The types hold after a step of the reader.
LEMMA ReaderTypes ==
  ASSUME PInv, UNCHANGED <<cvars, offset, known, reply, want>>,
         queue' \in Seq(Buffers), rqueue' \in Seq(Buffers), abuf' \in Buffers,
         outcome' \in {"none", "eos", "error"},
         eos' \in BOOLEAN, uninit' \in BOOLEAN, spoiled' \in BOOLEAN,
         delivered' \in Seq(1 .. Size), copied' \in Seq(1 .. Size), Len(copied') <= want,
         mpc' \in {"serve", "read", "copy", "putback", "takefailed", "reset"}
  PROVE  PTypeOK'
BY DEF PInv, PTypeOK, cvars

\* A step that touches nothing but who waits.
LEMMA WaitingKeeps ==
  ASSUME PInv, UNCHANGED <<queue, rqueue, ok, cvars, mpc, reader>>
  PROVE  PInv'
  <1>1. Sent' = Sent
    BY DEF Sent, cvars
  <1>2. Positions' /\ Ordered'
    BY <1>1, ReaderKept
  <1>3. PTypeOK'
    BY DEF PInv, PTypeOK, cvars, reader, request
  <1>4. Phases'
    BY DEF PInv, Phases, Transferring, Leaving, cvars, reader, request
  <1>5. Transfer'
    BY <1>1 DEF PInv, Transfer, Transferring, cvars, reader, request
  <1>6. QED
    BY <1>2, <1>3, <1>4, <1>5 DEF PInv

\* take() fails, or its time is over.
LEMMA FailedTakeKeeps ==
  ASSUME PInv, UNCHANGED <<queue, rqueue, ok, cvars, reader>>, mpc = "read", mpc' = "takefailed"
  PROVE  PInv'
  <1>1. UNCHANGED <<offset, known, delivered, copied, want, abuf, eos, reply, outcome, uninit, spoiled>>
    BY DEF reader, request
  <1>2. Transfer'
    BY <1>1, Numbers, TransferKept
  <1>3. PTypeOK'
    BY <1>1, ReaderTypes DEF PInv, PTypeOK
  <1>4. Phases'
    BY <1>1 DEF PInv, Phases, Transferring, Leaving, cvars
  <1>5. Positions'
    BY <1>1 DEF PInv, Positions, Place, Holding, Reading
  <1>6. Ordered'
    BY <1>1 DEF PInv, Ordered, InOrder
  <1>7. QED
    BY <1>2, <1>3, <1>4, <1>5, <1>6 DEF PInv

\* The buffer that take() gives is where contentRead() goes on.
LEMMA TakenInPlace ==
  ASSUME PInv, mpc = "read", ok, queue # <<>>
  PROVE  /\ ~ eos /\ outcome = "none"
         /\ Tail(queue) \in Seq(Buffers) /\ Chain(Tail(queue), Sent)
         /\ Head(queue) \in Buffers
         /\ First(Tail(queue), Sent) = Head(queue)[2]
         /\ Head(queue)[1] < Head(queue)[2] \/ Head(queue) = <<Size, Size>>
         /\ Place(Head(queue)[1])
  <1>1. ~ eos /\ outcome = "none"
    BY DEF PInv, Phases, Leaving
  <1>2. Reading /\ ~ Holding
    BY <1>1 DEF Reading, Holding
  <1>3. Chain(queue, Sent) /\ Place(First(queue, Sent)) /\ queue \in Seq(Buffers) /\ Sent \in 0 .. Size
    BY <1>2, Numbers DEF PInv, Positions
  <1>4. /\ Tail(queue) \in Seq(Buffers) /\ Chain(Tail(queue), Sent)
        /\ Head(queue) \in Buffers
        /\ First(queue, Sent) = Head(queue)[1] /\ First(Tail(queue), Sent) = Head(queue)[2]
        /\ Head(queue)[1] < Head(queue)[2] \/ Head(queue) = <<Size, Size>>
    BY <1>3, ChainTaken
  <1>5. QED
    BY <1>1, <1>3, <1>4

LEMMA TakeNextKeeps ==
  ASSUME PInv, TakeNext
  PROVE  PInv'
  <1>1. PICK r \in Results : (Take(Conn, r) \/ TakeWake(Conn, r)) /\ TakeResult(r)
    BY DEF TakeNext
  <1>2. UNCHANGED cvars /\ mpc = "read"
    BY DEF TakeNext
  <1>3. /\ ok' = ok /\ rqueue' = rqueue
        /\ r = Yes => ok /\ queue # <<>> /\ queue' = Tail(queue)
        /\ r = No => ~ ok /\ queue' = queue
        /\ r = Waits => queue' = queue
    BY <1>1, TakeFacts
  <1>4. CASE r = Waits
    <2>1. UNCHANGED <<mpc, reader>>
      BY <1>1, <1>4 DEF TakeResult, Yes, No, Waits
    <2>2. QED
      BY <1>2, <1>3, <1>4, <2>1, WaitingKeeps
  <1>5. CASE r = No
    <2>1. mpc' = "takefailed" /\ UNCHANGED reader
      BY <1>1, <1>5 DEF TakeResult, Yes, No, Waits
    <2>2. QED
      BY <1>2, <1>3, <1>5, <2>1, FailedTakeKeeps
  <1>6. CASE r = Yes /\ Units(Head(queue)) = 0
    <2>1. /\ eos' = TRUE /\ outcome' = (IF copied = <<>> THEN "eos" ELSE "none")
          /\ delivered' = delivered \o copied /\ copied' = <<>> /\ mpc' = "serve"
          /\ UNCHANGED <<request, want, abuf, reply, uninit, spoiled>>
      BY <1>1, <1>6 DEF TakeResult, ReadReturns, Yes, No, Waits
    <2>2. UNCHANGED <<offset, known>>
      BY <2>1 DEF request
    <2>3. /\ delivered' \in Seq(1 .. Size) /\ Len(delivered') = Len(delivered) + Len(copied)
          /\ Len(delivered') \in Nat /\ Len(delivered) <= Len(delivered')
          /\ Len(copied') = 0 /\ copied' \in Seq(1 .. Size) /\ Ordered'
      BY <2>1, <2>2, Returned
    <2>4. /\ Tail(queue) \in Seq(Buffers) /\ Head(queue) \in Buffers
          /\ Head(queue)[1] < Head(queue)[2] \/ Head(queue) = <<Size, Size>>
          /\ Place(Head(queue)[1])
      BY <1>2, <1>3, <1>6, TakenInPlace
    <2>5. Head(queue)[1] = Size
      BY <1>6, <2>4, Unit
    <2>6. spoiled \/ Size = offset + Len(delivered) + Len(copied)
      BY <2>4, <2>5 DEF Place
    <2>7. Transfer'
      BY <1>2, <2>1, <2>2, <2>3, TransferKept
    <2>8. PTypeOK'
      <3>1. Len(copied') <= want
        BY <2>3, ProxyAssumption DEF PInv, PTypeOK
      <3>2. QED
        BY <1>2, <1>3, <1>6, <2>1, <2>2, <2>3, <2>4, <3>1, ReaderTypes DEF PInv, PTypeOK
    <2>9. Phases'
      BY <1>2, <1>3, <2>1 DEF PInv, Phases, Transferring, Leaving, cvars
    <2>10. Positions'
      <3>1. ~ Holding' /\ ~ Reading'
        BY <2>1 DEF Holding, Reading
      <3>2. Len(delivered) + Len(copied) <= Size
        BY DEF PInv, Positions
      <3>3. Len(delivered') + Len(copied') <= Size
        BY <2>3, <3>2, Numbers
      <3>4. spoiled' \/ offset' + Len(delivered') = Size
        BY <2>1, <2>2, <2>3, <2>6, Numbers, SizeFacts
      <3>5. QED
        BY <3>1, <3>3, <3>4 DEF Positions
    <2>11. QED
      BY <2>3, <2>7, <2>8, <2>9, <2>10 DEF PInv
  <1>7. CASE r = Yes /\ Units(Head(queue)) > 0
    <2>1. /\ abuf' = Head(queue) /\ mpc' = "copy"
          /\ UNCHANGED <<request, delivered, copied, want, eos, reply, outcome, uninit, spoiled>>
      BY <1>1, <1>7 DEF TakeResult, Yes, No, Waits, Units
    <2>2. UNCHANGED <<offset, known>>
      BY <2>1 DEF request
    <2>3. /\ ~ eos /\ outcome = "none"
          /\ Tail(queue) \in Seq(Buffers) /\ Chain(Tail(queue), Sent)
          /\ Head(queue) \in Buffers
          /\ First(Tail(queue), Sent) = Head(queue)[2]
          /\ Head(queue)[1] < Head(queue)[2] \/ Head(queue) = <<Size, Size>>
          /\ Place(Head(queue)[1])
      BY <1>2, <1>3, <1>7, TakenInPlace
    <2>4. Head(queue)[1] <= Head(queue)[2]
      BY <2>3, Unit, SizeFacts
    <2>5. Transfer' /\ Sent' = Sent
      BY <1>2, <2>1, <2>2, Numbers, TransferKept
    <2>6. PTypeOK'
      BY <1>2, <1>3, <1>7, <2>1, <2>2, <2>3, ReaderTypes DEF PInv, PTypeOK
    <2>7. Phases'
      BY <1>2, <1>3, <2>1 DEF PInv, Phases, Transferring, Leaving, cvars
    <2>8. Positions'
      BY <1>3, <1>7, <2>1, <2>2, <2>3, <2>4, <2>5 DEF PInv, Positions, Place, Holding
    <2>9. Ordered'
      BY <2>1, <2>2 DEF PInv, Ordered, InOrder
    <2>10. QED
      BY <2>5, <2>6, <2>7, <2>8, <2>9 DEF PInv
  <1>8. QED
    BY <1>1, <1>4, <1>5, <1>6, <1>7 DEF TakeResult

\* The units that fit are the next ones of the resource.
LEMMA CopyKeeps ==
  ASSUME PInv, Copy
  PROVE  PInv'
  <1> DEFINE free == want - Len(copied)
             n    == IF free < Units(abuf) THEN free ELSE Units(abuf)
             more == [k \in 1 .. n |-> abuf[1] + k]
  <1>1. /\ UNCHANGED <<xvars, cvars, request, delivered, want, eos, reply, outcome, uninit, spoiled>>
        /\ mpc = "copy" /\ mpc' = "putback"
        /\ copied' = copied \o more /\ abuf' = <<abuf[1] + n, abuf[2]>>
    BY DEF Copy
  <1>2. UNCHANGED <<queue, rqueue, ok>> /\ UNCHANGED <<offset, known>>
    BY <1>1 DEF xvars, request
  <1>3. /\ abuf[1] \in 0 .. Size /\ abuf[2] \in 0 .. Size /\ Units(abuf) = abuf[2] - abuf[1]
        /\ Len(copied) \in Nat /\ Len(delivered) \in Nat /\ offset \in 0 .. Size
    BY Numbers, Unit
  <1>4. /\ abuf[1] <= abuf[2] /\ Place(abuf[1]) /\ want \in 0 .. MaxUnits /\ Len(copied) <= want
        /\ copied \in Seq(1 .. Size) /\ MaxUnits \in Nat
    BY <1>1, ProxyAssumption DEF PInv, PTypeOK, Positions, Holding
  <1>5. n \in Nat /\ n <= want - Len(copied) /\ abuf[1] + n <= abuf[2]
    BY <1>3, <1>4
  <1> HIDE DEF n, free
  <1>6. abuf[1] + n \in 0 .. Size
    BY <1>3, <1>5, SizeFacts
  <1>7. more \in Seq(1 .. Size) /\ Len(more) = n /\ \A k \in 1 .. n : more[k] = abuf[1] + k
    <2>1. \A k \in 1 .. n : abuf[1] + k \in 1 .. Size
      BY <1>3, <1>5, SizeFacts
    <2>2. QED
      BY <1>5, <2>1
  <1> HIDE DEF more
  <1>8. /\ copied' \in Seq(1 .. Size) /\ Len(copied') = Len(copied) + n
        /\ \A k \in 1 .. Len(copied) + n :
             copied'[k] = IF k <= Len(copied) THEN copied[k] ELSE more[k - Len(copied)]
    BY <1>1, <1>4, <1>7, Joined
  <1>9. abuf' \in Buffers /\ abuf'[1] = abuf[1] + n /\ abuf'[2] = abuf[2]
    BY <1>1, <1>3, <1>6, OneBuffer
  <1>10. Transfer' /\ Sent' = Sent
    BY <1>1, <1>2, <1>3, TransferKept
  <1>11. PTypeOK'
    <2>1. Len(copied') <= want
      BY <1>3, <1>4, <1>5, <1>8
    <2>2. QED
      BY <1>1, <1>2, <1>8, <1>9, <2>1, ReaderTypes DEF PInv, PTypeOK
  <1>12. Phases'
    BY <1>1, <1>2 DEF PInv, Phases, Transferring, Leaving, cvars
  <1>13. Positions'
    <2>1. Holding /\ Holding' /\ (Reading' => Reading)
      BY <1>1, <1>2 DEF Holding, Reading
    <2>2. Len(delivered) + (Len(copied) + n) <= abuf[1] + n
      BY <1>3, <1>4, <1>5 DEF Place
    <2>3. spoiled \/ abuf[1] + n = offset + Len(delivered) + (Len(copied) + n)
      BY <1>3, <1>4, <1>5, SizeFacts DEF Place
    <2>4. Len(delivered) + (Len(copied) + n) <= Size
      BY <1>3, <1>5, <1>6, <2>2, SizeFacts
    <2>5. Place(abuf[1])'
      BY <1>1, <1>2, <1>8, <1>9, <2>2, <2>3 DEF Place
    <2>6. Len(delivered') + Len(copied') <= Size /\ abuf'[1] <= abuf'[2]
      BY <1>1, <1>5, <1>8, <1>9, <2>4
    <2>7. Reading' => Chain(queue', Sent') /\ abuf'[2] = First(queue', Sent')
      BY <1>2, <1>9, <1>10, <2>1 DEF PInv, Positions
    <2>8. eos' => spoiled' \/ offset' + Len(delivered') = Size
      BY <1>1, <1>2 DEF PInv, Positions
    <2>9. QED
      BY <2>1, <2>5, <2>6, <2>7, <2>8 DEF Positions
  <1>14. Ordered'
    <2>1. ASSUME ~ spoiled, NEW k \in 1 .. Len(copied') PROVE copied'[k] = offset + Len(delivered) + k
      <3>1. CASE k <= Len(copied)
        BY <1>3, <1>5, <1>8, <2>1, <3>1 DEF PInv, Ordered
      <3>2. CASE k > Len(copied)
        <4>1. k - Len(copied) \in 1 .. n /\ copied'[k] = more[k - Len(copied)]
          BY <1>3, <1>5, <1>8, <3>2
        <4>2. copied'[k] = abuf[1] + (k - Len(copied))
          BY <1>7, <4>1
        <4>3. abuf[1] = offset + Len(delivered) + Len(copied)
          BY <1>4, <2>1 DEF Place
        <4>4. QED
          BY <1>3, <4>2, <4>3, SizeFacts
      <3>3. QED
        BY <1>3, <1>5, <1>8, <3>1, <3>2
    <2>2. QED
      BY <1>1, <1>2, <2>1 DEF PInv, Ordered, InOrder
  <1>15. QED
    BY <1>10, <1>11, <1>12, <1>13, <1>14 DEF PInv

\* What is left of the buffer, if anything, is again the first of the queue.
LEMMA PutBackKeeps ==
  ASSUME PInv, PutBack
  PROVE  PInv'
  <1>1. /\ UNCHANGED <<cvars, request, want, eos, reply, outcome, uninit, spoiled>>
        /\ mpc = "putback" /\ abuf' = Empty
    BY DEF PutBack
  <1>2. UNCHANGED <<offset, known>>
    BY <1>1 DEF request
  <1>3. /\ abuf \in Buffers /\ abuf[1] \in 0 .. Size /\ abuf[2] \in 0 .. Size /\ Units(abuf) = abuf[2] - abuf[1]
        /\ Len(copied) \in Nat /\ Len(delivered) \in Nat /\ offset \in 0 .. Size
        /\ queue \in Seq(Buffers) /\ Sent \in 0 .. Size
    BY Numbers, Unit
  <1>4. abuf[1] <= abuf[2] /\ Place(abuf[1]) /\ (Reading => Chain(queue, Sent) /\ abuf[2] = First(queue, Sent))
    BY <1>1 DEF PInv, Positions, Holding
  <1>5. ok' = ok
    BY DEF PutBack, Recycle, Untake
  <1>6. /\ queue' \in Seq(Buffers) /\ rqueue' \in Seq(Buffers)
        /\ Reading => Chain(queue', Sent) /\ Place(First(queue', Sent))
    <2>1. CASE Units(abuf) = 0 /\ Recycle(Conn, Empty)
      <3> DEFINE one == <<Empty>>
      <3>1. one \in Seq(Buffers)
        BY SizeFacts
      <3>2. rqueue' = Recycled(rqueue, one) /\ queue' = queue
        BY <2>1 DEF Recycle
      <3> HIDE DEF one
      <3>3. rqueue' \in Seq(Buffers)
        BY <3>1, <3>2, RecycledType DEF PInv, PTypeOK
      <3>4. abuf[1] = abuf[2]
        BY <1>3, <2>1
      <3>5. QED
        BY <1>3, <1>4, <3>2, <3>3, <3>4
    <2>2. ASSUME NEW r \in {Yes, No}, Units(abuf) > 0, Untake(Conn, abuf, r)
          PROVE  /\ queue' \in Seq(Buffers) /\ rqueue' \in Seq(Buffers)
                 /\ Reading => Chain(queue', Sent) /\ Place(First(queue', Sent))
      <3> DEFINE back == <<abuf>> \o queue
      <3>1. abuf[1] < abuf[2]
        BY <1>3, <2>2
      <3>2. rqueue' = rqueue /\ queue' = IF ok THEN back ELSE queue
        BY <2>2 DEF Untake
      <3>3. Reading => back \in Seq(Buffers) /\ Chain(back, Sent) /\ First(back, Sent) = abuf[1]
        BY <1>3, <1>4, <3>1, ChainPutBack
      <3>4. back \in Seq(Buffers)
        <4> DEFINE one == <<abuf>>
        <4>1. one \in Seq(Buffers)
          BY <1>3
        <4> HIDE DEF one
        <4>2. one \o queue \in Seq(Buffers)
          BY <1>3, <4>1, Joined
        <4>3. QED
          BY <4>2 DEF one
      <3> HIDE DEF back
      <3>5. Reading => ok
        BY DEF Reading
      <3>6. rqueue \in Seq(Buffers)
        BY DEF PInv, PTypeOK
      <3>7. QED
        BY <1>3, <1>4, <3>2, <3>3, <3>4, <3>5, <3>6
    <2>3. QED
      BY <2>1, <2>2 DEF PutBack
  <1>7. \/ mpc' = "read" /\ delivered' = delivered /\ copied' = copied
        \/ mpc' = "serve" /\ delivered' = delivered \o copied /\ copied' = <<>>
    BY DEF PutBack, ReadReturns
  <1>8. /\ delivered' \in Seq(1 .. Size) /\ copied' \in Seq(1 .. Size) /\ Ordered'
        /\ Len(delivered') \in Nat /\ Len(copied') \in Nat
        /\ Len(delivered) <= Len(delivered') /\ Len(copied') <= want
        /\ Len(delivered') + Len(copied') = Len(delivered) + Len(copied)
    <2>1. delivered \in Seq(1 .. Size) /\ copied \in Seq(1 .. Size) /\ Ordered /\ Len(copied) <= want /\ want \in Nat
      BY ProxyAssumption DEF PInv, PTypeOK
    <2>2. CASE mpc' = "read" /\ delivered' = delivered /\ copied' = copied
      <3>1. Ordered'
        BY <1>1, <1>2, <2>1, <2>2 DEF Ordered, InOrder
      <3>2. QED
        BY <1>3, <2>1, <2>2, <3>1
    <2>3. CASE mpc' = "serve" /\ delivered' = delivered \o copied /\ copied' = <<>>
      <3>1. /\ delivered' \in Seq(1 .. Size) /\ Len(delivered') = Len(delivered) + Len(copied)
            /\ Len(delivered') \in Nat /\ Len(delivered) <= Len(delivered')
            /\ Len(copied') = 0 /\ copied' \in Seq(1 .. Size) /\ Ordered'
        BY <1>1, <1>2, <2>3, Returned
      <3>2. QED
        BY <1>3, <2>1, <3>1
    <2>4. QED
      BY <1>7, <2>2, <2>3
  <1>9. Transfer' /\ Sent' = Sent
    BY <1>1, <1>2, <1>8, TransferKept
  <1>10. PTypeOK'
    BY <1>1, <1>2, <1>6, <1>7, <1>8, SizeFacts, ReaderTypes DEF PInv, PTypeOK
  <1>11. Phases'
    BY <1>1, <1>5, <1>7 DEF PInv, Phases, Transferring, Leaving, cvars
  <1>12. Positions'
    <2>1. ~ Holding' /\ (Reading' => Reading)
      BY <1>1, <1>5, <1>7 DEF Holding, Reading
    <2>2. ~ eos
      BY <1>1 DEF PInv, Phases, Leaving
    <2>3. Reading' => Chain(queue', Sent') /\ Place(First(queue', Sent'))
      BY <1>6, <1>9, <2>1
    <2>4. offset + Len(delivered') + Len(copied') = offset + Len(delivered) + Len(copied)
      <3>1. PICK d \in Nat, c \in Nat : d = Len(delivered') /\ c = Len(copied')
        BY <1>8
      <3>2. offset + d + c = offset + Len(delivered) + Len(copied)
        BY <1>3, <1>8, <3>1, SizeFacts
      <3>3. QED
        BY <3>1, <3>2
    <2>5. Len(delivered') + Len(copied') <= Size
      BY <1>8 DEF PInv, Positions
    <2>6. ASSUME Reading' PROVE Place(First(queue, Sent))'
      <3> DEFINE p == First(queue', Sent')
      <3>1. Len(delivered) + Len(copied) <= p /\ (spoiled \/ p = offset + Len(delivered) + Len(copied))
        BY <2>3, <2>6 DEF Place
      <3>2. Len(delivered') + Len(copied') <= p /\ (spoiled' \/ p = offset' + Len(delivered') + Len(copied'))
        BY <1>1, <1>2, <1>8, <2>4, <3>1
      <3>3. QED
        BY <3>2 DEF Place
    <2>7. eos' = eos
      BY <1>1
    <2>8. QED
      BY <2>1, <2>2, <2>3, <2>5, <2>6, <2>7 DEF Positions
  <1>13. QED
    BY <1>8, <1>9, <1>10, <1>11, <1>12 DEF PInv

\* contentRead() gives up what it has copied, or decides to try again.
LEMMA TakeFailedKeeps ==
  ASSUME PInv, TakeFailed
  PROVE  PInv'
  <1>1. /\ UNCHANGED <<xvars, cvars, request, delivered, want, abuf, eos, reply, spoiled>>
        /\ mpc = "takefailed" /\ uninit' \in BOOLEAN
        /\ \/ mpc' = "reset" /\ UNCHANGED <<copied, outcome>>
           \/ mpc' = "serve" /\ outcome' = "error" /\ copied' = <<>>
    BY DEF TakeFailed, PInv, PTypeOK
  <1>2. UNCHANGED <<queue, rqueue, ok>> /\ UNCHANGED <<offset, known>>
    BY <1>1 DEF xvars, request
  <1>3. /\ Len(copied) \in Nat /\ Len(delivered) \in Nat
        /\ delivered \in Seq(1 .. Size) /\ copied \in Seq(1 .. Size) /\ Len(copied) <= want /\ want \in Nat
    BY Numbers, ProxyAssumption DEF PInv, PTypeOK
  <1>4. copied' \in Seq(1 .. Size) /\ Len(copied') \in Nat /\ Len(copied') <= Len(copied) /\ Len(copied') <= want
    <2>1. CASE copied' = copied
      BY <1>3, <2>1
    <2>2. CASE copied' = <<>>
      BY <1>3, <2>2, NoUnits
    <2>3. QED
      BY <1>1, <2>1, <2>2
  <1>5. ~ eos
    BY <1>1 DEF PInv, Phases, Leaving
  <1>6. Transfer'
    BY <1>1, <1>2, <1>3, TransferKept
  <1>7. PTypeOK'
    BY <1>1, <1>2, <1>3, <1>4, ReaderTypes DEF PInv, PTypeOK
  <1>8. Phases'
    BY <1>1, <1>2 DEF PInv, Phases, Transferring, Leaving, cvars
  <1>9. Positions'
    <2>1. ~ Holding' /\ ~ Reading'
      BY <1>1, <1>5 DEF Holding, Reading
    <2>2. Len(delivered) + Len(copied) <= Size
      BY DEF PInv, Positions
    <2>3. Len(delivered') + Len(copied') <= Size
      BY <1>1, <1>3, <1>4, <2>2, SizeFacts
    <2>4. QED
      BY <1>1, <1>5, <2>1, <2>3 DEF Positions
  <1>10. Ordered'
    BY <1>1, <1>2, NoUnits DEF PInv, Ordered, InOrder
  <1>11. QED
    BY <1>6, <1>7, <1>8, <1>9, <1>10 DEF PInv

LEMMA ResetFetchKeeps ==
  ASSUME PInv, ResetFetch
  PROVE  PInv'
  <1>1. /\ UNCHANGED <<range, rpos, head, cur, aborting, headersOk, errors, reader>>
        /\ mpc = "reset" /\ cpc = "exited" /\ mpc' = "restart" /\ cpc' = "none"
        /\ done' = FALSE /\ code' = "ok" /\ count' = 0
    BY DEF ResetFetch
  <1>2. ok' = TRUE /\ queue' = <<>> /\ rqueue' = Recycled(rqueue, queue)
    BY DEF ResetFetch, Reset
  <1>3. rqueue' \in Seq(Buffers) /\ queue' \in Seq(Buffers)
    BY <1>2, RecycledType, NoUnits DEF PInv, PTypeOK
  <1>4. UNCHANGED <<offset, known, delivered, copied, want, abuf, eos, reply, outcome, uninit, spoiled>>
    BY <1>1 DEF reader, request
  <1>5. Sent' = Sent /\ Sent \in 0 .. Size /\ 0 <= Sent
    BY <1>1, Numbers DEF Sent
  <1>6. PTypeOK'
    <2>1. {range, rpos, head, count, offset}' \subseteq 0 .. Size
      BY <1>1, <1>4, SizeFacts DEF PInv, PTypeOK
    <2>2. /\ cur' \in Buffers /\ abuf' \in Buffers
          /\ {code}' \subseteq {"ok", "retry", "fatal"} /\ outcome' \in {"none", "eos", "error"}
          /\ {done, aborting, headersOk, eos, uninit, spoiled, known}' \subseteq BOOLEAN
          /\ errors' \in 0 .. MaxErrors /\ want' \in 0 .. MaxUnits /\ reply' \in {0, 200}
      BY <1>1, <1>4 DEF PInv, PTypeOK
    <2>3. delivered' \in Seq(1 .. Size) /\ copied' \in Seq(1 .. Size) /\ (Len(copied) <= want)'
      BY <1>4 DEF PInv, PTypeOK
    <2>4. QED
      BY <1>1, <1>3, <2>1, <2>2, <2>3 DEF PTypeOK
  <1>7. Phases'
    BY <1>1, <1>2, <1>4 DEF PInv, Phases, Transferring, Leaving
  <1>8. Transfer'
    BY <1>1, <1>4, <1>5 DEF PInv, Transfer, Transferring
  <1>9. Positions'
    BY <1>1, <1>4 DEF PInv, Positions, Holding, Reading
  <1>10. Ordered'
    BY <1>4 DEF PInv, Ordered, InOrder
  <1>11. QED
    BY <1>6, <1>7, <1>8, <1>9, <1>10 DEF PInv

\* The transfer starts again behind what was delivered, if nothing was thrown away
\* and the client asked for the whole resource.
LEMMA RestartKeeps ==
  ASSUME PInv, Restart
  PROVE  PInv'
  <1> DEFINE from == Len(delivered) + Len(copied)
  <1>1. /\ UNCHANGED <<xvars, request, delivered, want, abuf, eos, reply, outcome, uninit,
                       head, cur, count, code, done, aborting, headersOk, errors>>
        /\ mpc = "restart" /\ mpc' = "serve" /\ cpc' = "connect" /\ copied' = <<>>
        /\ spoiled' = (spoiled \/ copied # <<>> \/ offset > 0)
        /\ range' = (IF from > 0 THEN from ELSE range) /\ rpos' = range'
    BY DEF Restart, StartFetch
  <1>2. UNCHANGED <<queue, rqueue, ok>> /\ UNCHANGED <<offset, known>>
    BY <1>1 DEF xvars, request
  <1>3. /\ cpc = "none" /\ queue = <<>> /\ count = 0 /\ ~ done /\ ok /\ ~ aborting /\ ~ eos /\ outcome = "none"
    BY <1>1 DEF PInv, Phases, Leaving
  <1>4. head = 0 /\ cur = Empty
    BY <1>3 DEF PInv, Transfer, Transferring
  <1>5. /\ Len(copied) \in Nat /\ Len(delivered) \in Nat /\ offset \in 0 .. Size /\ range \in 0 .. Size
        /\ from <= Size /\ (spoiled \/ range <= offset + Len(delivered))
    BY Numbers DEF PInv, Positions, Transfer
  <1>6. PICK o \in 0 .. Size : range' = o /\ o = IF from > 0 THEN from ELSE range
    BY <1>1, <1>5, SizeFacts
  <1>7. Len(delivered) + 0 <= o /\ Len(delivered) + 0 <= Size
    BY <1>5, <1>6, SizeFacts
  <1>8. ASSUME ~ spoiled' PROVE o = offset + Len(delivered) + 0 /\ o <= offset + Len(delivered)
    <2>1. copied = <<>> /\ ~ spoiled /\ ~ (offset > 0)
      BY <1>1, <1>8
    <2>2. offset = 0
      BY <1>5, <2>1, SizeFacts
    <2>3. from = Len(delivered) /\ range <= Len(delivered)
      BY <1>5, <2>1, <2>2, NoUnits
    <2>4. o = Len(delivered)
      <3> HIDE DEF from
      <3>1. o = IF Len(delivered) > 0 THEN Len(delivered) ELSE range
        BY <1>6, <2>3
      <3>2. QED
        BY <1>5, <2>3, <3>1, SizeFacts
    <2>5. QED
      BY <1>5, <2>2, <2>4, SizeFacts
  <1>9. Len(copied') = 0 /\ copied' \in Seq(1 .. Size)
    BY <1>1, NoUnits
  <1>10. spoiled' \in BOOLEAN
    BY <1>1
  <1>11. Sent' = o
    <2>1. Sent' = o - 0
      BY <1>1, <1>4, <1>6 DEF Sent
    <2>2. o - 0 = o
      BY SizeFacts
    <2>3. QED
      BY <2>1, <2>2
  <1>12. PTypeOK'
    <2>1. Len(copied') <= want
      BY <1>9, ProxyAssumption DEF PInv, PTypeOK
    <2>2. QED
      BY <1>1, <1>2, <1>6, <1>9, <1>10, <2>1 DEF PInv, PTypeOK
  <1>13. Phases'
    BY <1>1, <1>2, <1>3 DEF PInv, Phases, Transferring, Leaving
  <1>14. Transfer'
    <2>1. count' <= Sent'
      BY <1>1, <1>3, <1>11, SizeFacts
    <2>2. spoiled' \/ range' <= offset' + Len(delivered')
      BY <1>1, <1>2, <1>6, <1>8
    <2>3. QED
      BY <1>1, <1>4, <2>1, <2>2 DEF Transfer, Transferring
  <1>15. Positions'
    <2>1. Chain(queue', Sent') /\ First(queue', Sent') = o
      BY <1>2, <1>3, <1>11 DEF Chain, First
    <2>2. Place(First(queue, Sent))'
      BY <1>1, <1>2, <1>7, <1>8, <1>9, <2>1 DEF Place
    <2>3. ~ Holding' /\ ~ eos' /\ Len(delivered') + Len(copied') <= Size
      BY <1>1, <1>3, <1>7, <1>9 DEF Holding
    <2>4. QED
      BY <2>1, <2>2, <2>3 DEF Positions
  <1>16. Ordered'
    BY <1>1, <1>2, <1>9 DEF PInv, Ordered, InOrder
  <1>17. QED
    BY <1>12, <1>13, <1>14, <1>15, <1>16 DEF PInv

\* The end of the request.
LEMMA DeleteKeeps ==
  ASSUME PInv, Delete \/ PollDone \/ JoinWorker
  PROVE  PInv'
  <1>1. /\ UNCHANGED <<queue, rqueue, range, rpos, head, cur, count, code, done, headersOk, errors, reader>>
        /\ \/ mpc = "serve" /\ mpc' = "polling" /\ cpc' = cpc /\ aborting' = TRUE /\ ok' = ok
           \/ mpc = "polling" /\ mpc' = "joining" /\ cpc' = cpc /\ aborting' = aborting /\ done
           \/ mpc = "joining" /\ mpc' = "closed" /\ cpc = "exited" /\ cpc' = "none" /\ aborting' = aborting /\ ok' = ok
    BY DEF Delete, PollDone, JoinWorker, SetTerminate, xvars, cvars
  <1>2. UNCHANGED <<offset, known, delivered, copied, want, abuf, eos, reply, outcome, uninit, spoiled>>
    BY <1>1 DEF reader, request
  <1>3. Sent' = Sent
    BY <1>1 DEF Sent
  <1>4. PTypeOK'
    <2>1. /\ cpc' \in {"none", "connect", "data", "write", "finish", "eos", "drain", "term", "exited"}
          /\ mpc' \in {"polling", "joining", "closed"}
      BY <1>1 DEF PInv, PTypeOK
    <2>2. aborting' \in BOOLEAN
      BY <1>1 DEF PInv, PTypeOK
    <2>3. QED
      BY <1>1, <1>2, <2>1, <2>2 DEF PInv, PTypeOK
  <1>5. Phases'
    BY <1>1, <1>2 DEF PInv, Phases, Transferring, Leaving
  <1>6. Transfer'
    <2>1. aborting'
      BY <1>1 DEF PInv, Phases, Leaving
    <2>2. cpc' = "write" <=> cpc = "write"
      BY <1>1
    <2>3. QED
      BY <1>1, <1>2, <1>3, <2>1, <2>2 DEF PInv, Transfer
  <1>7. Positions'
    BY <1>1, <1>2 DEF PInv, Positions, Holding, Reading
  <1>8. Ordered'
    BY <1>2 DEF PInv, Ordered, InOrder
  <1>9. QED
    BY <1>4, <1>5, <1>6, <1>7, <1>8 DEF PInv

-----------------------------------------------------------------------------
\* The theorems.

LEMMA NextKeeps ==
  ASSUME PInv, [Next]_allVars
  PROVE  PInv'
  <1>1. CASE UNCHANGED allVars
    BY <1>1, WaitingKeeps DEF allVars, pvars, xvars
  <1>2. CASE ConnStep
    BY <1>2, AnswerFirstKeeps, CallKeeps, TakeNextKeeps, CopyKeeps, PutBackKeeps, TakeFailedKeeps,
       ResetFetchKeeps, RestartKeeps, DeleteKeeps DEF ConnStep
  <1>3. CASE TakeLate
    <2>1. mpc = "read" /\ mpc' = "takefailed" /\ UNCHANGED <<queue, rqueue, ok, cvars, reader>>
      BY <1>3 DEF TakeLate, TakeTimeout, TakeResult, Yes, No, Waits
    <2>2. QED
      BY <2>1, FailedTakeKeeps
  <1>4. CASE XWakeup /\ UNCHANGED <<cvars, mpc, reader>>
    BY <1>4, WaitingKeeps DEF XWakeup
  <1>5. QED
    BY <1>1, <1>2, <1>3, <1>4, CurlKeeps DEF Next, ConnGoesOn

\* Without a timeout, take() fails only when the transfer's thread has ended it.
LEMMA CalmKeeps ==
  ASSUME StreamInv, [Next]_allVars
  PROVE  calm' \in BOOLEAN /\ (calm' => ~ uninit' /\ (mpc' = "takefailed" => done'))
  <1>1. calm' = calm /\ calm \in BOOLEAN
    BY DEF Next, allVars, StreamInv
  <1> SUFFICES ASSUME calm PROVE ~ uninit' /\ (mpc' = "takefailed" => done')
    BY <1>1
  <1>2. ~ uninit /\ (mpc = "takefailed" => done) /\ (ok \/ done)
    BY DEF StreamInv, PInv, Phases
  <1>3. CASE UNCHANGED <<uninit, mpc>> /\ (done' = done \/ done' = TRUE)
    BY <1>2, <1>3
  <1>4. CASE CurlStep
    <2>1. UNCHANGED <<uninit, mpc>>
      BY <1>4 DEF CurlStep, HeadersEnd, KeepHead, SendHead, SendRest, SendData, Perform, Finish, PutEos, Drain,
                  Term, GoCurl, reader
    <2>2. done' = done \/ done' = TRUE
      BY <1>4 DEF CurlStep, HeadersEnd, KeepHead, SendHead, SendRest, SendData, Perform, Finish, PutEos, Drain,
                  Term, GoCurl
    <2>3. QED
      BY <1>3, <2>1, <2>2
  <1>5. CASE TakeNext
    <2>1. PICK r \in Results : (Take(Conn, r) \/ TakeWake(Conn, r)) /\ TakeResult(r)
      BY <1>5 DEF TakeNext
    <2>2. uninit' = uninit /\ done' = done /\ mpc = "read"
      BY <1>5, <2>1 DEF TakeNext, TakeResult, reader, cvars
    <2>3. mpc' = "takefailed" => r = No
      BY <2>1, <2>2 DEF TakeResult, ReadReturns
    <2>4. r = No => ~ ok
      BY <2>1, TakeFacts
    <2>5. QED
      BY <1>2, <2>2, <2>3, <2>4
  <1>6. CASE TakeFailed
    BY <1>2, <1>6 DEF TakeFailed, cvars
  <1>7. CASE AnswerFirst \/ HeadersFailed \/ HeadersGot \/ ReadCall \/ Copy \/ PutBack
    BY <1>2, <1>7 DEF AnswerFirst, HeadersFailed, HeadersGot, ReadCall, Copy, PutBack, ReadReturns
  <1>8. CASE ResetFetch \/ Restart \/ Delete \/ PollDone \/ JoinWorker
    BY <1>2, <1>8 DEF ResetFetch, Restart, Delete, PollDone, JoinWorker, reader
  <1>9. CASE (XWakeup /\ UNCHANGED <<cvars, mpc, reader>>) \/ UNCHANGED allVars
    BY <1>3, <1>9 DEF cvars, reader, allVars, pvars
  <1>10. QED
    BY <1>4, <1>5, <1>6, <1>7, <1>8, <1>9 DEF Next, ConnGoesOn, ConnStep

\* The invariant behind the next theorem: the queue holds the units from where
\* contentRead() goes on to where the transfer is, without a gap, as long as the
\* two are on the same transfer (contentRead, curlWriteCB).
THEOREM StreamInvariant == Spec => []StreamInv
  <1>1. Init => StreamInv
    <2> SUFFICES ASSUME Init PROVE StreamInv
      OBVIOUS
    <2>1. PTypeOK
      <3>1. queue \in Seq(Buffers) /\ rqueue \in Seq(Buffers) /\ delivered \in Seq(1 .. Size)
        BY NoUnits DEF Init, PInit, XInit
      <3>2. copied \in Seq(1 .. Size) /\ Len(copied) <= want /\ want = 0
        BY NoUnits DEF Init, PInit
      <3>3. cur \in Buffers /\ abuf \in Buffers /\ 0 \in 0 .. Size
        BY SizeFacts DEF Init, PInit
      <3>4. 0 \in 0 .. MaxErrors /\ 0 \in 0 .. MaxUnits
        BY ProxyAssumption
      <3>5. QED
        BY <3>1, <3>2, <3>3, <3>4 DEF Init, PInit, PTypeOK
    <2>2. Sent = 0
      BY DEF Init, PInit, Sent
    <2>3. Len(delivered) = 0 /\ Len(copied) = 0 /\ delivered = <<>> /\ copied = <<>>
      BY NoUnits DEF Init, PInit
    <2>4. Phases
      BY <2>3 DEF Init, PInit, XInit, Phases, Transferring, Leaving
    <2>5. Transfer
      BY <2>2, <2>3 DEF Init, PInit, Transfer, Transferring
    <2>6. Positions /\ Ordered
      BY <2>3, SizeFacts DEF Init, PInit, Positions, Holding, Reading, Ordered, InOrder
    <2>7. QED
      BY <2>1, <2>4, <2>5, <2>6 DEF Init, PInit, StreamInv, PInv
  <1>2. StreamInv /\ [Next]_allVars => StreamInv'
    BY NextKeeps, CalmKeeps DEF StreamInv
  <1>3. QED
    BY <1>1, <1>2, PTL DEF Spec

\* The client gets the units it asked for in order, each once, through any number
\* of failures and retries, unless contentRead() dropped units or there was a range;
\* END_OF_STREAM comes after all of them; and without a timeout contentRead()
\* decides from a status that was set (contentRead, curlWriteCB, fetchDone).
THEOREM ClientGetsTheStream == Spec => []StreamInOrder
  <1>1. StreamInv => StreamInOrder
    <2> SUFFICES ASSUME StreamInv PROVE StreamInOrder
      OBVIOUS
    <2>1. PTypeOK /\ RetryInOrder /\ (calm => CodeInitialised)
      BY DEF StreamInv, PInv, Ordered, RetryInOrder, CodeInitialised
    <2>2. EosComplete
      <3> SUFFICES ASSUME outcome = "eos", ~ spoiled PROVE Len(delivered) = Size - offset
        BY DEF EosComplete
      <3>1. offset + Len(delivered) = Size
        BY DEF StreamInv, PInv, Phases, Positions
      <3>2. offset \in 0 .. Size /\ Len(delivered) \in Nat
        BY Numbers DEF StreamInv
      <3>3. QED
        BY <3>1, <3>2, SizeFacts
    <2>3. QED
      BY <2>1, <2>2 DEF StreamInOrder
  <1>2. QED
    BY <1>1, StreamInvariant, PTL
=============================================================================
