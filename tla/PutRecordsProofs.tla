-------------------------- MODULE PutRecordsProofs --------------------------
(***************************************************************************)
(* Proofs about PutRecords, for requests of any number and size of         *)
(* records, any limits of a call and any number of attempts, resends and   *)
(* repetitions by the client.                                              *)
(***************************************************************************)
EXTENDS PutRecords, Extrema, FiniteSetTheorems, TLAPS

Stored(r) == \E i \in DOMAIN stream : r \in stream[i]

\* The chunk that the attempt is a part of fits into a call.
Chunked == attempt # {} => end = start + 1 \/ Bytes(Chunk(end)) <= MaxBytes

\* What flush has passed is stored, and so is what putRecords does not try
\* again.
Covered ==
  /\ state \in {"flush", "put", "backoff", "done"} =>
       \A r \in Records : r < start => Stored(r)
  /\ state \in {"put", "backoff"} =>
       attempt # {} /\ \A r \in Chunk(end) : r \in attempt \/ Stored(r)
  /\ state = "done" => start = N + 1

\* This send has still to put r.
Pending(r) ==
  \/ state = "flush" /\ r >= start
  \/ state \in {"put", "backoff"} /\ (r \in attempt \/ r >= end)

\* Every send leaves at most one copy of a record besides those of transmissions
\* that the client repeated, and none of one that it has still to put.
Once == \A r \in Records : /\ Copies(r) <= sends + unanswered[r]
                           /\ Pending(r) => Copies(r) < sends + unanswered[r]

\* The inductive invariant.
IInv == TypeOK /\ Chunked /\ Covered /\ Once

-----------------------------------------------------------------------------
(***************************************************************************)
(* The bytes of a call.                                                    *)
(***************************************************************************)
\* What record n adds to a call that has the records of c.
Share(c, n) == IF n \in c THEN size[n] ELSE 0

\* f is the running total of the bytes of c.
RunningTotal(f, c, m) ==
  /\ f \in [0..m -> Nat]
  /\ f[0] = 0
  /\ \A n \in 1..m : f[n] = f[n - 1] + Share(c, n)

LEMMA TotalExists ==
  ASSUME TypeOK, NEW c \in SUBSET Records, NEW m \in 0..N
  PROVE  \E f : RunningTotal(f, c, m)
<1>0. N \in Nat /\ \A n \in 1..N : Share(c, n) \in Nat
  BY NAssumption, SizesAssumption DEF TypeOK, Share, Records
<1> DEFINE Bad == {k \in 0..N : ~\E f : RunningTotal(f, c, k)}
<1>1. SUFFICES ASSUME Bad # {} PROVE FALSE
  OBVIOUS
<1>2. Bad \in SUBSET Nat
  BY <1>0
<1>3. PICK k \in Bad : \A j \in Bad : k <= j
  <2> HIDE DEF Bad
  <2> QED
    BY <1>1, <1>2, LeastNatural
<1>4. k \in 0..N /\ ~\E f : RunningTotal(f, c, k)
  OBVIOUS
<1>5. CASE k = 0
  <2> DEFINE f == [n \in 0..k |-> 0]
  <2>1. RunningTotal(f, c, k)
    BY <1>5 DEF RunningTotal
  <2>2. QED
    BY <1>4, <2>1
<1>6. CASE k # 0
  <2>1. k - 1 \in 0..N /\ k - 1 \notin Bad
    BY <1>0, <1>3, <1>4, <1>6
  <2>2. PICK g : RunningTotal(g, c, k - 1)
    BY <2>1
  <2> DEFINE f == [n \in 0..k |-> IF n = k THEN g[k - 1] + Share(c, k) ELSE g[n]]
  <2>3. k \in 1..N /\ Share(c, k) \in Nat
    BY <1>0, <1>4, <1>6
  <2>4. f \in [0..k -> Nat]
    BY <1>0, <2>2, <2>3 DEF RunningTotal
  <2>5. f[0] = 0
    BY <2>2, <2>3 DEF RunningTotal
  <2>6. ASSUME NEW n \in 1..k
        PROVE  f[n] = f[n - 1] + Share(c, n)
    <3>1. CASE n = k
      BY <1>0, <2>3, <3>1
    <3>2. CASE n # k
      BY <1>0, <2>2, <2>3, <3>2 DEF RunningTotal
    <3>3. QED
      BY <3>1, <3>2
  <2>7. RunningTotal(f, c, k)
    BY <2>4, <2>5, <2>6 DEF RunningTotal
  <2>8. QED
    BY <1>4, <2>7
<1>7. QED
  BY <1>5, <1>6

\* bytes is such a running total.
LEMMA BytesTotal ==
  ASSUME TypeOK, NEW c \in SUBSET Records
  PROVE  \E f : RunningTotal(f, c, N) /\ Bytes(c) = f[N]
<1> DEFINE Step(f) == [n \in 0..N |-> IF n = 0 THEN 0
                                      ELSE f[n - 1] + (IF n \in c THEN size[n] ELSE 0)]
           bytes == CHOOSE f : f = Step(f)
<1>0. N \in Nat \ {0} /\ \A n \in 1..N : Share(c, n) \in Nat
  BY NAssumption, SizesAssumption DEF TypeOK, Share, Records
<1>1. PICK g : RunningTotal(g, c, N)
  BY <1>0, TotalExists
<1>2. g = Step(g)
  BY <1>0, <1>1 DEF RunningTotal, Share
<1>3. bytes = Step(bytes)
  BY <1>2
<1>4. Bytes(c) = bytes[N]
  BY DEF Bytes
<1> HIDE DEF bytes
<1>5. /\ bytes[0] = 0
      /\ \A n \in 1..N : bytes[n] = bytes[n - 1] + Share(c, n)
  BY <1>0, <1>3 DEF Share
<1>6. \A n \in 0..N : bytes[n] = g[n]
  <2> DEFINE Bad == {n \in 0..N : bytes[n] # g[n]}
  <2>1. SUFFICES ASSUME Bad # {} PROVE FALSE
    OBVIOUS
  <2>2. Bad \in SUBSET Nat
    BY <1>0
  <2>3. PICK k \in Bad : \A j \in Bad : k <= j
    <3> HIDE DEF Bad
    <3> QED
      BY <2>1, <2>2, LeastNatural
  <2>4. k # 0 /\ k \in 1..N
    BY <1>0, <1>1, <1>5 DEF RunningTotal
  <2>5. k - 1 \in 0..N /\ k - 1 \notin Bad
    BY <1>0, <2>3, <2>4
  <2>6. bytes[k - 1] = g[k - 1]
    BY <2>5
  <2>7. QED
    BY <1>1, <1>5, <2>4, <2>6 DEF RunningTotal
<1>7. N \in 0..N
  BY <1>0
<1>8. QED
  BY <1>1, <1>4, <1>6, <1>7

\* A part of a call has no more bytes than the call.
LEMMA BytesMonotone ==
  ASSUME TypeOK, NEW d \in SUBSET Records, NEW c \in SUBSET d
  PROVE  Bytes(c) \in Nat /\ Bytes(d) \in Nat /\ Bytes(c) <= Bytes(d)
<1>0. N \in Nat /\ \A n \in 1..N : size[n] \in Nat
  BY NAssumption, SizesAssumption DEF TypeOK, Records
<1>1. PICK f : RunningTotal(f, c, N) /\ Bytes(c) = f[N]
  BY BytesTotal
<1>2. PICK g : RunningTotal(g, d, N) /\ Bytes(d) = g[N]
  BY BytesTotal
<1>3. \A n \in 0..N : f[n] \in Nat /\ g[n] \in Nat
  BY <1>1, <1>2 DEF RunningTotal
<1>4. \A n \in 0..N : f[n] <= g[n]
  <2> DEFINE Bad == {n \in 0..N : ~(f[n] <= g[n])}
  <2>1. SUFFICES ASSUME Bad # {} PROVE FALSE
    OBVIOUS
  <2>2. Bad \in SUBSET Nat
    BY <1>0
  <2>3. PICK k \in Bad : \A j \in Bad : k <= j
    <3> HIDE DEF Bad
    <3> QED
      BY <2>1, <2>2, LeastNatural
  <2>4. k # 0 /\ k \in 1..N
    BY <1>0, <1>1, <1>2 DEF RunningTotal
  <2>5. k - 1 \in 0..N /\ k - 1 \notin Bad
    BY <1>0, <2>3, <2>4
  <2>6. f[k - 1] <= g[k - 1] /\ f[k - 1] \in Nat /\ g[k - 1] \in Nat
    BY <1>3, <2>5
  <2>7. f[k] = f[k - 1] + Share(c, k) /\ g[k] = g[k - 1] + Share(d, k)
    BY <1>1, <1>2, <2>4 DEF RunningTotal
  <2>8. Share(c, k) <= Share(d, k) /\ Share(c, k) \in Nat /\ Share(d, k) \in Nat
    BY <1>0, <2>4 DEF Share
  <2>9. f[k] <= g[k]
    BY <2>6, <2>7, <2>8
  <2>10. QED
    BY <2>9
<1>5. N \in 0..N
  BY <1>0
<1>6. QED
  BY <1>1, <1>2, <1>3, <1>4, <1>5

\* flush cuts a chunk within both limits, or of one record.
LEMMA ChunkEndFacts ==
  ASSUME TypeOK, start <= N
  PROVE  /\ ChunkEnd \in (start + 1)..(N + 1)
         /\ ChunkEnd = start + 1 \/ Bytes(Chunk(ChunkEnd)) <= MaxBytes
         /\ ChunkEnd - start <= MaxRecords
<1>0. N \in Nat /\ start \in Nat /\ MaxRecords \in Nat \ {0}
  BY NAssumption, LimitsAssumption DEF TypeOK
<1> DEFINE Ends == {e \in (start + 1)..(N + 1) :
                      e = start + 1 \/ (e - start <= MaxRecords /\
                                        Bytes(Chunk(e)) <= MaxBytes)}
<1>1. Ends \in SUBSET Int /\ start + 1 \in Ends
  BY <1>0
<1>2. IsFiniteSet(Ends)
  <2>1. Ends \subseteq (start + 1)..(N + 1)
    OBVIOUS
  <2>2. IsFiniteSet((start + 1)..(N + 1))
    BY <1>0, FS_Interval
  <2> HIDE DEF Ends
  <2>3. QED
    BY <2>1, <2>2, FS_Subset
<1>3. ChunkEnd = Max(Ends)
  BY DEF ChunkEnd
<1>4. Max(Ends) \in Ends
  <2> HIDE DEF Ends
  <2> QED
    BY <1>1, <1>2, MaxFacts
<1>5. ChunkEnd \in Ends
  BY <1>3, <1>4
<1>6. QED
  BY <1>0, <1>5

-----------------------------------------------------------------------------
(***************************************************************************)
(* The stream.                                                             *)
(***************************************************************************)
\* The calls of s that r was taken of.
Takes(s, r) == {i \in DOMAIN s : r \in s[i]}

LEMMA TakesFinite ==
  ASSUME NEW s \in Seq(SUBSET Records), NEW r
  PROVE  IsFiniteSet(Takes(s, r)) /\ Cardinality(Takes(s, r)) \in Nat
<1>1. Takes(s, r) \subseteq 1..Len(s) /\ Len(s) \in Nat
  BY DEF Takes
<1>2. IsFiniteSet(1..Len(s))
  BY <1>1, FS_Interval
<1>3. IsFiniteSet(Takes(s, r))
  BY <1>1, <1>2, FS_Subset
<1>4. QED
  BY <1>3, FS_CardinalityType

\* What a call adds to the stream: one copy of each record taken.
LEMMA AppendedFacts ==
  ASSUME TypeOK, NEW ok \in SUBSET Records, stream' = Appended(ok)
  PROVE  /\ stream' \in Seq(SUBSET Records)
         /\ \A r \in Records :
              /\ Copies(r) \in Nat
              /\ Copies(r)' = Copies(r) + (IF r \in ok THEN 1 ELSE 0)
              /\ Stored(r)' <=> Stored(r) \/ r \in ok
<1>1. stream \in Seq(SUBSET Records)
  BY DEF TypeOK
<1>0. \A r \in Records : /\ Copies(r) = Cardinality(Takes(stream, r))
                         /\ Copies(r)' = Cardinality(Takes(stream', r))
  BY DEF Copies, Takes
<1>2. \A r \in Records : Copies(r) \in Nat
  BY <1>0, <1>1, TakesFinite
<1>3. CASE ok = {}
  <2>1. stream' = stream
    BY <1>3 DEF Appended
  <2>2. \A r \in Records : Copies(r)' = Copies(r) /\ Stored(r)' = Stored(r)
    BY <2>1 DEF Copies, Stored
  <2>3. QED
    BY <1>1, <1>2, <1>3, <2>1, <2>2
<1>4. CASE ok # {}
  <2>1. stream' = Append(stream, ok)
    BY <1>4 DEF Appended
  <2>2. /\ Len(stream) \in Nat /\ DOMAIN stream = 1..Len(stream)
        /\ DOMAIN stream' = 1..(Len(stream) + 1)
        /\ \A i \in 1..Len(stream) : stream'[i] = stream[i]
        /\ stream'[Len(stream) + 1] = ok
    BY <1>1, <2>1
  <2>3. ASSUME NEW r \in Records
        PROVE  Copies(r)' = Copies(r) + (IF r \in ok THEN 1 ELSE 0)
    <3>1. Len(stream) + 1 \notin Takes(stream, r)
      BY <2>2 DEF Takes
    <3>2. Takes(stream', r) = IF r \in ok
                                THEN Takes(stream, r) \cup {Len(stream) + 1}
                                ELSE Takes(stream, r)
      BY <2>2 DEF Takes
    <3>3. /\ IsFiniteSet(Takes(stream, r))
          /\ Cardinality(Takes(stream, r)) \in Nat
      BY <1>1, TakesFinite
    <3>4. Cardinality(Takes(stream, r) \cup {Len(stream) + 1})
            = Cardinality(Takes(stream, r)) + 1
      BY <3>1, <3>3, FS_AddElement
    <3>5. /\ Copies(r) = Cardinality(Takes(stream, r))
          /\ Copies(r)' = Cardinality(Takes(stream', r))
      BY DEF Copies, Takes
    <3>6. CASE r \in ok
      <4>1. Takes(stream', r) = Takes(stream, r) \cup {Len(stream) + 1}
        BY <3>2, <3>6
      <4>2. Copies(r)' = Cardinality(Takes(stream, r)) + 1
        BY <3>4, <3>5, <4>1
      <4>3. QED
        BY <3>5, <3>6, <4>2
    <3>7. CASE r \notin ok
      <4>1. Copies(r)' = Copies(r)
        BY <3>2, <3>5, <3>7
      <4>2. QED
        BY <3>3, <3>5, <3>7, <4>1
    <3>8. QED
      BY <3>6, <3>7
  <2>4. \A r \in Records : Stored(r)' <=> Stored(r) \/ r \in ok
    <3>1. \A i \in 1..(Len(stream) + 1) :
            i \in 1..Len(stream) \/ i = Len(stream) + 1
      BY <2>2
    <3>2. 1..Len(stream) \subseteq 1..(Len(stream) + 1)
          /\ Len(stream) + 1 \in 1..(Len(stream) + 1)
      BY <2>2
    <3>3. QED
      BY <2>2, <3>1, <3>2 DEF Stored
  <2>5. QED
    BY <1>1, <1>2, <2>1, <2>3, <2>4
<1>5. QED
  BY <1>3, <1>4

LEMMA SameStream ==
  ASSUME stream' = stream
  PROVE  \A r : Copies(r)' = Copies(r) /\ Stored(r)' = Stored(r)
BY DEF Copies, Stored

-----------------------------------------------------------------------------
LEMMA InvariantInit == Init => IInv
<1> SUFFICES ASSUME Init PROVE IInv
  OBVIOUS
<1>1. N \in Nat /\ 1 \in 1..(N + 1) /\ MaxPutAttempts \in Nat \ {0}
      /\ MaxSends \in Nat \ {0} /\ MaxRecords \in Nat /\ MaxRepeats \in Nat
  BY NAssumption, LimitsAssumption
<1>2. Cardinality({}) = 0
  BY FS_EmptySet
<1>3. TypeOK
  <2>1. Cardinality(attempt) = 0
    BY <1>2 DEF Init
  <2>2. Cardinality(attempt) <= MaxRecords
    BY <1>1, <2>1
  <2>3. stream \in Seq(SUBSET Records)
    BY DEF Init
  <2>4. /\ start \in 1..(N + 1) /\ end \in start..(N + 1)
        /\ attempt \subseteq start..(end - 1)
        /\ try \in 0..(MaxPutAttempts - 1) /\ sends \in 1..MaxSends
        /\ unanswered \in [Records -> 0..MaxRepeats]
    BY <1>1 DEF Init
  <2>5. QED
    BY <2>2, <2>3, <2>4 DEF Init, TypeOK, States
<1>4. Chunked
  BY DEF Init, Chunked
<1>5. Covered
  BY <1>1 DEF Init, Covered, Records
<1>6. Once
  <2>1. \A r \in Records : {i \in DOMAIN stream : r \in stream[i]} = {}
    BY DEF Init
  <2>2. \A r \in Records : Copies(r) = 0
    BY <1>2, <2>1 DEF Copies
  <2>3. QED
    BY <2>2 DEF Init, Once
<1>7. QED
  BY <1>3, <1>4, <1>5, <1>6 DEF IInv

LEMMA TypeStep ==
  ASSUME IInv, [Next]_vars
  PROVE  TypeOK'
<1> USE DEF IInv, TypeOK
<1>0. /\ N \in Nat /\ MaxRecords \in Nat \ {0} /\ MaxPutAttempts \in Nat \ {0}
      /\ MaxSends \in Nat \ {0} /\ MaxRepeats \in Nat /\ Cardinality({}) = 0
  BY NAssumption, LimitsAssumption, FS_EmptySet
<1>1. ASSUME FlushEnds \/ PutPermanent \/ Backoff \/ BackoffFails \/ Expire \/ GiveUp
      PROVE  TypeOK'
  BY <1>1 DEF FlushEnds, PutPermanent, Backoff, BackoffFails, Expire, GiveUp, States
<1>2. CASE FlushChunk
  <2>1. CASE expired
    BY <1>2, <2>1 DEF FlushChunk, States
  <2>2. CASE ~expired
    <3>1. /\ end' \in (start + 1)..(N + 1) /\ end' - start <= MaxRecords
          /\ attempt' = start..(end' - 1) /\ try' = 0
          /\ state' = "put"
          /\ UNCHANGED <<size, key, start, expired, sends, stream, unanswered>>
      BY <1>2, <2>2, ChunkEndFacts DEF FlushChunk, Chunk
    <3>2. start \in Nat /\ end' \in Nat
      BY <1>0, <3>1
    <3>3. Cardinality(attempt') <= MaxRecords
      <4>1. Cardinality(start..(end' - 1)) = end' - start
        BY <3>1, <3>2, FS_Interval
      <4>2. QED
        BY <3>1, <4>1
    <3>4. QED
      BY <1>0, <3>1, <3>2, <3>3 DEF States
  <2>3. QED
    BY <2>1, <2>2
<1>3. CASE Put
  <2>1. PICK ok \in SUBSET attempt :
          /\ stream' = Appended(ok)
          /\ \/ start' = end /\ attempt' = {} /\ state' = "flush" /\ try' = try
             \/ state' = "retryable" /\ UNCHANGED <<start, attempt, try>>
             \/ /\ attempt' = attempt \ ok /\ try' = try + 1
                /\ state' = "backoff" /\ start' = start
                /\ ~(try + 1 >= MaxPutAttempts)
    BY <1>3 DEF Put, StillFailing, NextTry
  <2>2. attempt \subseteq Records /\ IsFiniteSet(attempt)
    <3>1. attempt \subseteq start..(end - 1) /\ start..(end - 1) \subseteq Records
      BY <1>0 DEF Records
    <3>2. IsFiniteSet(start..(end - 1))
      BY <1>0, FS_Interval
    <3>3. QED
      BY <3>1, <3>2, FS_Subset
  <2>3. stream' \in Seq(SUBSET Records)
    BY <2>1, <2>2, AppendedFacts
  <2>4. Cardinality(attempt \ ok) <= Cardinality(attempt)
        /\ Cardinality(attempt \ ok) \in Nat /\ Cardinality(attempt) \in Nat
    BY <2>2, FS_Subset, FS_CardinalityType
  <2>5. UNCHANGED <<size, key, end, expired, sends, unanswered>>
    BY <1>3 DEF Put
  <2>6. Cardinality(attempt') <= MaxRecords
    <3>1. Cardinality(attempt') \in {Cardinality(attempt), Cardinality(attempt \ ok),
                                     Cardinality({})}
      BY <2>1
    <3>2. QED
      BY <1>0, <2>4, <3>1
  <2>7. attempt' \subseteq start'..(end' - 1) /\ start' \in 1..(N + 1)
        /\ end' \in start'..(N + 1)
    <3>1. /\ attempt \ ok \subseteq start..(end - 1) /\ {} \subseteq end..(end - 1)
          /\ end \in 1..(N + 1) /\ end \in end..(N + 1)
      BY <1>0
    <3>2. \/ start' = end /\ attempt' = {}
          \/ start' = start /\ attempt' \in {attempt, attempt \ ok}
      BY <2>1
    <3>3. QED
      BY <2>5, <3>1, <3>2
  <2>8. try' \in 0..(MaxPutAttempts - 1) /\ state' \in States
    BY <1>0, <2>1 DEF States
  <2>9. QED
    BY <2>3, <2>5, <2>6, <2>7, <2>8
<1>4. CASE PutFails
  <2>1. PICK ok \in SUBSET attempt : stream' = Appended(ok)
    BY <1>4 DEF PutFails
  <2>2. attempt \subseteq Records
    BY <1>0 DEF Records
  <2>3. stream' \in Seq(SUBSET Records)
    BY <2>1, <2>2, AppendedFacts
  <2>4. QED
    BY <1>4, <2>3 DEF PutFails, States
<1>5. CASE Resend
  <2>1. Cardinality(attempt') = 0
    BY <1>0, <1>5 DEF Resend
  <2>2. Cardinality(attempt') <= MaxRecords
    BY <1>0, <2>1
  <2>3. /\ start' \in 1..(N + 1) /\ end' \in start'..(N + 1)
        /\ attempt' \subseteq start'..(end' - 1)
        /\ try' \in 0..(MaxPutAttempts - 1) /\ sends' \in 1..MaxSends
    BY <1>0, <1>5 DEF Resend
  <2>4. QED
    BY <1>5, <2>2, <2>3 DEF Resend, States
<1>6. CASE UNCHANGED vars
  BY <1>6 DEF vars
<1>7. CASE Repeat
  <2>1. PICK ok \in SUBSET attempt : stream' = Appended(ok)
    BY <1>7 DEF Repeat
  <2>2. attempt \subseteq Records
    BY <1>0 DEF Records
  <2>3. stream' \in Seq(SUBSET Records)
    BY <2>1, <2>2, AppendedFacts
  <2>4. unanswered' \in [Records -> 0..MaxRepeats]
    <3>1. \A r \in Records : unanswered[r] \in 0..MaxRepeats
      OBVIOUS
    <3>2. \A r \in attempt : unanswered[r] < MaxRepeats
      BY <1>7 DEF Repeat
    <3>3. \A r \in Records : IF r \in attempt THEN unanswered[r] + 1 \in 0..MaxRepeats
                                             ELSE unanswered[r] \in 0..MaxRepeats
      BY <1>0, <2>2, <3>1, <3>2
    <3>4. unanswered' = [r \in Records |-> IF r \in attempt THEN unanswered[r] + 1
                                                           ELSE unanswered[r]]
      BY <1>7 DEF Repeat
    <3>5. QED
      BY <3>3, <3>4
  <2>5. QED
    BY <1>7, <2>3, <2>4 DEF Repeat
<1>8. QED
  BY <1>1, <1>2, <1>3, <1>4, <1>5, <1>6, <1>7 DEF Next, Exporter

LEMMA ChunkedStep ==
  ASSUME IInv, [Next]_vars
  PROVE  Chunked'
<1> USE DEF IInv
<1>1. CASE UNCHANGED <<size, start, end>> /\ attempt' \subseteq attempt
  <2>1. Bytes(Chunk(end))' = Bytes(Chunk(end))
    BY <1>1 DEF Bytes, Chunk
  <2>2. QED
    BY <1>1, <2>1 DEF Chunked
<1>2. CASE attempt' = {}
  BY <1>2 DEF Chunked
<1>3. CASE FlushChunk /\ ~expired
  <2>1. /\ end' = ChunkEnd /\ start' = start /\ size' = size
        /\ ChunkEnd = start + 1 \/ Bytes(Chunk(ChunkEnd)) <= MaxBytes
    BY <1>3, ChunkEndFacts DEF FlushChunk
  <2> DEFINE last == ChunkEnd
  <2> HIDE DEF last
  <2>2. end' = last /\ (last = start + 1 \/ Bytes(Chunk(last)) <= MaxBytes)
    BY <2>1 DEF last
  <2>3. Bytes(Chunk(end))' = Bytes(Chunk(last))
    BY <2>1, <2>2 DEF Bytes, Chunk
  <2>4. QED
    BY <2>1, <2>2, <2>3 DEF Chunked
<1>4. ASSUME Put
      PROVE  \/ attempt' = {}
             \/ UNCHANGED <<size, start, end>> /\ attempt' \subseteq attempt
  BY <1>4 DEF Put, StillFailing
<1>5. QED
  BY <1>1, <1>2, <1>3, <1>4
  DEF Next, Exporter, FlushEnds, FlushChunk, Repeat, PutFails, PutPermanent, Backoff,
      BackoffFails, Expire, Resend, GiveUp, vars

LEMMA CoveredStep ==
  ASSUME IInv, [Next]_vars
  PROVE  Covered'
<1> USE DEF IInv
<1>0. N \in Nat /\ start \in Nat /\ end \in Nat
  BY NAssumption DEF TypeOK
<1>1. CASE state' \in {"retryable", "dropped"}
  BY <1>1 DEF Covered
<1>2. CASE /\ UNCHANGED <<start, end, attempt, stream>>
           /\ \/ state' = state
              \/ state \in {"put", "backoff"} /\ state' \in {"put", "backoff"}
  <2>1. \A r : Stored(r)' = Stored(r)
    BY <1>2, SameStream
  <2>2. QED
    BY <1>2, <2>1 DEF Covered, Chunk
<1>3. CASE FlushEnds
  <2>1. \A r : Stored(r)' = Stored(r)
    BY <1>3, SameStream DEF FlushEnds
  <2>2. start = N + 1
    BY <1>0, <1>3 DEF FlushEnds, TypeOK
  <2>3. QED
    BY <1>3, <2>1, <2>2 DEF FlushEnds, Covered
<1>4. CASE FlushChunk /\ ~expired
  <2>1. /\ end' \in (start + 1)..(N + 1) /\ attempt' = start..(end' - 1)
        /\ start' = start /\ stream' = stream /\ state = "flush" /\ state' = "put"
    BY <1>4, ChunkEndFacts DEF FlushChunk, Chunk
  <2>2. \A r : Stored(r)' = Stored(r)
    BY <2>1, SameStream
  <2>3. start \in attempt'
    <3>0. end' \in (start + 1)..(N + 1)
      BY <2>1
    <3>1. \A e \in (start + 1)..(N + 1) : start \in start..(e - 1)
      BY <1>0
    <3>2. start \in start..(end' - 1)
      BY <3>0, <3>1
    <3>3. QED
      BY <2>1, <3>2
  <2>4. QED
    BY <2>1, <2>2, <2>3 DEF Covered, Chunk
<1>5. CASE Put
  <2>1. PICK ok \in SUBSET attempt :
          /\ stream' = Appended(ok)
          /\ \/ /\ start' = end /\ attempt' = {} /\ state' = "flush"
                /\ attempt \ ok = {}
             \/ state' = "retryable"
             \/ /\ attempt' = attempt \ ok /\ attempt \ ok # {}
                /\ state' = "backoff" /\ start' = start
    BY <1>5 DEF Put, StillFailing
  <2>2. end' = end /\ state = "put"
    BY <1>5 DEF Put
  <2>3. attempt \subseteq Records /\ Chunk(end) \subseteq Records
    BY <1>0 DEF TypeOK, Records, Chunk
  <2>4. \A r \in Records : Stored(r)' <=> Stored(r) \/ r \in ok
    BY <2>1, <2>3, AppendedFacts
  <2>5. /\ \A r \in Records : r < start => Stored(r)
        /\ \A r \in Chunk(end) : r \in attempt \/ Stored(r)
    BY <2>2 DEF Covered
  <2>6. CASE state' = "flush"
    <3>1. \A r \in Records : r < end => r < start \/ r \in Chunk(end)
      BY <1>0 DEF Records, Chunk
    <3>2. \A r \in Records : r < start' => Stored(r)'
      BY <2>1, <2>4, <2>5, <2>6, <3>1
    <3>3. QED
      BY <2>6, <3>2 DEF Covered
  <2>7. CASE state' = "backoff"
    <3>1. /\ attempt' = attempt \ ok /\ attempt \ ok # {} /\ start' = start
      BY <2>1, <2>7
    <3>2. Chunk(end)' = Chunk(end)
      BY <2>2, <3>1 DEF Chunk
    <3>3. \A r \in Chunk(end) : r \in attempt' \/ Stored(r)'
      BY <2>3, <2>4, <2>5, <3>1
    <3>4. \A r \in Records : r < start' => Stored(r)'
      BY <2>4, <2>5, <3>1
    <3>5. QED
      BY <2>7, <3>1, <3>2, <3>3, <3>4 DEF Covered
  <2>8. QED
    BY <1>1, <2>1, <2>6, <2>7
<1>6. CASE Resend
  BY <1>6 DEF Resend, Covered, Records
<1>7. CASE Repeat
  <2>1. PICK ok \in SUBSET attempt : stream' = Appended(ok)
    BY <1>7 DEF Repeat
  <2>2. attempt \subseteq Records /\ Chunk(end) \subseteq Records
    BY <1>0 DEF TypeOK, Records, Chunk
  <2>3. \A r \in Records : Stored(r) => Stored(r)'
    BY <2>1, <2>2, AppendedFacts
  <2>4. /\ UNCHANGED <<start, end, attempt, state>> /\ state = "put"
        /\ Chunk(end)' = Chunk(end)
    BY <1>7 DEF Repeat, Chunk
  <2>5. QED
    BY <2>2, <2>3, <2>4 DEF Covered
<1>8. QED
  BY <1>1, <1>2, <1>3, <1>4, <1>5, <1>6, <1>7
  DEF Next, Exporter, FlushChunk, PutFails, PutPermanent, Backoff, BackoffFails,
      Expire, GiveUp, vars

LEMMA OnceStep ==
  ASSUME IInv, [Next]_vars
  PROVE  Once'
<1> USE DEF IInv
<1>0. N \in Nat /\ start \in Nat /\ end \in Nat /\ sends \in Nat /\ start <= end
  BY NAssumption DEF TypeOK
<1>1. \A r \in Records : Copies(r) \in Nat
  <2>1. stream \in Seq(SUBSET Records)
    BY DEF TypeOK
  <2>2. \A r \in Records : Copies(r) = Cardinality(Takes(stream, r))
    BY DEF Copies, Takes
  <2>3. QED
    BY <2>1, <2>2, TakesFinite
<1>a. \A r \in Records : unanswered[r] \in Nat
  BY LimitsAssumption DEF TypeOK
<1>2. CASE /\ stream' = stream /\ sends' = sends /\ unanswered' = unanswered
           /\ \A r \in Records : Pending(r)' => Pending(r)
  <2>1. \A r : Copies(r)' = Copies(r)
    BY <1>2, SameStream
  <2>2. QED
    BY <1>2, <2>1 DEF Once
<1>3. ASSUME FlushEnds \/ PutPermanent \/ Backoff \/ BackoffFails \/ Expire
             \/ GiveUp \/ UNCHANGED vars
      PROVE  /\ stream' = stream /\ sends' = sends /\ unanswered' = unanswered
             /\ \A r \in Records : Pending(r)' => Pending(r)
  BY <1>3
  DEF FlushEnds, PutPermanent, Backoff, BackoffFails, Expire, GiveUp, Pending, vars
<1>4. ASSUME FlushChunk
      PROVE  /\ stream' = stream /\ sends' = sends /\ unanswered' = unanswered
             /\ \A r \in Records : Pending(r)' => Pending(r)
  <2>1. CASE expired
    BY <1>4, <2>1 DEF FlushChunk, Pending
  <2>2. CASE ~expired
    <3>1. /\ end' \in (start + 1)..(N + 1) /\ attempt' = start..(end' - 1)
          /\ stream' = stream /\ sends' = sends /\ unanswered' = unanswered
          /\ state = "flush" /\ state' = "put"
      BY <1>4, <2>2, ChunkEndFacts DEF FlushChunk, Chunk
    <3>2. \A r \in Records : r \in attempt' \/ r >= end' => r >= start
      <4>1. end' \in (start + 1)..(N + 1)
        BY <3>1
      <4>2. end' \in Nat /\ end' > start
        BY <1>0, <4>1
      <4>3. \A r \in start..(end' - 1) : r >= start
        BY <1>0, <4>2
      <4>4. \A r \in Records : r \in Nat
        BY <1>0 DEF Records
      <4>5. \A r \in Records : r >= end' => r >= start
        BY <1>0, <4>2, <4>4
      <4>6. QED
        BY <3>1, <4>3, <4>5
    <3>3. QED
      BY <3>1, <3>2 DEF Pending
  <2>3. QED
    BY <2>1, <2>2
<1>5. ASSUME Put \/ PutFails
      PROVE  Once'
  <2>1. PICK ok \in SUBSET attempt :
          /\ stream' = Appended(ok)
          /\ \/ start' = end /\ attempt' = {} /\ state' = "flush" /\ attempt \ ok = {}
             \/ state' = "retryable"
             \/ attempt' = attempt \ ok /\ state' = "backoff"
    BY <1>5 DEF Put, PutFails, StillFailing
  <2>2. end' = end /\ state = "put" /\ sends' = sends /\ unanswered' = unanswered
    BY <1>5 DEF Put, PutFails
  <2>3. attempt \subseteq Records
    BY <1>0 DEF TypeOK, Records
  <2>4. \A r \in Records : Copies(r)' = Copies(r) + (IF r \in ok THEN 1 ELSE 0)
    BY <2>1, <2>3, AppendedFacts
  <2>5. ASSUME NEW r \in Records
        PROVE  /\ Copies(r)' <= sends + unanswered[r]
               /\ Pending(r)' => Copies(r)' < sends + unanswered[r]
    <3>1. CASE r \in ok
      <4>1. Copies(r) < sends + unanswered[r]
        BY <2>2, <3>1 DEF Once, Pending
      <4>2. r < end
        BY <1>0, <3>1 DEF TypeOK
      <4>3. ~Pending(r)'
        BY <1>0, <2>1, <2>2, <3>1, <4>2 DEF Pending, Records
      <4>4. Copies(r)' = Copies(r) + 1
        BY <2>4, <3>1
      <4>5. QED
        BY <1>0, <1>1, <1>a, <4>1, <4>3, <4>4
    <3>2. CASE r \notin ok
      <4>1. Copies(r)' = Copies(r)
        BY <1>1, <2>4, <3>2
      <4>2. Pending(r)' => Pending(r)
        BY <2>1, <2>2 DEF Pending
      <4>3. QED
        BY <4>1, <4>2 DEF Once
    <3>3. QED
      BY <3>1, <3>2
  <2>6. QED
    BY <2>2, <2>5 DEF Once
<1>6. CASE Resend
  <2>1. stream' = stream /\ sends' = sends + 1 /\ unanswered' = unanswered
    BY <1>6 DEF Resend
  <2>2. \A r : Copies(r)' = Copies(r)
    BY <2>1, SameStream
  <2>3. \A r \in Records : Copies(r) <= sends + unanswered[r]
    BY DEF Once
  <2>4. \A r \in Records : Copies(r)' < sends' + unanswered'[r]
    BY <1>0, <1>1, <1>a, <2>1, <2>2, <2>3
  <2>5. \A r \in Records : Copies(r)' <= sends' + unanswered'[r]
    BY <1>0, <1>1, <1>a, <2>1, <2>2, <2>3
  <2>6. QED
    BY <2>4, <2>5 DEF Once
<1>7. CASE Repeat
  <2>1. PICK ok \in SUBSET attempt : stream' = Appended(ok)
    BY <1>7 DEF Repeat
  <2>2. attempt \subseteq Records
    BY <1>0 DEF TypeOK, Records
  <2>3. \A r \in Records : Copies(r)' = Copies(r) + (IF r \in ok THEN 1 ELSE 0)
    BY <2>1, <2>2, AppendedFacts
  <2>4. /\ sends' = sends
        /\ \A r \in Records : Pending(r)' <=> Pending(r)
        /\ \A r \in Records :
             unanswered'[r] = unanswered[r] + (IF r \in attempt THEN 1 ELSE 0)
    BY <1>7, <1>a DEF Repeat, Pending
  <2>5. ASSUME NEW r \in Records
        PROVE  /\ Copies(r)' <= sends + unanswered'[r]
               /\ Pending(r)' => Copies(r)' < sends + unanswered'[r]
    <3>1. /\ Copies(r) <= sends + unanswered[r]
          /\ Pending(r) => Copies(r) < sends + unanswered[r]
      BY DEF Once
    <3>2. Copies(r)' - Copies(r) <= unanswered'[r] - unanswered[r]
          /\ Copies(r)' \in Nat /\ unanswered'[r] \in Nat
      BY <1>1, <1>a, <2>1, <2>3, <2>4
    <3>3. QED
      BY <1>0, <1>1, <1>a, <2>4, <3>1, <3>2
  <2>6. QED
    BY <2>4, <2>5 DEF Once
<1>8. QED
  BY <1>2, <1>3, <1>4, <1>5, <1>6, <1>7 DEF Next, Exporter

-----------------------------------------------------------------------------
LEMMA InvariantStep == IInv /\ [Next]_vars => IInv'
BY TypeStep, ChunkedStep, CoveredStep, OnceStep DEF IInv

\* The inductive invariant of an export request holds forever.
THEOREM Invariance == Spec => []IInv
BY InvariantInit, InvariantStep, PTL DEF Spec

\* Type correctness: in particular a call has at most put_records.max_records
\* records, all of them of the current chunk (TypeOK).
THEOREM TypeCorrect == Spec => []TypeOK
<1>1. IInv => TypeOK
  BY DEF IInv
<1>2. QED
  BY <1>1, Invariance, PTL

\* An export that flush acknowledges is on the stream, every record of it,
\* whatever partial failures, lost answers, deadlines and resends came before
\* (AcknowledgedIsStored).
THEOREM Acknowledged == Spec => []AcknowledgedIsStored
<1>1. IInv => AcknowledgedIsStored
  <2>1. ASSUME IInv, state = "done", NEW r \in Records
        PROVE  Stored(r)
    <3>1. r < start
      BY <2>1, NAssumption DEF IInv, Covered, Records
    <3>2. QED
      BY <2>1, <3>1 DEF IInv, Covered
  <2>2. QED
    BY <2>1 DEF AcknowledgedIsStored, Stored
<1>2. QED
  BY <1>1, Invariance, PTL

\* putRecords retries what an answer reported as failed and nothing else: only a
\* resend of the whole request, or a transmission that the client repeated for want
\* of an answer, leaves another copy of a record (CopiesBounded).
THEOREM OneCopyPerAnswer == Spec => []CopiesBounded
<1>1. IInv => CopiesBounded
  BY DEF IInv, Once, CopiesBounded
<1>2. QED
  BY <1>1, Invariance, PTL

\* Every call is within put_records.max_bytes or has a single record, the
\* retries of a part of a chunk included (CallFits).
THEOREM CallsFit == Spec => []CallFits
<1>1. IInv => CallFits
  <2>1. SUFFICES ASSUME IInv, state = "put"
                 PROVE  Cardinality(attempt) = 1 \/ Bytes(attempt) <= MaxBytes
    BY DEF CallFits
  <2>2. /\ attempt # {} /\ attempt \subseteq Chunk(end)
        /\ end = start + 1 \/ Bytes(Chunk(end)) <= MaxBytes
    BY <2>1 DEF IInv, Covered, Chunked, TypeOK, Chunk
  <2>3. N \in Nat /\ start \in Nat /\ end \in Nat /\ MaxBytes \in Nat
    BY <2>1, NAssumption, LimitsAssumption DEF IInv, TypeOK
  <2>4. CASE end = start + 1
    <3>0. Chunk(end) = {start}
      BY <2>3, <2>4 DEF Chunk
    <3>1. attempt = {start}
      BY <2>2, <3>0
    <3>2. Cardinality({start}) = 1
      BY FS_Singleton
    <3>3. QED
      BY <3>1, <3>2
  <2>5. CASE Bytes(Chunk(end)) <= MaxBytes
    <3>1. Chunk(end) \in SUBSET Records
      BY <2>1, <2>3 DEF IInv, TypeOK, Chunk, Records
    <3>2. /\ Bytes(attempt) \in Nat /\ Bytes(Chunk(end)) \in Nat
          /\ Bytes(attempt) <= Bytes(Chunk(end))
      BY <2>1, <2>2, <3>1, BytesMonotone DEF IInv
    <3>3. QED
      BY <2>3, <2>5, <3>2
  <2>6. QED
    BY <2>2, <2>4, <2>5
<1>2. QED
  BY <1>1, Invariance, PTL
=============================================================================
