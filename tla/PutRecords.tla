----------------------------- MODULE PutRecords -----------------------------
(***************************************************************************)
(* The sending half of the exporter (record.go: flush, putRecords,         *)
(* sleepBackoff; exporter.go: classifyPutRecordsError) with the            *)
(* exporterhelper retry sender around it and the AWS client below it: one  *)
(* export request, already packed into records 1..N, is cut into           *)
(* PutRecords calls.  Records are sent again in three places: the client   *)
(* repeats a transmission it has no good answer to, within the call; the   *)
(* records an answer reports as failed are sent again in place; and a      *)
(* request that ends in a retryable error is sent again as a whole.        *)
(***************************************************************************)
EXTENDS Integers, Sequences, FiniteSets, SequencesExt, FiniteSetsExt

CONSTANTS N,                \* records of the request
          Sizes,            \* bytes a record and its key may have
          Keys,             \* partition keys (tag_hash)
          MaxRecords,       \* put_records.max_records
          MaxBytes,         \* put_records.max_bytes
          MaxPutAttempts,   \* maxPutAttempts
          MaxSends,         \* bound: how often the retry sender tries
          MaxRepeats        \* bound: how often the AWS client repeats a record

ASSUME NAssumption == N \in Nat \ {0}
ASSUME SizesAssumption == Sizes \subseteq Nat \ {0}
ASSUME LimitsAssumption ==
  /\ MaxRecords \in Nat \ {0} /\ MaxBytes \in Nat \ {0}
  /\ MaxPutAttempts \in Nat \ {0} /\ MaxSends \in Nat \ {0} /\ MaxRepeats \in Nat

VARIABLES size, key,    \* of each record of the request
          start,        \* flush: the first record of the current chunk
          end,          \* flush: the first record after it
          attempt,      \* putRecords: the records of the next call, in order
          try,          \* putRecords: calls made for this chunk
          expired,      \* the attempt's deadline has passed
          sends,        \* how often the request was sent
          state,        \* where the export stands
          stream,       \* the records Kinesis took of each transmission that it
                        \* took any of
          unanswered    \* ghost: of each record, the transmissions with it that
                        \* the client repeated

vars == <<size, key, start, end, attempt, try, expired, sends, state, stream,
          unanswered>>

Records == 1..N

States == {"flush",       \* at the head of flush's loop
           "put",         \* about to call PutRecords
           "backoff",     \* in sleepBackoff
           "retryable",   \* emit returned an error worth a retry
           "done",        \* emit returned nil
           "dropped"}     \* permanent error, or the retry sender gave up

TypeOK ==
  /\ size \in [Records -> Sizes] /\ key \in [Records -> Keys]
  /\ start \in 1..(N + 1) /\ end \in start..(N + 1)
  /\ attempt \subseteq start..(end - 1) /\ Cardinality(attempt) <= MaxRecords
  /\ try \in 0..(MaxPutAttempts - 1)
  /\ expired \in BOOLEAN
  /\ sends \in 1..MaxSends
  /\ state \in States
  /\ stream \in Seq(SUBSET Records)
  /\ unanswered \in [Records -> 0..MaxRepeats]

Init ==
  /\ size \in [Records -> Sizes] /\ key \in [Records -> Keys]
  /\ start = 1 /\ end = 1 /\ attempt = {} /\ try = 0
  /\ expired = FALSE /\ sends = 1
  /\ state = "flush"
  /\ stream = <<>> /\ unanswered = [r \in Records |-> 0]

-----------------------------------------------------------------------------
\* bytes: the sizes of the records of c, added up in request order.
Bytes(c) ==
  LET bytes[n \in 0..N] ==
        IF n = 0 THEN 0 ELSE bytes[n - 1] + (IF n \in c THEN size[n] ELSE 0)
  IN  bytes[N]

Chunk(e) == start..(e - 1)

\* Mutant: one record too many.
ChunkEndOneMore ==
  Max({e \in (start + 1)..(N + 1) :
         e = start + 1 \/ (e - start <= MaxRecords + 1 /\
                           Bytes(Chunk(e)) <= MaxBytes)})

\* Mutant: the limit is checked before the record is added.
ChunkEndLate ==
  Max({e \in (start + 1)..(N + 1) :
         e = start + 1 \/ (e - start <= MaxRecords /\
                           Bytes(Chunk(e - 1)) <= MaxBytes)})

\* flush: the longest chunk within both limits, a single record at least.
ChunkEnd ==
  Max({e \in (start + 1)..(N + 1) :
         e = start + 1 \/ (e - start <= MaxRecords /\
                           Bytes(Chunk(e)) <= MaxBytes)})

\* flush has sent everything.
FlushEnds ==
  /\ state = "flush" /\ start > N
  /\ state' = "done"
  /\ UNCHANGED <<size, key, start, end, attempt, try, expired, sends, stream,
                 unanswered>>

\* flush checks the context before each chunk, then calls putRecords.
FlushChunk ==
  /\ state = "flush" /\ start <= N
  /\ IF expired
       THEN state' = "retryable" /\ UNCHANGED <<end, attempt, try>>
       ELSE /\ end' = ChunkEnd
            /\ attempt' = Chunk(end')
            /\ try' = 0
            /\ state' = "put"
  /\ UNCHANGED <<size, key, start, expired, sends, stream, unanswered>>

\* External: Kinesis appends what it takes of a transmission in request order.
Appended(ok) == IF ok = {} THEN stream ELSE Append(stream, ok)

\* Mutant: an attempt without any progress ends the retries.
StillFailingDrops(ok) == IF ok = {} THEN {} ELSE attempt \ ok

\* Mutant: a partial failure sends the whole attempt again.
StillFailingAll(ok) == IF ok = attempt THEN {} ELSE attempt

\* The records the answer has an ErrorCode for.
StillFailing(ok) == attempt \ ok

\* Mutant: the attempts are not counted.
NextTryUncounted == try

NextTry == try + 1

\* External: a transmission is lost with its answer, throttled, or answered by a
\* 5xx, and the AWS client, which keeps its default retryer, sends the whole input
\* again.  It may have taken effect, wholly or in part.
Repeat ==
  /\ state = "put" /\ ~expired
  /\ \A r \in attempt : unanswered[r] < MaxRepeats
  /\ \E ok \in SUBSET attempt : stream' = Appended(ok)
  /\ unanswered' = [r \in Records |-> IF r \in attempt THEN unanswered[r] + 1
                                                       ELSE unanswered[r]]
  /\ UNCHANGED <<size, key, start, end, attempt, try, expired, sends, state>>

\* A call that is answered, with the records in ok accepted by the transmission
\* that the answer is about.
Put ==
  /\ state = "put" /\ ~expired
  /\ \E ok \in SUBSET attempt :
       LET retry == StillFailing(ok)
       IN  /\ stream' = Appended(ok)
           /\ IF retry = {}
                THEN /\ start' = end /\ attempt' = {} /\ state' = "flush"
                     /\ UNCHANGED try
              ELSE IF NextTry >= MaxPutAttempts
                THEN /\ state' = "retryable"
                     /\ UNCHANGED <<start, attempt, try>>
              ELSE /\ attempt' = retry /\ try' = NextTry /\ state' = "backoff"
                   /\ UNCHANGED start
  /\ UNCHANGED <<size, key, end, expired, sends, unanswered>>

\* A call that fails as a whole.  Its last transmission may have taken effect,
\* wholly or in part, unless it was not made because the context had expired.
PutFails ==
  /\ state = "put"
  /\ \E ok \in SUBSET attempt :
       /\ expired => ok = {}
       /\ stream' = Appended(ok)
  /\ state' = "retryable"
  /\ UNCHANGED <<size, key, start, end, attempt, try, expired, sends,
                 unanswered>>

\* classifyPutRecordsError: no such stream, or an invalid argument.
PutPermanent ==
  /\ state = "put" /\ ~expired
  /\ state' = "dropped"
  /\ UNCHANGED <<size, key, start, end, attempt, try, expired, sends, stream,
                 unanswered>>

\* sleepBackoff returns to the next attempt.
Backoff ==
  /\ state = "backoff" /\ ~expired
  /\ state' = "put"
  /\ UNCHANGED <<size, key, start, end, attempt, try, expired, sends, stream,
                 unanswered>>

\* sleepBackoff: the deadline has passed or is nearer than the backoff.
BackoffFails ==
  /\ state = "backoff"
  /\ state' = "retryable"
  /\ UNCHANGED <<size, key, start, end, attempt, try, expired, sends, stream,
                 unanswered>>

-----------------------------------------------------------------------------
\* External: the deadline that the timeout sender sets for each attempt.
Expire ==
  /\ state \in {"flush", "put", "backoff"} /\ ~expired
  /\ expired' = TRUE
  /\ UNCHANGED <<size, key, start, end, attempt, try, sends, state, stream,
                 unanswered>>

\* External: the retry sender sends the whole request again; emit packs it
\* anew, to the same records.
Resend ==
  /\ state = "retryable" /\ sends < MaxSends
  /\ sends' = sends + 1
  /\ start' = 1 /\ end' = 1 /\ attempt' = {} /\ try' = 0
  /\ expired' = FALSE
  /\ state' = "flush"
  /\ UNCHANGED <<size, key, stream, unanswered>>

\* External: the retry sender gives up after max_elapsed_time.
GiveUp ==
  /\ state = "retryable"
  /\ state' = "dropped"
  /\ UNCHANGED <<size, key, start, end, attempt, try, expired, sends, stream,
                 unanswered>>

Exporter == FlushEnds \/ FlushChunk \/ Repeat \/ Put \/ PutFails \/ PutPermanent
              \/ Backoff \/ BackoffFails

Next == Exporter \/ Expire \/ Resend \/ GiveUp

Spec == Init /\ [][Next]_vars

\* Calls return and backoffs end, and the retry sender does one or the other;
\* deadlines need not pass.
FairSpec == Spec /\ WF_vars(Exporter) /\ WF_vars(Resend \/ GiveUp)

-----------------------------------------------------------------------------
\* An export that is acknowledged to the pipeline put every record of the
\* request on the stream, through chunking, partial failures and resends
\* (flush, putRecords).
AcknowledgedIsStored ==
  state = "done" => \A r \in Records : \E i \in DOMAIN stream : r \in stream[i]

Copies(r) == Cardinality({i \in DOMAIN stream : r \in stream[i]})

\* putRecords never sends a record again that an answer reported as accepted: a
\* record is on the stream at most once for each time the request was sent and
\* once for each transmission that the client repeated for want of an answer.
CopiesBounded == \A r \in Records : Copies(r) <= sends + unanswered[r]

\* A call stays within put_records.max_bytes unless it is a single record, also
\* when it is the retry of a part of a chunk.
CallFits ==
  state = "put" => Cardinality(attempt) = 1 \/ Bytes(attempt) <= MaxBytes

\* Every request comes to an end, with the retries bounded by maxPutAttempts
\* alone and no deadline to help.
EventuallyEnds == <>(state \in {"done", "dropped"})

\* PartitionKeyConfig: tag_hash "co-locates records that share the same
\* ordered attribute tuple onto a stable key so a downstream consumer sees them
\* in order".
First(r) == SelectInSeq(stream, LAMBDA call : r \in call)

KeyOrder ==
  state = "done" =>
    \A r, t \in Records : r < t /\ key[r] = key[t] => First(r) <= First(t)
=============================================================================
