---------------------------- MODULE EventProcessor ----------------------------
(***************************************************************************)
(* Audit events from the ingest service through one Kafka partition into   *)
(* ClickHouse: services/ingest/main.go (handleEvents) and the consumer     *)
(* loop of services/processor/main.go with pkg/clickhouse/events.go.       *)
(*                                                                         *)
(* A message is its offset.  The broker and ClickHouse are external: what  *)
(* was acknowledged stays, a call may fail before or after it took effect. *)
(* A crash stands for every end of the process and for losing the          *)
(* partition: what was fetched is gone and reading goes on at the          *)
(* committed offset.  The final flush of an orderly shutdown is a flush    *)
(* before it.                                                              *)
(***************************************************************************)
EXTENDS Integers, FiniteSets, Sequences, SequencesExt

CONSTANTS
    Messages,      \* bound: events ever published
    Undecodable,   \* offsets that are no envelope (ingest publishes none)
    BatchSize,     \* BATCH_SIZE
    ChanSize,      \* capacity of msgChan
    MaxCrashes     \* bound: ends of the process

ASSUME ProcessorAssumption ==
    /\ Messages \in Nat
    /\ Undecodable \subseteq 1 .. Messages
    /\ BatchSize \in Nat \ {0} /\ ChanSize \in Nat \ {0}
    /\ MaxCrashes \in Nat

VARIABLES
    published,   \* messages in the partition
    committed,   \* the consumer group's offset: the next message to read
    position,    \* the reader's: the next message FetchMessage returns
    msgChan,
    batch,       \* batchMessages
    pc,          \* "select", or "insert" and "commit" within flush
    stored,      \* messages whose event is in the events table
    crashes

processorVars == <<published, committed, position, msgChan, batch, pc, stored, crashes>>

-----------------------------------------------------------------------------
ProcessorInit ==
    /\ published = 0
    /\ committed = 1 /\ position = 1
    /\ msgChan = << >> /\ batch = << >>
    /\ pc = "select"
    /\ stored = {}
    /\ crashes = 0

\* handleEvents: 202 once all in-sync replicas have the event.
Publish ==
    /\ published < Messages
    /\ published' = published + 1
    /\ UNCHANGED <<committed, position, msgChan, batch, pc, stored, crashes>>

\* The fetching goroutine.
Fetch ==
    /\ position <= published
    /\ Len(msgChan) < ChanSize
    /\ msgChan' = Append(msgChan, position)
    /\ position' = position + 1
    /\ UNCHANGED <<published, committed, batch, pc, stored, crashes>>

-----------------------------------------------------------------------------
\* The main loop.

\* messageInputForBatch: a full batch takes nothing.
Input == pc = "select" /\ Len(batch) < BatchSize /\ msgChan # << >>

Take ==
    /\ Input
    /\ Head(msgChan) \notin Undecodable
    /\ msgChan' = Tail(msgChan)
    /\ batch' = Append(batch, Head(msgChan))
    /\ pc' = IF Len(batch') >= BatchSize THEN "insert" ELSE "select"
    /\ UNCHANGED <<published, committed, position, stored, crashes>>

\* A message that is no envelope is committed at once, or the commit fails.
Skip ==
    /\ Input
    /\ Head(msgChan) \in Undecodable
    /\ msgChan' = Tail(msgChan)
    /\ committed' \in {committed, Head(msgChan) + 1}
    /\ UNCHANGED <<published, position, batch, pc, stored, crashes>>

\* Mutant: only a full batch is flushed.
FlushTickFull ==
    /\ pc = "select" /\ Len(batch) = BatchSize
    /\ pc' = "insert"
    /\ UNCHANGED <<published, committed, position, msgChan, batch, stored,
                   crashes>>

FlushTick ==
    /\ pc = "select" /\ batch # << >>
    /\ pc' = "insert"
    /\ UNCHANGED <<published, committed, position, msgChan, batch, stored,
                   crashes>>

\* InsertEvents succeeds.
Insert ==
    /\ pc = "insert"
    /\ stored' = stored \cup ToSet(batch)
    /\ pc' = "commit"
    /\ UNCHANGED <<published, committed, position, msgChan, batch, crashes>>

\* Mutant: the batch is given up.
InsertFailsDrops ==
    /\ pc = "insert"
    /\ stored' = stored
    /\ batch' = << >>
    /\ pc' = "select"
    /\ UNCHANGED <<published, committed, position, msgChan, crashes>>

\* InsertEvents returns an error, with or without having stored the batch, and
\* the batch is kept for the next flush.
InsertFails ==
    /\ pc = "insert"
    /\ stored' \in {stored, stored \cup ToSet(batch)}
    /\ pc' = "select"
    /\ UNCHANGED <<published, committed, position, msgChan, batch, crashes>>

\* CommitMessages of the batch, whose failure is logged and forgotten.
Commit ==
    /\ pc = "commit"
    /\ committed' \in {committed, Last(batch) + 1}
    /\ batch' = << >>
    /\ pc' = "select"
    /\ UNCHANGED <<published, position, msgChan, stored, crashes>>

Crash ==
    /\ crashes < MaxCrashes
    /\ crashes' = crashes + 1
    /\ position' = committed
    /\ msgChan' = << >> /\ batch' = << >>
    /\ pc' = "select"
    /\ UNCHANGED <<published, committed, stored>>

ProcessorNext ==
    \/ Publish \/ Fetch \/ Take \/ Skip \/ FlushTick
    \/ Insert \/ InsertFails \/ Commit \/ Crash

ProcessorSpec == ProcessorInit /\ [][ProcessorNext]_processorVars

\* The goroutines and the ticker run; an insert that is tried again and again
\* succeeds in the end.
ProcessorFairSpec ==
    /\ ProcessorSpec
    /\ WF_processorVars(Fetch) /\ WF_processorVars(Take \/ Skip) /\ SF_processorVars(FlushTick)
    /\ WF_processorVars(Insert \/ InsertFails) /\ SF_processorVars(Insert) /\ WF_processorVars(Commit)

-----------------------------------------------------------------------------
\* Properties.

ProcessorTypeOK ==
    /\ published \in 0 .. Messages
    /\ committed \in 1 .. published + 1
    /\ position \in 1 .. published + 1
    /\ msgChan \in Seq(1 .. published) /\ Len(msgChan) <= ChanSize
    /\ batch \in Seq(1 .. published) /\ Len(batch) <= BatchSize
    /\ pc \in {"select", "insert", "commit"}
    /\ stored \subseteq 1 .. published
    /\ crashes \in 0 .. MaxCrashes

\* The events the reader is past that are neither in the table nor in hand.
Lost == ((1 .. position - 1) \ Undecodable)
            \ (stored \cup ToSet(batch) \cup ToSet(msgChan))

\* The commit of an undecodable message also commits the events batched before
\* it: the last BatchSize - 1 events in front of one are exposed to a crash.
Exposed ==
    {m \in (1 .. Messages) \ Undecodable :
        \E u \in Undecodable :
            m < u /\ Cardinality((m .. u) \ Undecodable) < BatchSize}

\* No other accepted event is lost: whatever the reader is past is in the table
\* or still in hand, so a crash at any point goes back far enough.  Without
\* undecodable messages, none is.
LostOnlyExposed == Lost \subseteq Exposed

\* The reader's position, the committed offset and the batch stay in step, and what is accepted is kept
\* through crashes, failing inserts and failing commits.
NoLoss == ProcessorTypeOK /\ LostOnlyExposed

\* Every accepted event that is not exposed reaches the table, through failing
\* inserts, failing commits and crashes.
EventuallyStored ==
    \A m \in (1 .. Messages) \ (Undecodable \cup Exposed) :
        m <= published ~> m \in stored
=============================================================================
