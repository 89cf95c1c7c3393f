# Verification of mqgov-cli

`mqgov` is a command-line tool that reads and changes message brokers (RocketMQ,
Kafka, RabbitMQ, Pulsar) under a governance regime: every operation is classified,
authorized under the policy of a *context*, recorded before and after in an audit
log, and reports what it did item by item. It keeps no daemon: several short-lived
processes share the files under the user's configuration directory, and any of them
may die at any instant. This directory holds TLA+ models of that program, the
configurations TLC checks them with, and theorems the TLA+ proof system checks.
`PROJECT.json` lists the runs, the mutants every property is tried on, the source
lines behind every definition, the hazards and the theorems.

## Inventory

| Component (source) | State it keeps | Operations | What is hard about it |
|---|---|---|---|
| Mutation audit journal (`cmd/mutation_audit.go`) | audit log, outcome spool directory with numbered records, `sequence` file, `.indeterminate` quarantine, queue lock | begin, finish, note, replay, emergency spool | several processes, crash between any two file operations, appends of unknown fate, failing renames, removals and locks |
| Outcomes and their validation (`cmd/mutation_audit.go`, every `finish…`) | counters of the running command | counting, compensation corrections, validation at replay | a record that replay rejects blocks the queue for every command |
| Context store commands (`cmd/context.go`, `internal/mqgovctx`) | `contexts` and `current` in one file, store lock | set, use, delete, import, role, migrate-credentials, export, list | authorization is checked before the lock is taken; two stores (configuration, credentials) without a common transaction |
| Credential transactions (`cmd/context_import_credentials.go`) | the writes tried, with the values they replaced | put, reconcile, compensate | a write that failed may have been made; the lock is free between failure and compensation |
| Audit query, verify, prune (`cmd/audit.go`, `cmd/audit_rotation.go`) | rotated log files | query, verify, prune | other commands rotate the log while a prune runs, the prune's own intent among them; deletion stops in the middle; the policy changes before the lock is taken |
| Read audit and diagnostics (`cmd/read_audit.go`, `cmd/read_diagnostics.go`) | buffered output of a read | begin, finish, suppress | data must not be shown when it cannot be recorded |
| Fleet commands (`cmd/fleet.go`) | one result per context | diff, inventory, doctor over contexts | one context failing among many |
| Message commands (`cmd/message.go`) | cursor over the source | peek, produce, mirror | at-least-once delivery, stop at the first error, two contexts in one command |
| DLQ, group, topic, ACL commands (`cmd/dlq.go`, `group.go`, `topic.go`, `acl.go`) | preflight snapshot of the target | redrive, purge, reset, delete, create, update | the target changes between preview, authorization and mutation |
| Risk classification and authorization (`internal/mqclass`, `cmd/root.go`, `cmd/target.go`) | none (pure) | classify, authorize, plan | combinations of targets, roles, protection and approvals |
| Broker interfaces (`internal/mqgov`) | none | `BatchOutcome`, fingerprints | — |
| RabbitMQ backend (`internal/backend/rabbitmq`) | connection, unacknowledged deliveries | redrive, purge, grant, revoke, topics, groups | lost confirms; one permission of several scopes read and written back whole |
| Kafka backend (`internal/backend/kafka`) | offsets of a group, records of partitions | reset-offset, purge, peek, tail, mirror source, ACLs, topics | a request over several partitions is answered in part or not at all while producers, retention and members go on; a bounded read of a log that moves |
| Pulsar backend (`internal/backend/pulsar`) | backlog of each subscription | reset-offset, purge, readers, grant, revoke, schemas | statistics that are cut off or empty; consumers that come after the check |
| RocketMQ backend (`internal/backend/rocketmq`) | topic routes on several name servers | create, groups, produce | an upsert that must not overwrite; routes that appear one by one, later or never |
| Fake backend (`internal/backend/fake`) | in-memory topics | test double | — |
| TLS pinning (`internal/tlspin`) | pin of a certificate | verify | mismatch against every connection |
| Schema registry, doctor, capabilities (`cmd/schema.go`, `doctor.go`, `capabilities.go`) | none | reads | — |
| Installer, skill installation (`scripts/install.js`, `cmd/install.go`) | a binary, copied files | download, verify, copy | — |
| `opskit-core/v2` (external) | log files, lock files, atomic stores | append with a commit state, lock, update | modelled by what this code relies on |

How they interact. A command loads its context, classifies the operation, is
authorized under the policy it found, and *begins* in the journal: under the queue
lock every queued outcome of every process is replayed first, then the intent is
appended. Only with a durable intent does it call the backend or change the context
store. Whatever happened is counted into one outcome, and *finish* appends that, or
spools it when it cannot. Context commands do all this while they hold the store
lock, so the order of locks is store lock, then queue lock; `audit prune` follows it.
Fleet and mirror commands call backends item by item, redrive calls one backend that
works item by item; each reports a `BatchOutcome`.

What makes each part correct: the journal must never lose an outcome, never let a
target be touched without a record, and never claim success it cannot show; outcomes
must be acceptable to replay and neither hide nor invent an effect; the context store
must change only under a policy the approvals satisfied, keep references and slots
consistent and leave no credential behind after a failure; a redrive must lose no
message; classification must be monotone and must never be lowered by a combination.

## Modules

| Module | Models | Runs |
|---|---|---|
| `AuditJournal` | `cmd/mutation_audit.go`: begin, finish, notes, replay, spool, sequence file, quarantine, queue lock, emergency spool, crashes | `journal_all`, `commands_all`, `journal_requeued` |
| `AuditContract` | what the journal promises, without files | — |
| `AuditJournalRefinement` | the mapping of one to the other | `journal_all` |
| `AuditJournalProofs` | theorems about `AuditJournal` | — |
| `ContextStore` | the context commands and their credential transactions, several processes | `contexts_mixed`, `contexts_same` |
| `ContextStoreProofs` | theorems about `ContextStore` | — |
| `OutcomeRecord` | the outcome record, its validation at replay, and how each command fills it: operators only | in the modules below |
| `OutcomeAccounting` | the counters of each kind of command, item by item | `commands_all` |
| `OutcomeAccountingProofs` | theorems about `OutcomeAccounting` | — |
| `Redrive` | the RabbitMQ redrive (`rabbitMQRedriveBatch`), the client library and the broker's queues | `redrive_all`, `redrive_spins` |
| `RedriveProofs` | theorems about `Redrive` | — |
| `RiskClassifier` | `internal/mqclass`: the class of every operation on every target; the authorization of a class | in the two below |
| `BrokerCommand` | one command at one broker, from its intent to what it prints: topic, group, message, DLQ, ACL and schema commands | `broker_all` |
| `BrokerCommandProofs` | theorems about `RiskClassifier` and `BrokerCommand` | — |
| `Mirror` | `message mirror`: two contexts, two topics, a batch in memory | `mirror_all` |
| `MirrorProofs` | theorems about `Mirror` | — |
| `KafkaChange` | Kafka `ResetOffset` and `PurgeTopic` over several partitions | `commands_all`, `reset_unlisted` |
| `BoundedRead` | Kafka `Peek`, `Tail` and the source of `MirrorMessages` | `commands_all`, `mirror_waits` |
| `PulsarChange` | Pulsar `PurgeTopic` and `ResetOffset` to latest over the subscriptions | `commands_all`, `pulsar_truncated` |
| `AclUpdate` | grant and revoke on RabbitMQ and Pulsar, several commands | `commands_all` |
| `TopicCreation` | RocketMQ `CreateTopic` against several name servers, several commands | `commands_all` |
| `AuditPrune` | `audit prune --confirm` beside commands that rotate the log and change the policy | `commands_all` |
| `BackendProofs` | sums over sets, and the lemmas about the five backend modules above | — |
| `AllCommands` | the smaller components side by side as one state machine | `commands_all` |
| `CommandsProofs` | theorems about `AllCommands`, those of `AuditPrune` among them | — |
| `MCCommands`, `MCAuditJournal`, `MCContextStore`, `MCRedrive`, `MCBrokerCommand`, `MCMirror`, `MCBoundedRead` | finite instances for TLC | |

### AuditJournal

One *operation* is one actor; the operations of several processes interleave, and
nothing in the code distinguishes them from operations of one process except a
mutex that the queue lock subsumes. `pc` is the place in the code, `task` the
function (`beginMutationAudit`, `finishMutationAudit`, the emergency spool,
`appendQueuedAuditRecord`). One action is one durable effect, so a crash falls
between any two of them. The queue lock is acquired with a bounded retry
(`QueueUnavailable` is possible whenever it is held) and survives the death of its
holder until something reclaims it (`Reclaim`, which nothing makes happen). An append
by opskit-core ends in one of four commit states, and in two of them the record may
be in the log; `AppendRecord` chooses. Records are told apart by the operation and
the phase only; file modes, symbolic links and name syntax are kinds of failure of
the step that checks them.

`litter` stands for an unexpected directory entry, which a crash or a failed
clean-up leaves. The model shows what the code does then: every later begin is
refused and every later finish is reported as not kept, until somebody removes it.

### AuditContract

The promise in four variables: what is recorded, what is owed, what was applied, what
operations were told. An intent or a note is recorded only while nothing is owed; a
target is touched only under a recorded intent and before the outcome is recorded or
owed; "ok" is said only when both records are there; "kept" only when the outcome is
owed or recorded. `AuditJournalRefinement` maps spool and quarantine to what is owed.

### ContextStore

A command loads the store without the lock and is authorized (`LoadAndAuthorize`),
takes the store lock and checks that the policy is still the one it was authorized
under (`Enter`), writes its credentials one by one, and the store is replaced as the
last thing under the lock (`Commit`). On failure the two credential transactions
(import and migration) reconcile in a lock scope of their own: the contexts turn out
to be written, unchanged or neither, and in the second case the credentials are
compensated, from the last to the first, if every one can be shown to be the
command's own. A policy is a model value with the set of policies whose approvals the
command holds (`grants`); a credential carries, beside its value, who wrote it, which
the program does not know and the properties are about. The credentials a command has
still to write are the puts of its call that are not among its `writes`; `writes` and
`undo` are kept by the place of the put in the call. The audit record of the command is
reduced to its verdict: the journal itself is `AuditJournal`'s.

### OutcomeRecord and OutcomeAccounting

`OutcomeRecord` holds the record every command ends with, `Acceptable` (the validation
of `validateMutationSpoolRecord`) and the functions that fill it. In
`OutcomeAccounting` one command of any kind runs item by item; `made` and `open` are
history variables: what has taken effect and what may have. The record at the end
(`Counted`) is compared with them and with `Acceptable`. The backend modules below use
the same functions, so their outcomes are the records the journal gets.

### Redrive

A process is one `dlq redrive`; several may work on one dead-letter queue. `pc` is the
place in `rabbitMQRedriveBatch` and `publishConfirmed`, `up` what the client library
believes of the channel, `open` what the broker does: a broken connection shows at
the two ends at different times. `wire` holds what was sent and not yet processed
(in order, and dropped as a whole when the channel ends), `reply` the answer not yet
read. `Drain` is `drainReturns`: it can only be left while the client library has not
closed the Go channel of returned messages. The counters of the outcome are sets of
messages; their arithmetic is `OutcomeAccounting`'s. An interrupt (the only thing that
cancels the context of a redrive) is the fault "timeout". The broker's part is
external: it is what AMQP promises a client that uses confirms, mandatory publishing
and manual acknowledgement, as this code does.

### RiskClassifier

The classifier is pure: an operation and a set of facts about its target (protected,
internal, wildcard, plan and the like) give a class from R0 to R3. `Classify` is
`Start` (what the operation is), `applyTargetEscalation` (what its target adds) and
`applyDestructivePins` (what cannot be lowered), in the order of
`classifier.go`. `Authorized` is the decision on a class: the approval level the
operator's ticket, role and confirmation reach together, and the allow flag where one
is asked for. The names of operations that only differ in wording share a class in the
code and so do in the model; how a name is recognised as internal or protected is left
out, a topic simply has that fact or has not.

`AsksFlag` of `BrokerCommand` has what the code does, which is less than SECURITY.md:29 says ("R3 adds the
exact operation-specific `--allow-*` flag"): a change whose own class is lower and whose
target raises it to R3, as `topic alter` of a protected or internal topic
(`cmd/topic.go:197`), is asked for confirmation and ticket but for no flag. No run is spent
on it; it shows in the definition.

### BrokerCommand

`call` is what the operator typed and holds: command, plan or not, facts that can be
declared of the target before any broker is asked, whether the context is guarded, the
level and the flag. `pc` is the place in the command; every command walks the same way
as far as it needs: intent of the read phase, authorization for what is declared,
client, resolution of the target at the broker, authorization again for what the
broker described (`seen`), read, outcome of the read phase, release of the output;
then, for a change, authorization for the change, its intent, the change, its outcome
and the report. `journal` says, for each phase, what became of its records (`doubt`: in
the log but reported as not kept; `owed`: in the spool), and `Journal` maps the two
phases and the notes of refusals to `AuditContract`, which is how a command *uses* the
journal that `AuditJournal` is a model of. Notes are written with their failures only
warned of, so `noted` may or may not become true.

### Mirror

The same for two sides: the source is read in the read phase, the target written in
the write phase, and all of both is authorized before the first client is built. A
message is its position in the batch; `staged` counts what is in memory, `arrived` is
what is in the target, `copied` what it confirmed. The byte limit of the batch is one
more reason for which `Stage` does not happen. `Leave` is the deferred wipe.

### KafkaChange and BoundedRead

In `KafkaChange` one command is a chain of requests (`step`): describe the group,
fetch its offsets, list the earliest, latest or timed ones, and then the one request
that commits offsets or deletes records. Beside it the cluster goes on: producers
append, retention removes, members join and commit. The last request changes any
subset of the partitions and is answered for each with ok, an error or not at all, and
may fail as a whole after it took effect; `done` and `removed` remember what the
cluster did, and the properties compare them with the outcome. A listing for a reset may
fail as a whole (`ReadFails`) or carry an error for some partitions (`unlisted`). The
plan then takes their offset -1 for "stay": they are committed at the offset read before,
0 without a commit, and counted with the others (`PlannedAt`). `goal` remembers where the
reset was to put every partition. A purge validates its listings and fails instead.

`BoundedRead` is the read side. A tail or mirror lists begin and end of each partition,
then polls until it has enough or every partition has shown its last record. An offset
need not hold a record a consumer sees (transaction markers, compaction): `records` is
the set that do. `window` remembers the records that were in the window when it was
listed and are still there. Peek and tail have a deadline (`Expire`), a mirror has none.

### PulsarChange

A purge skips the backlog of every subscription the statistics list, one after the
other; a reset to latest that of one, if it has no consumers. The statistics are the
point: `adminJSON` reads 4096 bytes of them, a longer or an empty body fails to parse,
is asked for again, and after six tries counts as a topic without subscriptions.
`BodyLimit` is how many subscriptions and consumers fit, `EmptyBodies` whether the
broker answers with nothing at times. A reset reads the statistics twice, for its plan
and for the consumers; consumers come and go before, between and after (`late`).

### AclUpdate

Brokers keep one permission for a principal, of several scopes; a grant or revoke reads
it, changes its scope in the copy and writes all of it. Two commands interleave.
What one may cost the other is stated exactly: a scope is lost only when it was changed
between the read and the write of the command that lost it (`since`).

### TopicCreation

`CreateTopic` asks every name server whether the topic is absent, sends the broker an
upsert, and asks every name server again, round after round, until all show the queues
asked for or the time is over. The broker registers with the name servers one by one
(`Register`). Ghosts remember whether the upsert was carried out, whether the topic was
visible when the command began, and whether another command's upsert came in between.

### AuditPrune

A prune lists the rotated files, selects, is authorized, takes the store lock, checks
policy and listing again, logs its intent, which may itself rotate the *control* log,
has the core delete, gives the lock back and records the outcome. Files of a log are
numbers, the older the smaller. Other commands rotate logs, prune and change the policy
between any two of these steps.

### AllCommands

These components do not share state in the code: each works for one command, and
commands meet in the journal, the context store, the audit log or at the broker, which
each module has within itself. `AllCommands` puts them side by side as one state machine
whose behaviours are those of the component that `command` names. The actions and
properties are the modules' own, by `INSTANCE`; the variables of the other components
are `Unused`. The properties of the same kind are one, each component contributing what
is true of it. `ChangesCounted` compares what the outcome says with what was done:

* a Kafka reset or purge, a Pulsar purge and an audit prune: what was done is among the
  succeeded and uncertain items, and what succeeded was done (a Pulsar purge that knows
  of no subscription counts its topic as one succeeded item);
* a Pulsar reset: what it counts as succeeded was done, and it hides nothing unless it is
  on record as failed. A failed one may have taken effect: it is one request, and one
  item with an error is recorded as failed, never as uncertain (`pulsar.go:870-873`,
  `cmd/group.go:265-279`);
* a RocketMQ creation: one on record as failed was not carried out. A success may be the
  work of another command, or of an earlier one whose topic was on its way to the name
  servers: a request that the broker refused still ends well when the topic shows up as
  wanted. What success means for the topic is in `SuccessHolds`.

`SuccessHolds` is what a reported success means, with one exception for Kafka resets, the
partitions that were not listed (`reset_unlisted`). `CommandsEnd` is the liveness of all
that must end. `CommandsAssumption` says what its constants are;
`MCCommands` gives those that a configuration cannot write down.

## Runs, bounds and what they show

Every constant bound is here; no run replaces a definition. The type invariants of
`OutcomeAccounting`, `Redrive`, `BrokerCommand`, `Mirror` and `ContextStore` are theorems
and not part of a run. The same goes for the inductive invariants; each was checked on
the constants of the run of its component before it was proved.

* `journal_all`: two operations and one note, room for two sequence numbers
  (`MaxSeq = 2`, the code's 2^64-1), every kind of failure at every step. Two
  operations are enough for one to replay, overtake or block the other, the note adds
  an actor without outcome; a third operation would repeat the role of one of them.
  With two numbers both a full sequence and a spool with two entries occur. The
  invariants and action properties listed in the module hold, and the instance implements
  `AuditContract`.
* `commands_all`: one instance of each of the smaller components, their bounds being
  - counts: up to four items, every kind of command, every failure and result of
    compensation; four items allow succeeded, failed, uncertain and skipped to be
    non-zero at once. Outcomes are accepted at replay (`OutcomeAccepted`), hide nothing
    (`NothingHidden`) and invent nothing (`NothingInvented`).
  - Kafka changes: two partitions (one can fail alone) with ends up to 2, every initial
    log and every committed offset; a purge, and resets to the latest record (those to the
    earliest and to a time differ in the offset that is listed, and are covered by the
    proofs), to offset 1, and by -1. A listing with errors for any of the partitions, a
    missing answer, a refused partition and a failed request all occur.
  - Kafka reads: the same logs with any set of visible records; tail, follow, peek and
    mirror from each kind of start, limits 1 (stops in the middle) and 3 (more than a
    partition holds).
  - Pulsar: two subscriptions, backlog up to 2, two subscriptions or consumers fit the
    body, two attempts in place of six (the number only matters as first and last).
  - ACL: two commands, two scopes, one pattern. Topic creation: two creators, two name
    servers, two queue counts (equal and different wishes). Prune: two prunes, both
    selectors, up to three rotations of each log, a policy that permits and one that does not.
  - journal: two operations under every failure, for liveness; and the same without
    crashes, failing removals and failing quarantine renames (`quiet`), where no record
    is logged twice (`LoggedOnce`). With any of these it can be, which README.md:327-332
    of the repository concedes for the first two.

  Fairness. A creation's `Step` is weakly fair and so is its `Timeout`, which models the
  timer of `waitForTopicPropagation`; a read's `Work` (its poll loop) and `Expire` (the
  deadline of its context) are; each journal operation's own `Step` is, which says a live
  process keeps executing. Nothing else is fair: not registration with name servers, not
  appends, not `Start`, `Crash` or `Reclaim` of the journal, so the run covers a route
  that never appears, a log that stops growing and a queue lock that is held for ever.
  The other components need no fairness, for nothing is claimed of their end.
* `pulsar_truncated` (violation): with statistics that do not fit the body, a purge sees
  no subscription, skips none and reports success, though src/CHANGELOG.md:70 promises
  that partial results are not complete success. No empty bodies are assumed.
* `reset_unlisted` (violation): a reset to the latest record whose listing has an error
  for one partition commits that partition where it was (`kafka.go:924-927`; the purge
  beside it refuses such a listing, `kafka.go:1041-1049`), counts it as succeeded and
  reports success, though src/CHANGELOG.md:70 promises that partial results are not
  complete success. Two partitions, ends up to 2.
* `mirror_waits` (violation): the last offset of the window is a transaction marker or
  was compacted away, and nobody appends: a mirror, which has no deadline, polls for
  ever. README.md:219 calls it a bounded one-shot copy.
* `journal_requeued` (violation): README.md:331 says only definitely uncommitted
  entries are replayed. When a replay append is indeterminate and its rename to
  `.indeterminate` fails too, the entry keeps its replayable name and is replayed.
* `contexts_mixed`: two commands, every pair of thirteen calls that do not write the
  same credential value (set with one and with two credentials, without, into Vault,
  with a clashing slot; imports of two contexts; migration; role; use; delete of the
  current and of another context), on two initial stores. The names are chosen so that
  two contexts can claim one slot (`a` with a registry password and `a/sr`). Two
  commands suffice for every window between check and use, and for a write between the
  failure of a command and its compensation. That the calls of this run write values of
  their own is not only said: `MixedAreOwn` has TLC evaluate `OwnValues`, the hypothesis
  of the theorems on credentials.
* `contexts_same` (violation): a compensation recognises its own write by value. When
  another command has written the same value since and was told it succeeded, its
  write is undone. SKILL.md:42 promises restoration only where that is provably safe.
* `redrive_all`: two redrives, two messages, every failure (refused dial, broken
  connection, crash, interrupt, rejected publish, deleted target). Two messages are
  needed for an acknowledgement and the next get to share the wire, two redrives for
  a message to be given back to a queue somebody else reads. `--count` is two, so it
  stops a redrive that has moved both.
  A message that has arrived goes back to the source only for cause
  (`ReturnedForCause`): counted as uncertain, a dead process, a channel that ended in
  the middle of its work. Where none of these happens each message arrives once.
  Fairness is that of each process's own steps, of the broker's processing of what it
  has received, and of the end of channels whose client is gone (heartbeats); failures,
  new connections and crashes are not fair. A redrive ends, dies or is caught in
  `drainReturns`; what it held goes back.
* `redrive_spins` (violation): the connection breaks between the answer to a get and
  the next publish. `drainReturns` then receives from a closed Go channel for ever; the
  redrive neither returns nor reports, and an interrupt, which only cancels the context,
  does not end it.
* `broker_all`: every command, every set of facts that can be declared for it and
  every set a broker may answer with, every level from none (-1) to R3, with and
  without flag, in guarded and unguarded contexts, real and planned; errors and death
  at every place. Nothing is bounded: a command is a finite thing, and commands meet
  only in the journal, whose contract the run shows each of them to keep
  (`UsesJournal`). `OnlyCleared` says of reads and changes alike that what is asked,
  shown or changed was approved for what is known of the target at that point.
* `mirror_all`: two messages (`Limit = 2`), all topics of both sides, levels R0 to R3
  each, errors and death at every place. Two messages are needed to see an error
  between one that arrived and one that did not; a third repeats the second.

## Proofs

`AuditJournalProofs` proves, for any set of operations and notes, any set of
failures and any `MaxSeq`, that every invariant and action property of `journal_all`
holds of `Spec`. The only assumption is `JournalAssumption` (types of the constants).
None of the properties is inductive by itself. `JournalInv` is, and has six parts
beside the type:

* `LockInv`: an operation between entering and leaving the queue holds the lock. This
  is the argument for everything below: nobody else moves the log or the spool then.
* `NumberInv`: numbers in spool and quarantine are distinct and bounded by the
  sequence file, and the number just drawn is above them all.
* `EntryInv`: an operation spools at most one record, and as the last thing it does.
* `ReplayInv`: the listing being replayed is the spool as it is, and a head is
  removed only after it was appended.
* `HandleInv`: an operation runs, and finishes, only after its intent was logged.
* `AnswerInv`: "ok" and "kept" are said only when they are true.

Each action of `Next` has a lemma per part it can disturb; `JournalInvariant` combines
them, and the theorems on the journal's own properties follow from it.

`JournalKeepsContract` is the refinement: the journal, with its files, its replay and
everything that fails, does what `AuditContract` allows and nothing else. A step is
mapped to one action of the contract or to none: the append of a replay is the
`RecordOutcome` of the operation whose entry it is, the removal of that entry the
`Settle`, a file that reaches the spool an `Owe`, leaving the queue the `Answer`; the
rename into quarantine changes nothing the contract speaks of. `RefinementInv` adds to `JournalInv` what the mapping
needs (`OverOf`): an operation whose outcome is logged is on its way out and will not
append or spool it again, and a note that is told "ok" is logged.

`OnlyOnce` states `LoggedOnce` with the hypothesis it needs: that `Faults` has no
crash, no failing removal and no failing quarantine rename. `OnceInv`, in
`AuditJournal`, is the strengthening: an operation whose record is logged is past the
place where it would append it, and a spooled record is logged only while somebody
stands between its append and its removal.

`OutcomeAccountingProofs` proves for every `MaxItems` that each outcome is acceptable
to replay (`AlwaysAccepted`), hides nothing (`NeverHidden`) and invents nothing
(`NeverInvented`). The strengthening, `OutcomeInv`, states for each kind of command
how the history counters relate to the tally while it runs (`Running`) and once it
has ended (`Ended`); that all three properties hold of the record is then arithmetic
on each way of counting.

`RedriveProofs` proves, for any processes, messages, `--count` and failures, that no
message is lost (`NoneLost`), that what is counted as succeeded has arrived
(`SucceededHasArrived`) and that what a finished redrive brought to the target, then or
later, is counted as succeeded or uncertain (`ArrivalsReported`). `RedriveInv` is the
strengthening: for each channel, the few things that can be on the wire and what the
broker holds with each (`WireOf`), which of them go with which place in the code
(`ChannelOf`), what the last answer says (`AnswerOf`) and what has still to be reported
(`ReportOf`). `SecondDeliveryHasCause` adds `PlacesInv`: a message is in the source
or held by one channel, never both (`OnePlace`), and one that an open channel has counted
as moved is nowhere but with that channel, its acknowledgement on the wire (`MovedOf`). An action touches one channel, so its lemma speaks of one process and
`Framed` carries the others over; `Processes` says what a command the broker receives
tells about its sender. Proved from `RedriveAssumption` (types of the constants).

`BrokerCommandProofs` proves first that the classifier keeps the order of risks: whatever
more is known of a target, its class does not fall (`MoreFactsMoreRisk`); a plan is
never above its change (`PlanNeverAboveReal`); what destroys is R3 whatever its target
(`DestructionIsPinned`). The argument is one lemma per part of `Classify`: each part
keeps the order `LessKnown` on sets of facts.

It then proves, for any set of levels, every property of `broker_all`.
`CommandInv` is inductive; its parts say what each place in a command knows:
`ReadPhaseInv` (a client and any output only under the intent of the read phase),
`ClearedInv` (from the second authorization on, what was seen is what was approved) and
`WritePhaseInv` (the write phase begins on a recorded read phase that did not fail).
`KeepsContract` is a refinement: each action is one step of `AuditContract`
(`IntentMoves`, `TargetMoves`, `OutcomeMoves`, `AnswerMoves`, `NoteMoves`) or none
(`NothingMoves`), so whatever the contract promises holds of every command. The two
theorems on the classes of commands follow from those on the classifier.

`MirrorProofs` proves, for any limit and any levels, the invariants of `mirror_all`
from `MirrorInv`: `SidesInv` (both sides are approved before a client is built) and
`BatchInv` (the batch is read only when they are approved again, and while the target
is written to, what arrived is exactly what was confirmed). `MirrorKeepsContract` is the
refinement of `AuditContract` by a mirror, in the manner of `KeepsContract`.

`ContextStoreProofs` proves, for any number of commands, contexts, slots, policies and
calls and any set of failures, that the store stays sound (`StoreStaysSound`), that a
change is made only under a policy its approvals satisfy then (`ApprovedAtTheWrite`) and
that neither an import nor a migration loses what others wrote (`NothingIsClobbered`).
Two facts carry it, and `StoreInv` says both: who is between its checks and its write
holds the lock (`LockHeld`), so what it checked stays true (`ValidUnderLock`); and what
it was authorized for was true of the store it had loaded (`LoadedWell`), which the
check of the policy under the lock carries over to the store as it is. Then each kind of
change turns a store into a store (`ChangedIsStore`, from one lemma for replacing,
deleting and changing a policy). Assumed are `StoreAssumption` (types and distinctness
of the constants) and `CallAssumption`: the initial store is one mqgov wrote, and a
call names at least one context and gives items of the right type. TLC evaluates both.

The second half of `ContextStoreProofs` is about credentials, which several commands
write to the same slots, fail over and take back. `FailureLeavesNothing` says that a
command which reports failure has left none of its values, then or later;
`RestoresOnlyOwn` that a compensation changes a slot only while the slot holds the
command's own write. Neither is true of every call: the code recognises its own
write by the value, and `contexts_same` shows what happens when another command has
written the same one. The theorems therefore have the hypothesis `OwnValues`: no two
commands write one value, and none writes a value that was there before. TLC evaluates
it on the calls of `contexts_mixed`. The inductive invariant is `CredentialInv`:

* `WritesRecorded`: what is on record as a write is what the command was called to put,
  into a slot no other of its writes has, which the check of the slots under the lock
  (`Unshared`) gives.
* `AllAccounted`: every value, in a slot or to be restored to one, is on record with the
  command that wrote it. With `OwnValues` this lets a comparison of values stand for a
  comparison of authors.
* `OnePlaceEach`: a value is in its slot or to be restored to it by one write of one
  command, never both; the exception is a write that failed and has not been looked at.
* `FailedUnseen`, `UndoExact`, `FailedGone`: what a compensation still has to undo is in
  the slots as it was written, and what it has undone is nowhere that it could come
  back from.

`BackendProofs` and `CommandsProofs` prove every invariant and action property of
`commands_all` for `MCSpec`, for any partitions, ends, subscriptions, scopes, creators,
name servers, queue counts, prunes and selectors that `CommandsAssumption` admits. It
gives types, asks that the sets summed over are finite and that a prune starts on at
least two numbers for files (`MaxFile`, a bound of the model), and has no command ask
for a topic of zero queues, which `--queues must be positive` excludes, or read from
below offset 0. `CommandsInv` is
inductive and says that the component which runs keeps its own invariant:

* `KafkaInv`: what the cluster has done to each partition at each place of the chain of
  requests, that nothing is done before the last, that what a reset commits is where it
  was asked to put a partition or, if that was not listed, where it read it (`PlanTrue`),
  and that the start of a log only
  moves away from where a purge has listed it (`StartListed`), for which the sum of what
  was removed stays below the number that is reported.
* `ReadInv`: what is in the window is shown or still ahead of a partition that is not
  done (`ShownOrAhead`), what is shown is behind the position (`ShownBehind`), and the
  counters are those of what was shown (`CountedWell`), while the log grows and loses
  records.
* `PulsarInv`: what a purge has skipped is what it listed and has no more to do
  (`PurgeCounts`), a reset that ended without an error has skipped its subscription
  (`ResetAnswered`), and a consumer that a reset meets came after its check
  (`IdleWhenListed`).
* `AclInv`: a command's copy is what the broker keeps, but for `since`.
* `CreationInv`: each name server asked is `UpToDate` with the broker while no upsert has
  happened, and one that `Confirmed` stays with what the command wants; both only while
  no other creation is carried out (`disturbed`).
* `PruneInv`: the listing a command holds differs from the directory only if another
  command changed the log (`ListedOrTouched`), and who is past the checks holds the
  lock, under a policy that permits (`LockHeld`).
* `QuietInv`: the invariant of `OnlyOnce`, through the instance of the journal with fewer
  failures.

Sums over partitions are folds, and the prover has no induction over data. The lemmas
on them (a sum is that of a recursive function over the subsets, it changes by what one
member changes, sums compare when members do) are therefore proved about *sets* of
numbers and of subsets, from the fact that a non-empty set of naturals has a least
member (`LeastNumber`, `NumbersReached`, `SubsetsReached`). The
properties of `OutcomeAccounting` in that run (`OutcomeAccepted`, `NothingHidden`,
`NothingInvented`) are the theorems of `OutcomeAccountingProofs`, about its own `Spec`.

Left to TLC: what the prover cannot express or do, that is liveness under fairness
(`CommandsEnd`, `Terminates`, `NothingStuck`) and `ENABLED`. Every invariant and every
other temporal property of a passing run is stated by a theorem. The models contain no
recursive operators.

## What is assumed

* opskit-core: an append reports `committed`, `notCommitted`, `postCommit` or
  `indeterminate`, and the record is in the log in the first and third case, is not
  in the second, and may be in the last. A lock file excludes other processes while
  it is held, may outlive its holder, and is waited for with a bound. A store is
  replaced atomically; an error may come before or after the replacement.
* Operation identifiers are unique. Directory listings, renames and removals are
  atomic; a rename whose directory sync fails may have been made.
* A credential store has single-key operations; a write that reports an error may
  have been made, a read changes nothing. Other programs do not write to the slots.
* Authorization in opskit-core: a class is granted when the operator's ticket, role and
  confirmation reach it, a class above R0 is raised by one in a guarded context as the
  code here asks for, and the allow flag is looked at for R3 only. A broker describes a
  target by adding to what was declared of it, as the code here joins the two.
* Kafka: a request over several partitions takes effect on any subset of them, whatever
  is answered; offsets grow, retention removes the oldest records first. Pulsar: the
  statistics list the subscriptions there are; skipping leaves a subscription no backlog.
  RocketMQ: the create request is an upsert, and a name server that has a route keeps one.
* opskit-core's prune compares the listing it was given with the directory under the
  lock of the log, deletes the oldest first and reports what it deleted.
* RabbitMQ: commands of one channel are processed in order; a confirm means that the
  message is in the target queue, a negative one that it is not; unacknowledged
  messages return when the channel ends. Queues survive the broker (durable queues,
  persistent messages). amqp091-go resolves the confirms of a closed channel as not
  acknowledged, closes its notification channels, and fails every later call.

## Not modelled

`PROJECT.json` states for every component what is left out. Formatting, flags, wire
protocols and the syntax of names are left out throughout. In particular:

* Kafka: a reset to an offset beyond the end of the log (what the group reads next is
  then the consumer's setting); a topic that gains partitions or is deleted between two
  requests of one command; topics, ACL bindings, groups and produce, which are
  single requests and appear as the change of
  `BrokerCommand`; the two requests of `AlterTopic`, of which one may fail after the
  other (a hazard without a property).
* Pulsar: readers (peek, tail, mirror source) and resets to a message id or a time,
  topics and schemas. RabbitMQ: topics, groups and describes through the management API.
  RocketMQ: all but creation. Each is one request, or reads without state.
* A permission write that times out and reaches the broker after its command has ended:
  in `AclUpdate` a write takes effect before its answer, or not at all.
* Audit query and verify, `doctor`, capabilities, context list and export: they read and
  format. Fleet commands: only how their contexts are counted; the order and the limit of
  concurrent contexts is a loop without shared state.
* Recognition of internal names, broad ACL patterns and tickets: reduced to the facts
  they decide.
* The fake backend (a test double), TLS pinning (one comparison in a handshake, one file
  written once), the installer and the copying of skills (downloads and files).

What would come next, in this order: the Pulsar readers beside `BoundedRead`; the two
requests of Kafka's `AlterTopic`, with a property on what its outcome may say; and the
three theorems on outcomes stated for `AllCommands` as well.
