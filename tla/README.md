# Verification of subgraph-radio

subgraph-radio is the Graphcast radio an indexer runs to cross-check its proofs
of indexing (POIs) with those of other indexers.  This directory holds TLA+
models of its core, TLC configurations that check them on small instances, and
proofs, checked by TLAPS, of properties for every instance.

All paths below are relative to `src/subgraph-radio/src/`.

## 1. The system

| component | code | state | operations |
|---|---|---|---|
| main loop | `operator/mod.rs` `run` | which tick is under way; intervals; `skip_iteration` | one `tokio::select!` over six intervals: topics, state, gossip, comparison, notification, network check |
| POI gossip | `operator/operation.rs`, `messages/poi.rs` | table `local_attestations` | `gossip_poi` spawns `send_poi_message` for each deployment: duplicate check, queries, publication, insert |
| message processor | `operator/mod.rs` `process_message` | table `remote_ppoi_messages` | a task beside the loop; validates one message at a time, under 10 s, and inserts it |
| comparison | `operation.rs` `compare_poi`, `poi.rs` `poi_message_comparison`, `attestation.rs` | the results of the tick | `local_comparison_point`, collection window, `process_ppoi_message`, `compare_attestations`, `cleanup_after_comparison` |
| results and notifications | `attestation.rs` `process_comparison_results`, `notifier.rs` | tables `comparison_results`, `notifications` | `handle_comparison_result` (read, save, note), delivery by webhook, clearing |
| upgrade intents | `messages/upgrade.rs` | table `upgrade_intent_messages` | rate limit, notification, off-chain sync of the new deployment, upsert |
| topics | `config.rs` `generate_topics` | the identifiers of the agent | static, on-chain and syncing deployments by coverage level |
| control flow | `lib.rs` `ControlFlow`, `shutdown`; `main.rs` | flags `running`, `skip_iteration`; the message channel | a thread that skips one iteration; a task that waits for the signal, drops the channel's sender and stops the servers; the exit of `main` |
| HTTP server | `server/` | none (reads the database) | GraphQL queries on rows, results, ratios, stakes; a block is compared anew for each query |
| clients | `operator/indexer_management.rs`, `operator/callbook.rs`, `graphql/` | none | requests to graph node, network subgraph, management API |
| metrics, configuration, entry point | `metrics/`, `config.rs`, `main.rs` | gauges; options | no feedback into the protocol |

How they interact.  The loop handles one tick at a time.  Gossip and comparison
ticks spawn one task per deployment and await them all; the message processor
and the HTTP server run beside the loop.  Everything is shared through the
database, one statement at a time, with no transaction around several.  The
database is a file, or in memory and lost at a restart.  The comparison tick
hands its results by value to `process_comparison_results`, which is the only
part of the tick inside the tick's timeout: the argument of `timeout(..)` is a
block whose awaits have all run before the timeout starts, except that last
future.

What is hard.  Statements of different tasks interleave, with network queries in
between (the duplicate check and the insert; the choice of the comparison point
and the second read of its row).  A statement, query, publication or webhook may
fail at any of these points, the process may die there, and
`process_comparison_results` may be dropped there.  Messages arrive late,
repeated, out of order.  Evidence is deleted before the verdict is saved.  At
most one notification per deployment can wait.  Numbers are stored as text and
compared as text.  The topics, and with them the deployments of the next ticks,
shrink when a network query fails.  The processor blocks its thread on the
channel, and may panic for good.  The API reads the same rows with awaits in
between, while the clean-up deletes them.

What makes each part correct.  *Gossip*: a block is published once, and what is
kept as the own attestation was published.  *Comparison*: a verdict is drawn
after the window, from messages of the window, against the row it was chosen
for; results go from older to newer blocks; an answered block is judged in the
end.  *Arithmetic*: each sender's stake counts once, the attestation with most
stake decides.  *Notifications*: no false alarm, no missed change, nothing
waiting forever.  *Upgrade intents*: one upgrade per subgraph within the limit.
*Loop, topics, shutdown*: configured topics stay, lost ones come back, a signal
ends the process.  *API*: the attestation with most stake
decides, ratios show each POI once, a request fails only for a reason.

## 2. The modules

| module | models | composed of |
|---|---|---|
| `TextOrder` | SQLite's order of decimal spellings | |
| `Attestations` | `Attestation::update`, `process_ppoi_message`, `compare_attestations`, `compare_attestation` | |
| `Arrivals` | messages of one block as they arrive, and what `Attestations` and `ApiViews` make of them | extends `ApiViews` |
| `CrossCheck` | gossip tick, message processor, comparison tick, clean-up, restarts | extends both |
| `ChangeLog` | the abstract promise about changes of status | |
| `Notifications` | `process_comparison_results`, its timeout, the notification tick | implements `ChangeLog` |
| `RadioOperator` | gossip, comparison, results and notifications in one loop | `CrossCheck` and an instance of `Notifications`; implements both |
| `MainLoop` | `RadioOperator::run` and `new`, `generate_topics`, `ControlFlow`, `shutdown`, `message_processor`, `main` | |
| `Radio` | the process: the loop with topics, flag, processor, shutdown and the bodies of its ticks | extends `CrossCheck` and `MainLoop`; implements both |
| `ApiViews` | what the resolvers of `server/model/mod.rs` make of the rows | extends `Attestations` |
| `ApiServer` | a request for one block, beside the radio | extends `CrossCheck` and `ApiViews` |
| `UpgradeIntents` | `process_message` for upgrade intents, `process_valid_message`, the rate limit and its table | extends `TextOrder` |
| `..._proofs` | theorems about the module of that name, `Radio_proofs` about `MainLoop` too | extends it; `Radio_proofs` and `ApiServer_proofs` also extend `CrossCheck_proofs`, which like `Arrivals_proofs` extends `Attestations_proofs` |
| `MC...` | instances, symmetry, and references for the pure operators | |

`CrossCheck`.  `phase` is the branch of the loop under way; `task[d]` is the
task the tick spawned for deployment `d`, with the locals that live across its
awaits: gossip goes `check` (duplicate check), `send` (queries and publication),
`save` (insert); comparison goes `point` (comparison point and window), `read`
(messages and stakes), `judge` (local row again, verdict), `join` and `clean`
(the two clean-up statements, run by `compare_poi` after it has joined the
task).  Each action is one such stretch, with at most one statement, query or
publication that others can see.  `local`, `remote`, `results` are the tables,
by deployment; messages carry SQLite's rowid, the order in which a SELECT
returns them.  `outcome` is what the tick has to hand over.  `published`,
`faults`, `crashes` are history.  `Fault` lets a statement or query fail as the
code handles it: a failing duplicate check goes on to send (`if let Ok(Some(_))`),
a failing first clean-up statement skips the second.  `Restart` may happen
between any two steps.  `RecordResult`, `LoseResult`, `EndResults` are a coarse
view of what `Notifications` does in detail.

`Notifications`.  `step` is the statement `process_comparison_results` or the
notification tick stands at: `next` (of the results left), `save`, `note`,
`collect`, `notify`, `clear`.  `mode` is the notification mode, which a restart
may change.  `notes` is the table with its UNIQUE constraint.
`changes` (changes of status that were saved and are worth a notification) and
`told` (what the webhooks were sent) are history.

`RadioOperator`.  `phase` and `outcome` are shared: the comparison tick fills
`outcome` and moves to the phase `results`, from where `Notifications` goes on.
With `phase` "notify" read as "idle", its behaviours are behaviours of
`CrossCheck` (`RefinesCrossCheck`): the coarse view is justified.  With the gossip
tick and the comparison read as "idle", and `outcome` as empty until the
comparison is done, they are behaviours of `Notifications`
(`RefinesNotifications`): the last step of the comparison is its `Compare`.  So what
each part promises on its own holds of both.

`UpgradeIntents`.  `step` is the await the message processor stands at while it
handles an intent: `limit` (`recent_upgrade`), `notify`, `query` (is the present
deployment covered?), `sync` (`setIndexingRule`), `save`.  `row[s]` is the nonce
of the subgraph's row of `upgrade_intent_messages`.  `handled` is history: the
decisions taken, in order, how far each got, and whether its message is still
kept.  Messages arrive with any nonces in any order, since the SDK's nonce and
timestamp checks are skipped for this type.  `Abandon` is an error or the ten
seconds of `message_processor` at any await: both end the handler unsaved.
`LoseProcessor` is the panic of `indexing_rules`, which unwraps its request to
the management server (`operator/indexer_management.rs:60`): `processor` is
"gone" and no message is handled until a restart.  The
table is used by nothing else, so the module is not composed with the others;
what the loss of the processor means to them is the action `Panic` of `MainLoop`.

`MainLoop`.  `at` is where `run` stands: `top` (the test of `running`), `select`,
the body of a tick, `returned`, `exited`.  `skip` and `timer` are
`skip_iteration` and the thread that sets it once.  `topics` are the agent's
content identifiers, which `generate_topics` computes from the configuration and
from two queries, each of which may fail and then counts as empty.  `shutdown`
is the task that waits for the signal, `callback` whether Waku's callback still
holds the sender of the message channel, `processor` where `message_processor`
stands.  `main` returns when `run` does; the runtime then waits for a processor
that blocks its thread in `recv()`, which only the dropped callback ends.  The
ticks of the state update and the network check change no state of the radio
and are left out of `Kinds`, that of the notifications is in `RadioOperator`.

`Radio`.  A tick of the loop begins with `StartGossip` or `CompareOf` of
`CrossCheck` for the deployments that are topics now, and ends with theirs.  A
message is stored at the end of `process_message`.  A restart generates the
topics anew.

`ApiViews` has the resolvers as operators on the tables: which rows are selected
by which filters, `aggregate_attestation` and `calc_ratios`.  The local
attestation joins the remote one of the same POI; `calc_ratios` then writes the
senders and stakes in order and stars the local one.  The local row is stored
without senders and stakes (`messages/poi.rs:259-267`), so a local POI that nobody
else sent is shown with one sender, this indexer, and its stake once.  (The ratio adds the
indexer's own stake to the starred entry twice when others sent the same POI:
`aggregate_attestation` has joined the local attestation to the remote one, and
`calc_ratios` adds the stake of `indexer_info` to it once more.  No comment or
test says otherwise, so that no property is stated against it.)  The loop of
`aggregate_attestation` is a fold, one `Join` per attestation.  The sort is
stable in Rust (`sort_by`): `Place` counts the attestations that come before one,
those with more stake and those with as much and a smaller index.

`Arrivals`.  The messages of one deployment and one block arrive in any order and
with repetitions; the properties compare what the loops over them compute with
definitions over sets (`Voters`, `StakeOf`), which know no order.

`ApiServer`.  `query` is the request under way, at each of its awaits: the local
row (read first), the messages, the stakes.  Any step of the radio may come in
between.  `compare_attestation` unwraps the last of a list and panics when it is
empty; the server ends the connection.  `answered` and `judged` are history.

Abstractions.  There is one indexed network, so one block number per deployment
and tick.  Block hashes, signatures, texts and JSON are left out.  Which
messages pass validation, which block the chain is at, which POI the graph node
answers and whether it has synced are arbitrary inputs.  Stakes do not change.
Metrics and logs are left out.  Definitions commented "Mutant" are not used by
any specification: each is a plausible bug that the properties must catch.

## 3. The runs

| run | module, cfg | checks | result |
|---|---|---|---|
| Attestations | `MCAttestations` | `WeightIsStakeOfSenders`, `TimesAreOfFirstMessages`, `VerdictHasWitness`, `ApiTopDecides`, `RatioShowsEachPpoi` | hold |
| TopAttested | `MCAttestations`, `TopAttested.cfg` | `TopAttestedDecides` | **violated** |
| CrossCheck | `MCCrossCheck`, `CrossCheck.cfg` | `TypeOK`, `OneRowPerBlock`, `OnlyLatecomersUncounted`, `VerdictHasEvidence`, `NothingJudgedIsKept`, `JudgedWasPublished`, `ResultNeverOlder`, `EvidenceGoesWithVerdict` | hold |
| ApiServer | `MCApiServer`, `ApiServer.cfg` | `ATypeOK`, `RowStaysUntilJudged`, `PanicExplained`, `EvidenceGoesWithVerdict` | hold |
| SendOnce | `MCCrossCheck`, `SendOnce.cfg` | `SendOncePerBlock` | **violated** |
| TextOrderedBlocks | `MCCrossCheck`, `TextOrderedBlocks.cfg` | `ResultNeverOlder` | **violated** |
| LivePromise | `MCNotifications`, `LivePromise.cfg` | `DeliveryIsUpToDate`, `LiveKeepsPromise`, `DivergenceReachesOperator` | hold |
| Failures | `MCNotifications`, `Failures.cfg` | `TypeOK`, `ToldIsAChange`, `DecisionNotStale`, `NothingClearedUntold`, `NotesDrain` | hold |
| UpdatesSince | `MCNotifications`, `UpdatesSince.cfg` | `DeliveryIsUpToDate` | **violated** |
| RadioOperator | `MCRadioOperator`, `RadioOperator.cfg` | `RTypeOK`, `PublishedIsKeptOrJudged`, `ToldWasPublished`, `RefinesCrossCheck`, `RefinesNotifications` | hold |
| UpgradeIntents | `MCUpgradeIntents`, `UpgradeIntents.cfg` | `TypeOK`, `UpgradesApart`, `LimitFollowsUpgrade`, `LossUnrecorded` | hold |
| Radio | `MCRadio`, `Radio.cfg` | `RTypeOK`, `StaticStay`, `StopsSoon`; liveness: `AnsweredIsJudged`, `AllocatedIsTopic`, `ShutdownCompletes` | hold |

What the runs of the concurrent parts show.  *CrossCheck*: messages that arrive
while a comparison is under way cost it only latecomers
(`OnlyLatecomersUncounted`); it reports after the window, and what was said
within it (`VerdictHasEvidence`); evidence is deleted only for a verdict of its own
deployment (`EvidenceGoesWithVerdict`), and nothing the verdict covers is kept
(`NothingJudgedIsKept`).  *ApiServer*: two deployments' comparisons and
clean-ups interleave with each other and with a request; the row of a comparison
stays until the verdict, no clean-up takes the evidence of another deployment,
and a request for an answered block panics only if a verdict has overtaken it, or
something failed.  *Radio*: an answered block of a deployment that stays a topic
from some time on is judged in the end.  The deployment is dynamic: the topics
may be empty for a while in the middle of its row's life, an iteration is
skipped, a query or statement fails (a clean-up that leaves the row behind
included), and the process restarts.  A deployment the failing queries have
dropped becomes a topic again; and after a signal the loop begins at most one
more tick and the process exits.

Bounds and why they are enough.  Five messages of three senders with two stakes
and two POIs give repetitions, ties and both orders of stake.  Two blocks are
the fewest for which rows wait for each other and results can go backwards; one
further block behaves as the second.  Three intents of a subgraph with nonces 10,
12, 13 and a threshold of two give messages within the limit and on its edge,
repetitions and older messages after each of them, and limits (8, 10, 11) of one
and of two digits.  10 and 11 have equally many digits, 9 and
10 have not.  One window of length 1 and clock values 0 to 2 give messages made
before, at and after its end.  Two message rows at a time give a witness and a
late or repeated message.  One failure and one restart are placed at every point
of every tick, alone and together.  The run ApiServer has two deployments, two
blocks and one failure, without time and restarts, which a request takes no part
in.  The run Radio has one block of a deployment that is allocated or not,
a configured deployment of which nothing is cross-checked, one failure besides
those of the topic queries, and one restart: its properties are about one row, one topic and
one shutdown.  With two blocks it has more than a million states, too many for
the liveness check; that a block which has been judged does not stand in the way
of the next is `NothingJudgedIsKept`, checked with two.  Two deployments are enough for interleaved
clean-ups, batches of notifications and results read for the wrong one; the
actions of one deployment do not otherwise depend on another.  `MaxClock`,
`MaxRowid`, `MaxFaults`, `MaxCrashes`, `MaxMishaps`, `MaxChanges`, `MaxMessages` are the names
of all bounds; no system code corresponds to them.  `MaxChanges` bounds the changes
of a deployment in the runs of `Notifications` on its own; a negative one is no
bound, which is how `RefinesNotifications` reads that module.  Permutations of POIs or
deployments are used as symmetry only in runs without liveness.  Deadlock is
not checked because a bounded clock ends the gossip ticks, and a run of
`Notifications` ends with its changes.

`TextLe` is computed on numbers; an ASSUME of `MCCrossCheck` compares it with
the definition on digit sequences whenever that module is run.

Fairness.  Every await of a task returns or fails in the end, and SQLite answers:
hence weak fairness of what the loop does next (`LoopProcess` or `TickStep`, in
`Notifications` `ResultStep` and `DeliveryStep`), of `StopListening`, and of the end of
`process_message`, which its ten seconds end in any case.
`tokio::select!` polls its branches in random order and an interval whose tick is
due stays due, so no kind of tick is passed over forever: strong fairness of the
ticks that the properties need, of topics and comparison (in `Notifications`, of
`Compare` and `StartUpdate`); nothing is assumed of the gossip tick.  Time goes on:
strong fairness of `Tick`.  The channel holds finitely many messages when its
sender is dropped, so the processor finds it empty in the end: strong fairness of
`HangUp`.  Two properties need more of the network, that a query which is repeated
forever succeeds again and again: `AllocatedIsTopic` of the query of allocations
(`Succeed`), `AnsweredIsJudged` of the query of indexing statuses, without which a
comparison tick ends before it begins (`BeginCompare`).  Nothing is assumed of other indexers, of
the chain, of the signal or of restarts.  That requests end is the network's
doing: the clients are made without a timeout.

### What the violations say

* *TopAttested.*  `compare_attestations` (`operator/attestation.rs:498-504`)
  sorts by stake in descending order and takes the last: the attestation with
  the least stake decides, while the comment (line 473) promises the
  top-attested one, as the API's `compare_attestation` does.
* *SendOnce.*  The duplicate check (`messages/poi.rs:210`) looks for the local
  row, which the clean-up deletes after the comparison.  While the chain stays
  at the block, the next gossip tick sends a second message for it.
* *TextOrderedBlocks.*  `block_number <= ?` (`database/mod.rs:198`) compares
  texts.  The row of block 9 survives the clean-up after block 10, is compared
  later, and its result replaces that of block 10.
* *UpdatesSince.*  `create_notification` (`database/mod.rs:525`) refuses a
  second message of a deployment.  In the mode periodic-update the second change
  since the previous notification is never delivered, although the option's help
  (`config.rs:498`) promises the updates since then.

### A limit of the rate limit

`UpgradesApart` is weaker than the option's help, "only one upgrade per subgraph
within the threshold" (`config.rs:376`), in four ways, each visible in the model.
An older message overwrites the row and shortens the limit.  An upgrade that is
cut off after its notification is not saved and does not count.  And a skipped
message is saved as well (`operator/mod.rs:586-591`): it extends the limit, so
that a subgraph whose owner sends intents more often than the threshold is
upgraded once and then no more, although the comment at `messages/upgrade.rs:108`
speaks of a recent upgrade.  Last, the saved nonce and the limit are compared as
texts (`database/mod.rs:506`): where they have different lengths, the limit may
fail, which `UpgradesApart` states as its condition `Comparable`.  Times in
seconds have one length until the year 2286.

## 4. The proofs

`CrossCheck_proofs` proves, for every set of deployments, senders, POIs and
positive block numbers, every stake and window and every value of the bounds
(the ASSUMEs of `CrossCheck` and `Attestations`):

| theorem | statement | invariant used |
|---|---|---|
| `TypeCorrect` | `Spec => []TypeOK` | `TypeOK` is inductive: it ties the stage of each task to the phase |
| `ComparisonSound` | `Spec => []RowStaysUntilJudged` | `IPointed` |
| `RowsSingle` | `Spec => []OneRowPerBlock` | `ISingle` |
| `OnlyPublishedJudged` | `Spec => []JudgedWasPublished` | `IBacked` |
| `ResultsInOrder` | `SameWidth => (Spec => ResultNeverOlder)` | `IOrdered` |
| `NoneButLatecomersLost` | `Spec => []OnlyLatecomersUncounted` | `ICounted` |
| `VerdictsEvident` | `Spec => []VerdictHasEvidence` | `IEvident`, `IStored`, `VerdictWitness` |
| `JudgedRowsGo` | `SameWidth => (Spec => []NothingJudgedIsKept)` | `IOrdered` |
| `EvidenceKeptForVerdict` | `SameWidth => (Spec => EvidenceGoesWithVerdict)` | `IDecided` |

`TypeOK` says that a task belongs to the tick under way; every other argument
rests on that, because it keeps gossip (which inserts rows) out of the
comparison (which reads them twice).  `IPointed` strengthens
`RowStaysUntilJudged` with what the task remembers between its reads: the row it was pointed at is
still there and `end` is that row's time plus the window; the only step that
deletes rows of a deployment is its own clean-up, after the verdict.  `ISingle`
adds that a task about to send or save found no row for its block, and that none
has appeared.  `IBacked` carries "was published" along the way of a block: the
row to be saved, the row, the block compared, the outcome, the result.
`IEvident` follows the evidence of a verdict from the read that found the block
answered, over the read of the messages, to the comparison: what is judged was
made within the window of a row, and if that is nothing, a message made too late
is there before all others.  What the verdict makes of it is `VerdictWitness`, a
lemma about the arithmetic; it takes a sequence, and `IStored` (no two messages
with one rowid) makes the messages one (`RowOrder`).
`IOrdered` says that whatever is under way lies between the saved result and the
head, and that once a result waits to be saved no row as old as it is left;
this last part is where the clean-up is needed, and where `SameWidth` is: without
it the run TextOrderedBlocks refutes the conclusion.  `ResultNeverOlder` and
`OneRowPerBlock` speak of behaviours until the first failing query or statement:
a failing clean-up leaves a row behind, a failing duplicate check a second row.

`UpgradeIntents_proofs` does the same for `UpgradeIntents`, for every set of
subgraphs and nonces, every threshold and bound, with or without a database file:

| theorem | statement | invariant used |
|---|---|---|
| `TypeCorrect` | `Spec => []TypeOK` | `TypeOK` ties a message past its limit to the last decision |
| `UpgradesStayApart` | `Spec => []UpgradesApart` | `IReaches` |
| `LimitsStartWithUpgrades` | `Spec => []LimitFollowsUpgrade` | `IFollows` |
| `LostUpgradesUnrecorded` | `Spec => []LossUnrecorded` | `AskedManaged` |

`UpgradesApart` is about the history only and not inductive.  `IReaches` adds what
the row remembers of it, that once a message was saved the row is its own or
that of one handled since, and that the row the limit was checked against is
there until the announcement.  `AskedManaged` says that the management server is
asked only where one is configured; that it is asked about a message announced
and not saved is part of `TypeOK`.  `IFollows` adds that a skipped message on its way
to be saved was limited by a row.  That no message since the first is older, and
that all are comparable with the limit of the last, are premises of
`UpgradesApart` itself.

`Notifications_proofs`, for every set of deployments, modes and bounds:

| theorem | statement | invariant used |
|---|---|---|
| `TypeCorrect` | `Spec => []TypeOK` | with `Fresh` |
| `DecisionStaysRight` | `Spec => DecisionNotStale` | `Fresh` |
| `NoFalseAlarm` | `Spec => []ToldIsAChange` | `Heard` |
| `ClearsOnlyTold` | `Spec => NothingClearedUntold` | `Settled` |
| `LivePromiseKept` | `NothingFails /\ Spec => LiveKeepsPromise` | `AtMostOnePending` |
| `DeliveryComplete` | `NothingFails /\ Spec => []DeliveryIsUpToDate` | `AtMostOnePending` |

`Fresh` says that between its read and its save the result handled is still
there and the decision is the one the saved result calls for; the type of what
is saved rests on it.  `Heard` extends `ToldIsAChange` to the messages in the
hands of a tick, `Settled` says that nothing is added to the table while its
messages are on their way.  `LivePromiseKept` is the refinement of `ChangeLog`
under `NothingFails` (mode live; no failures, timeouts and restarts): with at
most one change pending per deployment, the save is the step `Observe`, the
webhook round is `Announce`, and all else is a stutter.

`RadioOperator_proofs`:

| theorem | statement | invariant used |
|---|---|---|
| `CrossCheckImplemented` | `RSpec => RefinesCrossCheck` | `RStage` |
| `NotificationsImplemented` | `RSpec => RefinesNotifications` | `RInv` |
| `PromisesCarryOver` | `RSpec => []ToldIsAChange /\ DecisionNotStale /\ NothingClearedUntold` | by refinement |
| `LivePromiseOfBoth` | `Modes = {"live"}`, no failures and restarts: `RSpec => LiveKeepsPromise` | by refinement |
| `BothTyped` | `RSpec => []RTypeOK` | by refinement |
| `NothingForgotten` | `SameWidth => (RSpec => []PublishedIsKeptOrJudged)` | `Kept` |
| `OnlyPublishedTold` | `RSpec => []ToldWasPublished` | `RStage`, `OwnBlocksOnly` |

`RStage` ties the stage of a task to its phase and the stages of the results to
theirs, with no result left when messages are delivered.  The save is then
`RecordResult`, a read or save that fails is `LoseResult`, the end of the tick or
its timeout is `EndResults`, and the rest of the handling is invisible.
`OwnBlocksOnly` carries "was published" from the local row to the webhook.

The two refinements let theorems about a part be used for the whole.  The proof
module instantiates `CrossCheck_proofs` and `Notifications_proofs` with the
refinement mappings (`Cp` and `Np`), and cites their theorems; the lemmas
`Copy...` and `Handed...` say that what the instances define is what
`RefinesCrossCheck` and `RefinesNotifications` define.  `RInv` is what comes of it: the types of
both parts.  `LivePromiseOfBoth` goes through two refinements, from the
composition to `Notifications` and from there to `ChangeLog`.  `Kept` follows a published
block through the tick: it has its row, or its row is about to be saved, or a
verdict as new as it waits in `outcome`, or is saved.  A row is deleted by the
clean-up, which takes only what the waiting verdict covers (`IDecided`), and a
result is replaced only by a newer one (`IOrdered`); both are invariants of
`CrossCheck`, taken over.  `ModesAssumption` and `MishapsAssumption` (some mode of
the option exists; the number of failures to place is a number) are those of
`Notifications`, with the mapped constants.

`Radio_proofs` first proves `LTypeOK`, `StaticStay` and `StopsSoon` of the loop
(`MainLoop`) for every coverage and every set of deployments; the last from the
invariant that a tick begun after the signal is the last one.  It then proves
`ImplementsBoth`, `RSpec => Spec /\ LSpec`, so that the theorems of `CrossCheck`
and `MainLoop` hold of the process; with `Agree`, which ties the phase of the
cross-check to the place of the loop, it proves `RTypeOK`.

`ApiServer_proofs` proves `ATypeOK`, which says that a request compares messages of
the block it asked for only, and, for `SameWidth`, `PanicExplained`.  Its
invariant `Explained` says that until a verdict has come, the messages that made
the block answered are still there, whatever the request has read so far; it
rests on `IDecided` of `CrossCheck`: the clean-up only takes what a verdict covers.

`Arrivals_proofs`, on the lemmas of `Attestations_proofs`, for every set of
senders and POIs, every stake and any number of messages:

| theorem | statement | what it rests on |
|---|---|---|
| `WeightsRight` | `Spec => []WeightIsStakeOfSenders` | `AttInv` |
| `TimesRight` | `Spec => []TimesAreOfFirstMessages` | `AttInv` |
| `VerdictsWitnessed` | `Spec => []VerdictHasWitness` | `AttInv`, `DecidingExists` |
| `TopDecidesInApi` | `Spec => []ApiTopDecides` | `AttInv`, `TopExists` |
| `RatiosRight` | `Spec => []RatioShowsEachPpoi` | `AttInv`, `Aggregated`, `ByStakeOrdered` |

The loops are folds, and the library defines a fold by a recursive function that
the provers do not unfold by themselves, nor do they take induction over data.  The first
part therefore says what a fold is without recursion: `Folds(w, g, s)`, g holds
its value for every prefix of s.  That such a g exists (`FoldExists`) and that two
of them agree on a common prefix (`FoldsAgree`) is shown by the least prefix where
it fails (`LeastNat`); so processing one message more is one turn of the loop more
(`ProcessOneMore`), and `Grouped` survives it: one attestation per POI sent, and
each `Accounts` for the messages with its POI, distinct senders, first times,
stakes.  By the least prefix again it holds of any sequence (`ProcessGrouped`),
and `AttInv` says so of the arrivals.  `StakeOf` adds up
in an order of the library's choosing: that the sum does not depend on it
(`StakeIsSum`, `StakeOfOneMore`) is shown by a counterexample with the fewest
senders.  For the ratios, `ByStakeOrdered` shows that the places of the
attestations in the stable sort are a permutation of their indices with
descending stakes, and
`Aggregated` that the local POI is added exactly if nobody sent it, with this
indexer as its only sender.
The assumptions: stakes are natural numbers, the local indexer is none of the
senders (the SDK refuses its own messages), and `NoPpoi` is no POI.

Each invariant is proved initial and preserved, with one step per action, and
the theorems follow by temporal logic.  `ComparisonPoint` is a CHOOSE; that the
chosen row exists (`PointIsAnswered`) needs a least element of a set of numbers
(`LeastNat`, by well-founded induction).

Only model-checked: liveness (fairness is outside the prover).  Every safety
invariant and action property of a passing run is stated by a theorem; those that
need `SameWidth` or `NothingFails` are proved under it.

## 5. Not modelled, and the plan

* Validation of POI messages (`valid_outer`, `valid_hash`, the SDK's sender and
  nonce checks): queries without state of the radio.  `Receive` takes any message
  they may let through.
* The clients (`graphql/`, `operator/callbook.rs`, the rest of
  `operator/indexer_management.rs`): their answers are inputs, their failures are
  where they are awaited.
* The resolvers that hand out the rows of one table, the peers, the routes of the
  HTTP server.
* Metrics, logs and the parsing of options: nothing reads them back, or they are
  the CONSTANTS.  Periodic reports, the state update and the network check, which
  change no state.
* Some hazards have no property.  The timeout of the gossip and comparison ticks
  does not cover their queries, so that a query that hangs stops the loop
  (`operator/mod.rs:257`); the processor's blocking `recv()` occupies a worker
  thread (`operator/mod.rs:460`); a block is converted to `i32`
  (`messages/poi.rs:237`): these are about time, threads and numbers that the
  models do not have.
* Losses that the code allows after a failure have none either, as they are no
  promise of it: a block published and not saved (`messages/poi.rs:268`), a change saved
  and not noted (`operator/attestation.rs:347`), a webhook that fails
  (`operator/notifier.rs:73`), rows that nobody answers
  (`operator/operation.rs:157`), a request that panics without the network
  subgraph (`config.rs:179`).  The models take these steps, and the properties
  that exclude failures say that nothing else loses anything.

Order of the work, the most important behaviour first:

1. (done) `TextOrder`, `Attestations`, `CrossCheck`; theorems about `CrossCheck`.
2. (done) `ChangeLog`, `Notifications`, `RadioOperator`; theorems about them,
   the two refinements among them.
3. (done) `UpgradeIntents` with the loss of the processor; theorems about it.
4. (done) `MainLoop` and `Radio`: topics, flag, processor and shutdown; liveness
   of the whole process; theorems.
5. (done) `ApiViews` and `ApiServer`: the API's view of the same rows, alone and
   beside the radio; theorems.
6. (done) `RadioOperator` as an implementation of both its parts.
7. (done) The arithmetic of `Attestations` and `ApiViews` as theorems about
   `Arrivals`.
8. Left: lemmas about `TextLe` (total order); the notification tick in `Radio`,
   whose instance is at the limit of what TLC checks for liveness.
