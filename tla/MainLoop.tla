------------------------------ MODULE MainLoop ------------------------------
(***************************************************************************)
(* RadioOperator::run and what runs beside it: the loop that handles one   *)
(* tick at a time, the topic tick, the flag that skips an iteration, the   *)
(* message processor, and the shutdown after SIGTERM or Ctrl+C.            *)
(*                                                                         *)
(* The bodies of the gossip and comparison ticks are those of CrossCheck,  *)
(* which module Radio puts in place; the others change no state here.      *)
(***************************************************************************)
EXTENDS Naturals

CONSTANTS
  Ids,       \* deployment hashes
  Static,    \* radio_setup.topics
  Open,      \* deployments the indexer may open and close an allocation for
  Coverage   \* radio_setup.gossip_topic_coverage

ASSUME IdsAssumption == Static \subseteq Ids /\ Open \subseteq Ids
ASSUME CoverageAssumption ==
  Coverage \in {"None", "Minimal", "OnChain", "Comprehensive"}

VARIABLES
  at,         \* where run stands
  running,    \* control_flow.running
  skip,       \* control_flow.skip_iteration
  timer,      \* the task that sets skip
  topics,     \* the agent's content identifiers
  allocated,  \* the indexer's active allocations, on chain
  shutdown,   \* the task that waits for a signal
  callback,   \* TRUE: Waku's callback still holds the channel's sender
  processor,  \* the task of message_processor
  late        \* history: ticks begun after running was set to false

lvars == <<at, running, skip, timer, topics, allocated, shutdown, callback,
           processor, late>>

\* The branches of tokio::select! but for those that change no state here: the
\* state update, the notification (module Notifications), the network check.
Kinds == {"topics", "gossip", "compare"}

LTypeOK ==
  /\ at \in Kinds \cup {"top", "select", "returned", "exited"}
  /\ running \in BOOLEAN /\ skip \in BOOLEAN /\ callback \in BOOLEAN
  /\ timer \in {"pending", "fired"}
  /\ topics \subseteq Ids /\ allocated \subseteq Open
  /\ shutdown \in {"waiting", "stopping", "done"}
  /\ processor \in {"receive", "handle", "ended"}
  /\ late \in Nat

-----------------------------------------------------------------------------
(* Topics *)

\* Mutant: a query that fails makes all topics fail.
TopicsOfQueries(active, syncing) ==
  IF active = {} THEN {} ELSE active \cup syncing \cup Static

\* Mutant: only the configured topics are returned.
StaticOnly(active, syncing) == IF Coverage = "None" THEN {} ELSE Static

\* generate_topics, of what active_allocation_hashes and
\* syncing_deployment_hashes return: nothing, if their query fails.
generate_topics(active, syncing) ==
  CASE Coverage = "None" -> {}
    [] Coverage = "Minimal" -> Static
    [] Coverage = "OnChain" -> active \cup Static
    [] Coverage = "Comprehensive" -> active \cup syncing \cup Static

\* The answers the two queries may give, failures included.
Answers == {allocated, {}} \X SUBSET Ids

GenerateTopics ==
  \E a \in Answers : topics' = generate_topics(a[1], a[2])

-----------------------------------------------------------------------------
\* main starts the processor, then run; new has generated the topics.
LInit ==
  /\ at = "top"
  /\ running = TRUE
  /\ skip = FALSE
  /\ timer = "pending"
  /\ allocated \in SUBSET Open
  /\ \E a \in Answers : topics = generate_topics(a[1], a[2])
  /\ shutdown = "waiting"
  /\ callback = TRUE
  /\ processor = "receive"
  /\ late = 0

\* The indexer opens and closes allocations.
Allocate ==
  /\ allocated' \in SUBSET Open
  /\ UNCHANGED <<at, running, skip, timer, topics, shutdown, callback, processor, late>>

-----------------------------------------------------------------------------
(* run *)

\* Mutant: the loop never ends.
LoopForever ==
  /\ at = "top"
  /\ at' = "select"
  /\ UNCHANGED <<running, skip, timer, topics, allocated, shutdown, callback,
                 processor, late>>

\* while running.load(..)
CheckRunning ==
  /\ at = "top"
  /\ at' = IF running THEN "select" ELSE "returned"
  /\ UNCHANGED <<running, skip, timer, topics, allocated, shutdown, callback,
                 processor, late>>

\* Mutant: skip_iteration is not reset.
SkipForever == UNCHANGED skip

ResetSkip == skip' = FALSE

\* A tick is due and selected.  The flag makes its branch `continue` at once.
Skip ==
  /\ at = "select"
  /\ skip
  /\ ResetSkip
  /\ at' = "top"
  /\ UNCHANGED <<running, timer, topics, allocated, shutdown, callback, processor, late>>

Begin(kind) ==
  /\ at = "select"
  /\ ~skip
  /\ at' = kind
  /\ late' = IF running THEN late ELSE late + 1
  /\ UNCHANGED <<running, skip, timer, topics, allocated, shutdown, callback,
                 processor>>

\* The body of the topic tick; its timeout drops generate_topics.
UpdateTopics ==
  /\ at = "topics"
  /\ GenerateTopics \/ UNCHANGED topics
  /\ at' = "top"
  /\ UNCHANGED <<running, skip, timer, allocated, shutdown, callback, processor, late>>

\* The end of the body of another tick.
End(kind) ==
  /\ at = kind
  /\ at' = "top"
  /\ UNCHANGED <<running, skip, timer, topics, allocated, shutdown, callback,
                 processor, late>>

\* The "separate thread to skip a main loop iteration" sleeps for
\* iteration_timeout once and is over: it watches no iteration.
Timer ==
  /\ timer = "pending"
  /\ timer' = "fired"
  /\ skip' = TRUE
  /\ UNCHANGED <<at, running, topics, allocated, shutdown, callback, processor, late>>

-----------------------------------------------------------------------------
(* shutdown *)

Signal ==
  /\ shutdown = "waiting"
  /\ at # "exited"
  /\ shutdown' = "stopping"
  /\ running' = FALSE
  /\ UNCHANGED <<at, skip, timer, topics, allocated, callback, processor,
                 late>>

\* Mutant: the callback is left in place.
StopServersOnly ==
  /\ shutdown = "stopping"
  /\ shutdown' = "done"
  /\ UNCHANGED <<at, running, skip, timer, topics, allocated, callback, processor, late>>

\* waku_set_event_callback(|_| {}) drops the callback that sends to the channel;
\* the two servers are told to stop.
StopListening ==
  /\ shutdown = "stopping"
  /\ shutdown' = "done"
  /\ callback' = FALSE
  /\ UNCHANGED <<at, running, skip, timer, topics, allocated, processor,
                 late>>

\* main returns, which shuts the runtime down: that cancels what awaits, but
\* waits for a task that runs or, as the processor in recv(), blocks its thread.
Exit ==
  /\ at = "returned"
  /\ shutdown # "stopping"
  /\ processor # "receive"
  /\ at' = "exited"
  /\ UNCHANGED <<running, skip, timer, topics, allocated, shutdown, callback,
                 processor, late>>

-----------------------------------------------------------------------------
(* message_processor *)

\* `for msg in receiver` blocks until there is a message: one that Waku's
\* callback sends, or, when it is gone, one of those it has sent before.
NextMessage ==
  /\ processor = "receive"
  /\ at # "exited"
  /\ processor' = "handle"
  /\ UNCHANGED <<at, running, skip, timer, topics, allocated, shutdown,
                 callback, late>>

\* It ends when the channel is empty and without a sender.
HangUp ==
  /\ processor = "receive"
  /\ at # "exited"
  /\ ~callback
  /\ processor' = "ended"
  /\ UNCHANGED <<at, running, skip, timer, topics, allocated, shutdown,
                 callback, late>>

\* process_message is over, or its ten seconds are.
Handled ==
  /\ processor = "handle"
  /\ at # "exited"
  /\ processor' = "receive"
  /\ UNCHANGED <<at, running, skip, timer, topics, allocated, shutdown,
                 callback, late>>

\* indexing_rules unwraps the answer of the indexer management server, in the
\* middle of an upgrade intent: the panic ends the task, and nobody starts it
\* again (module UpgradeIntents says when).
Panic ==
  /\ processor = "handle"
  /\ at # "exited"
  /\ processor' = "ended"
  /\ UNCHANGED <<at, running, skip, timer, topics, allocated, shutdown,
                 callback, late>>

\* The process dies and is started again.
Reboot ==
  /\ at' = "top"
  /\ running' = TRUE
  /\ skip' = FALSE
  /\ timer' = "pending"
  /\ GenerateTopics
  /\ shutdown' = "waiting"
  /\ callback' = TRUE
  /\ processor' = "receive"
  /\ late' = 0
  /\ UNCHANGED allocated

-----------------------------------------------------------------------------
Shutdown == Signal \/ StopListening \/ Exit

MessageStep == NextMessage \/ HangUp \/ Handled \/ Panic

LNext ==
  \/ Allocate \/ CheckRunning \/ Skip \/ UpdateTopics \/ Timer
  \/ \E kind \in Kinds : Begin(kind) \/ (kind # "topics" /\ End(kind))
  \/ Shutdown \/ MessageStep \/ Reboot

LSpec == LInit /\ [][LNext]_lvars

-----------------------------------------------------------------------------
(* Properties *)

\* The configured topics are topics of the agent at any time, whichever
\* queries fail or time out, except without coverage.
StaticStay == Coverage # "None" => Static \subseteq topics

\* "Finish the current running processes": after a signal at most one more tick
\* is handled, the one the loop was waiting for.
StopsSoon == late <= 1 /\ (late = 1 => ~running)
=============================================================================
