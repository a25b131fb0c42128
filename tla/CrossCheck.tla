----------------------------- MODULE CrossCheck -----------------------------
(***************************************************************************)
(* The cross-checking of proofs of indexing: the gossip tick publishes the *)
(* local POI of the message block and keeps it in the database, the        *)
(* message processor stores what other indexers publish, and the           *)
(* comparison tick judges the oldest comparable block of each deployment   *)
(* and deletes the evidence.                                               *)
(*                                                                         *)
(* The main loop of RadioOperator::run handles one tick at a time          *)
(* (`phase`), but a tick spawns one task per deployment (`task`), and the  *)
(* message processor is another task still: the actions below are the      *)
(* stretches of those tasks between two awaits that other tasks can see,   *)
(* that is, at most one database statement, query or publication each.     *)
(* The process may stop and start again between any two of them, keeping   *)
(* only what a database file keeps.                                        *)
(*                                                                         *)
(* What becomes of the results is coarse here (RecordResult, EndResults):  *)
(* module RadioOperator refines it.                                        *)
(***************************************************************************)
EXTENDS Attestations, TextOrder, FiniteSets

CONSTANTS
  Deployments,   \* deployment hashes, the topics of the radio
  Blocks,        \* block numbers of the (one) indexed network
  CollectWindow, \* radio_setup.collect_message_duration
  PersistentDb,  \* TRUE: a database file is configured; FALSE: in memory
  MaxClock,      \* bound: no gossip tick runs later
  MaxRowid,      \* bound: rowids of the messages of a deployment
  MaxFaults,     \* bound: queries and statements that fail
  MaxCrashes     \* bound: restarts

ASSUME BlocksAssumption == Blocks \subseteq Nat /\ 0 \notin Blocks
ASSUME WindowAssumption == CollectWindow \in Nat
ASSUME DbAssumption == PersistentDb \in BOOLEAN
ASSUME BoundAssumption ==
  /\ MaxClock \in Nat /\ MaxRowid \in Nat /\ MaxFaults \in Nat
  /\ MaxCrashes \in Nat

VARIABLES
  clock,      \* Utc::now().timestamp()
  head,       \* deployment -> message block of its network
  phase,      \* what the main loop is in the middle of
  task,       \* deployment -> the task the current tick spawned for it
  local,      \* rows of local_attestations
  remote,     \* rows of remote_ppoi_messages
  outcome,    \* the Ok results of the current comparison tick
  results,    \* rows of comparison_results
  published,  \* history: blocks a message was published for
  faults,     \* history: failures so far
  crashes     \* history: restarts so far

vars == <<clock, head, phase, task, local, remote, outcome, results,
          published, faults, crashes>>

\* Message rows carry SQLite's rowid: a SELECT returns them in its order.
Message ==
  [rowid : Nat, sender : Senders, block : Blocks, ppoi : Ppois, nonce : Nat]
Row == [block : Blocks, ppoi : Ppois, time : Nat]
Result == [block : Blocks, type : ResultType]
NoResult == [block |-> 0, type |-> "None"]
Unsynced == 0

\* The stages of send_poi_message and of poi_message_comparison with the
\* cleaning that follows it, each with the locals that are live there.
Idle == [stage |-> "idle"]
GossipTask ==
  [stage : {"check", "send"}, block : Blocks] \cup [stage : {"save"}, row : Row]
CompareTask ==
  [stage : {"point"}]
    \cup [stage : {"read"}, block : Blocks, end : Nat]
    \cup [stage : {"judge"}, block : Blocks, heard : SUBSET Message]
    \cup [stage : {"join", "clean"}, block : Blocks]

NoOutcome == [d \in Deployments |-> NoResult]
AllIdle == [d \in Deployments |-> Idle]

\* A tick awaits every task it spawns, so that a task belongs to the tick under
\* way, and leaves results only for process_comparison_results.
TypeOK ==
  /\ clock \in Nat
  /\ head \in [Deployments -> Blocks]
  /\ phase \in {"idle", "gossip", "compare", "results"}
  /\ task \in [Deployments -> {Idle} \cup GossipTask \cup CompareTask]
  /\ local \in [Deployments -> SUBSET Row]
  /\ remote \in [Deployments -> SUBSET Message]
  /\ outcome \in [Deployments -> Result \cup {NoResult}]
  /\ results \in [Deployments -> Result \cup {NoResult}]
  /\ published \in [Deployments -> SUBSET Blocks]
  /\ faults \in 0..MaxFaults
  /\ crashes \in 0..MaxCrashes
  /\ phase = "gossip" => \A d \in Deployments : task[d] \in {Idle} \cup GossipTask
  /\ phase = "compare" => \A d \in Deployments : task[d] \in {Idle} \cup CompareTask
  /\ phase \in {"idle", "results"} => task = AllIdle
  /\ phase \in {"idle", "gossip"} => outcome = NoOutcome

Init ==
  /\ clock = 0
  /\ head \in [Deployments -> Blocks]
  /\ phase = "idle"
  /\ task = AllIdle
  /\ local = [d \in Deployments |-> {}]
  /\ remote = [d \in Deployments |-> {}]
  /\ outcome = NoOutcome
  /\ results = NoOutcome
  /\ published = [d \in Deployments |-> {}]
  /\ faults = 0
  /\ crashes = 0

Goto(d, t) == task' = [task EXCEPT ![d] = t]

Fault ==
  /\ faults < MaxFaults
  /\ faults' = faults + 1

-----------------------------------------------------------------------------
(* The environment: time, chains, and other indexers *)

\* Time passes.  After MaxClock no gossip tick is under way any more, and time
\* goes on until every window is over.
Tick ==
  /\ \/ clock < MaxClock
     \/ clock < MaxClock + CollectWindow /\ phase # "gossip"
  /\ clock' = clock + 1
  /\ UNCHANGED <<head, phase, task, local, remote, outcome, results,
                 published, faults, crashes>>

\* The chain grows, and with it the block all indexers send a message for.
AdvanceHead(d) ==
  /\ \E b \in Blocks : b > head[d] /\ head' = [head EXCEPT ![d] = b]
  /\ UNCHANGED <<clock, phase, task, local, remote, outcome, results,
                 published, faults, crashes>>

\* SQLite gives a new row the rowid after the largest in the table.
IsNextRowid(d, i) ==
  /\ \A m \in remote[d] : m.rowid < i
  /\ i = 1 \/ \E m \in remote[d] : m.rowid = i - 1

\* process_message up to insert_remote_ppoi_message: one statement at its end.
\* Which messages pass check_message_validity and validity_check is decided
\* elsewhere: any message that was made by now may, late ones included.  A
\* message that fails, or whose insertion fails or times out, leaves no trace.
Receive(d) ==
  /\ \E i \in 1..MaxRowid, s \in Senders, b \in Blocks, x \in Ppois, n \in 0..clock :
       /\ IsNextRowid(d, i)
       /\ remote' = [remote EXCEPT ![d] = @ \cup
            {[rowid |-> i, sender |-> s, block |-> b, ppoi |-> x, nonce |-> n]}]
  /\ UNCHANGED <<clock, head, phase, task, local, outcome, results,
                 published, faults, crashes>>

-----------------------------------------------------------------------------
(* The gossip tick *)

\* gossip_poi spawns a task for each deployment that has synced to the message
\* block; Unsynced stands for one whose status gossip_set_up cannot tell, or
\* that is no topic of the agent now.
StartGossip ==
  /\ phase = "idle"
  /\ clock <= MaxClock
  /\ phase' = "gossip"
  /\ \E latest \in [Deployments -> Blocks \cup {Unsynced}] :
       task' = [d \in Deployments |->
                  IF latest[d] < head[d] THEN Idle
                  ELSE [stage |-> "check", block |-> head[d]]]
  /\ UNCHANGED <<clock, head, local, remote, outcome, results, published,
                 faults, crashes>>

RowsAt(d, b) == {r \in local[d] : r.block = b}

\* Mutant: the check for a message already sent is forgotten.
NeverSent(d, b) == FALSE

\* get_local_attestation finds a row for the block.
AlreadySent(d, b) == RowsAt(d, b) # {}

\* `if let Ok(Some(_)) = get_local_attestation(..)`: a failing read goes on to
\* send as if there were no row.
CheckDuplicate(d) ==
  /\ task[d].stage = "check"
  /\ \/ /\ AlreadySent(d, task[d].block)
        /\ Goto(d, Idle)
        /\ UNCHANGED faults
     \/ /\ ~AlreadySent(d, task[d].block)
        /\ Goto(d, [stage |-> "send", block |-> task[d].block])
        /\ UNCHANGED faults
     \/ /\ Fault
        /\ Goto(d, [stage |-> "send", block |-> task[d].block])
  /\ UNCHANGED <<clock, head, phase, local, remote, outcome, results,
                 published, crashes>>

\* Mutant: the attestation is saved although the agent could not send it.
SendOrSave(d) ==
  /\ task[d].stage = "send"
  /\ \E x \in Ppois :
       Goto(d, [stage |-> "save",
                row |-> [block |-> task[d].block, ppoi |-> x, time |-> clock]])
  /\ \/ published' = [published EXCEPT ![d] = @ \cup {task[d].block}]
     \/ UNCHANGED published
  /\ UNCHANGED <<clock, head, phase, local, remote, outcome, results, faults,
                 crashes>>

\* block_hash, query_poi and send_message: any of them may fail, or the
\* message is published with the current time as its nonce.
SendPoi(d) ==
  /\ task[d].stage = "send"
  /\ \/ /\ \E x \in Ppois :
             Goto(d, [stage |-> "save",
                      row |-> [block |-> task[d].block, ppoi |-> x,
                               time |-> clock]])
        /\ published' = [published EXCEPT ![d] = @ \cup {task[d].block}]
        /\ UNCHANGED faults
     \/ /\ Fault
        /\ Goto(d, Idle)
        /\ UNCHANGED published
  /\ UNCHANGED <<clock, head, phase, local, remote, outcome, results, crashes>>

\* insert_local_attestation, which UNIQUE(block_number, identifier, ppoi) makes
\* fail when the same POI is already there.
SaveLocal(d) ==
  LET row == task[d].row IN
  /\ task[d].stage = "save"
  /\ \/ /\ \A r \in RowsAt(d, row.block) : r.ppoi # row.ppoi
        /\ local' = [local EXCEPT ![d] = @ \cup {row}]
        /\ UNCHANGED faults
     \/ /\ \E r \in RowsAt(d, row.block) : r.ppoi = row.ppoi
        /\ UNCHANGED <<local, faults>>
     \/ Fault /\ UNCHANGED local
  /\ Goto(d, Idle)
  /\ UNCHANGED <<clock, head, phase, remote, outcome, results, published,
                 crashes>>

\* Mutant: the tasks of gossip_poi are not awaited.
EndGossipEarly ==
  /\ phase = "gossip"
  /\ phase' = "idle"
  /\ UNCHANGED <<clock, head, task, local, remote, outcome, results,
                 published, faults, crashes>>

EndGossip ==
  /\ phase = "gossip"
  /\ \A d \in Deployments : task[d] = Idle
  /\ phase' = "idle"
  /\ UNCHANGED <<clock, head, task, local, remote, outcome, results,
                 published, faults, crashes>>

-----------------------------------------------------------------------------
(* The comparison tick *)

\* compare_poi spawns a task for each of the agent's content identifiers, which
\* the topic tick may have changed since the last time (module MainLoop); none,
\* too, if indexing_statuses fails and the tick goes no further.
CompareOf(ids) ==
  /\ phase = "idle"
  /\ phase' = "compare"
  /\ task' = [d \in Deployments |->
               IF d \in ids THEN [stage |-> "point"] ELSE Idle]
  /\ UNCHANGED <<clock, head, local, remote, outcome, results, published,
                 faults, crashes>>

StartCompare == \E ids \in SUBSET Deployments : CompareOf(ids)

Answered(d) ==
  {r \in local[d] : \E m \in remote[d] : m.block = r.block}

\* local_comparison_point: the oldest block with a local row and some message.
ComparisonPoint(d) ==
  CHOOSE r \in Answered(d) : \A o \in Answered(d) :
    \/ r.block < o.block
    \/ r.block = o.block /\ r.time <= o.time

\* The first part of poi_message_comparison: NoComparisonPoint, CompareTrigger
\* (the window is still open), a failing read, or a point to compare at.  The
\* clock, the rows and the messages are read in one step: in a comparison tick
\* nobody else changes the rows of d, and the other two only grow.
ChoosePoint(d) ==
  LET end == ComparisonPoint(d).time + CollectWindow IN
  /\ task[d].stage = "point"
  /\ \/ /\ \/ Answered(d) = {}
           \/ Answered(d) # {} /\ clock < end
        /\ Goto(d, Idle)
        /\ UNCHANGED faults
     \/ /\ Answered(d) # {}
        /\ clock >= end
        /\ Goto(d, [stage |-> "read", block |-> ComparisonPoint(d).block,
                    end |-> end])
        /\ UNCHANGED faults
     \/ Fault /\ Goto(d, Idle)
  /\ UNCHANGED <<clock, head, phase, local, remote, outcome, results,
                 published, crashes>>

\* Mutant: a message made at the end of the window is too late.
HeardBefore(d, b, end) ==
  {m \in remote[d] : m.block = b /\ m.nonce < end}

\* Mutant: late messages are not filtered out.
HeardAnytime(d, b, end) ==
  {m \in remote[d] : m.block = b}

\* The messages that count: made for the block, before the window closed.
Heard(d, b, end) ==
  {m \in remote[d] : m.block = b /\ m.nonce <= end}

\* The messages are read again, and the stake of each sender is queried; one
\* query that fails gives the comparison up.
ReadRemote(d) ==
  /\ task[d].stage = "read"
  /\ \/ /\ Goto(d, [stage |-> "judge", block |-> task[d].block,
                    heard |-> Heard(d, task[d].block, task[d].end)])
        /\ UNCHANGED faults
     \/ Fault /\ Goto(d, Idle)
  /\ UNCHANGED <<clock, head, phase, local, remote, outcome, results,
                 published, crashes>>

RowPlace(msgs, m) == Cardinality({n \in msgs : n.rowid < m.rowid}) + 1

\* The order of the rowids.
InRowOrder(msgs) ==
  [k \in 1..Cardinality(msgs) |-> CHOOSE m \in msgs : RowPlace(msgs, m) = k]

Verdict(ppoi, msgs) ==
  compare_attestations(ppoi, process_ppoi_message(InRowOrder(msgs)))

\* The local row is read again (fetch_optional: any one of them), which must
\* still be there, and compared.
Judge(d) ==
  LET b == task[d].block IN
  /\ task[d].stage = "judge"
  /\ \/ /\ \E r \in RowsAt(d, b) :
             outcome' = [outcome EXCEPT ![d] =
               [block |-> b, type |-> Verdict(r.ppoi, task[d].heard)]]
        /\ Goto(d, [stage |-> "join", block |-> b])
        /\ UNCHANGED faults
     \/ /\ RowsAt(d, b) = {}
        /\ Goto(d, Idle)
        /\ UNCHANGED <<outcome, faults>>
     \/ Fault /\ Goto(d, Idle) /\ UNCHANGED outcome
  /\ UNCHANGED <<clock, head, phase, local, remote, results, published,
                 crashes>>

\* Mutants: only the compared block is outdated; or all before it are.
OnlyThatBlock(b, compared) == b = compared
OnlyOlderBlocks(b, compared) == b # compared /\ TextLe(b, compared)

\* Mutant: the block is missing from the WHERE clause.
EveryBlock(b, compared) == TRUE

\* `block_number <= ?` in both cleaning statements: a comparison of texts.
Outdated(b, compared) == TextLe(b, compared)

\* Mutant: the identifier is missing from the WHERE clause.
DeleteEverywhere(d, b) ==
  [o \in Deployments |-> {r \in local[o] : ~Outdated(r.block, b)}]

\* delete_outdated_local_attestations.
DeleteLocal(d, b) ==
  [local EXCEPT ![d] = {r \in @ : ~Outdated(r.block, b)}]

\* compare_poi joins its tasks one after the other and cleans up after each
\* that returned Ok; the order of the identifiers is arbitrary.  Cleaning takes
\* two statements, and the second is skipped if the first fails.
CleanLocal(d) ==
  /\ task[d].stage = "join"
  /\ \A o \in Deployments : task[o].stage # "clean"
  /\ \/ /\ local' = DeleteLocal(d, task[d].block)
        /\ Goto(d, [stage |-> "clean", block |-> task[d].block])
        /\ UNCHANGED faults
     \/ Fault /\ Goto(d, Idle) /\ UNCHANGED local
  /\ UNCHANGED <<clock, head, phase, remote, outcome, results, published,
                 crashes>>

\* Mutant: the identifier is missing from the WHERE clause.
DeleteRemoteEverywhere(d, b) ==
  [o \in Deployments |-> {m \in remote[o] : ~Outdated(m.block, b)}]

\* clean_remote_ppoi_messages.
DeleteRemote(d, b) ==
  [remote EXCEPT ![d] = {m \in @ : ~Outdated(m.block, b)}]

CleanRemote(d) ==
  /\ task[d].stage = "clean"
  /\ \/ /\ remote' = DeleteRemote(d, task[d].block)
        /\ UNCHANGED faults
     \/ Fault /\ UNCHANGED remote
  /\ Goto(d, Idle)
  /\ UNCHANGED <<clock, head, phase, local, outcome, results, published,
                 crashes>>

\* Mutant: the tasks of compare_poi are not awaited.
EndCompareEarly ==
  /\ phase = "compare"
  /\ phase' = "results"
  /\ UNCHANGED <<clock, head, task, local, remote, outcome, results,
                 published, faults, crashes>>

EndCompare ==
  /\ phase = "compare"
  /\ \A d \in Deployments : task[d] = Idle
  /\ phase' = "results"
  /\ UNCHANGED <<clock, head, task, local, remote, outcome, results,
                 published, faults, crashes>>

\* process_comparison_results, seen from here: it saves one result after the
\* other, the last one of each deployment replacing the one before.
RecordResult(d) ==
  /\ phase = "results"
  /\ outcome[d] # NoResult
  /\ results' = [results EXCEPT ![d] = outcome[d]]
  /\ outcome' = [outcome EXCEPT ![d] = NoResult]
  /\ UNCHANGED <<clock, head, phase, task, local, remote, published, faults,
                 crashes>>

\* Reading or writing the database fails for a result: it is only counted.
LoseResult(d) ==
  /\ phase = "results"
  /\ outcome[d] # NoResult
  /\ outcome' = [outcome EXCEPT ![d] = NoResult]
  /\ UNCHANGED <<clock, head, phase, task, local, remote, results, published,
                 faults, crashes>>

\* It is over, or its timeout has dropped it, and results not saved are lost.
EndResults ==
  /\ phase = "results"
  /\ phase' = "idle"
  /\ outcome' = NoOutcome
  /\ UNCHANGED <<clock, head, task, local, remote, results, published, faults,
                 crashes>>

-----------------------------------------------------------------------------
\* The process dies and is started again.
Restart ==
  /\ crashes < MaxCrashes
  /\ crashes' = crashes + 1
  /\ phase' = "idle"
  /\ task' = AllIdle
  /\ outcome' = NoOutcome
  /\ IF PersistentDb
     THEN UNCHANGED <<local, remote, results>>
     ELSE /\ local' = [d \in Deployments |-> {}]
          /\ remote' = [d \in Deployments |-> {}]
          /\ results' = NoOutcome
  /\ UNCHANGED <<clock, head, published, faults>>

GossipStep(d) == CheckDuplicate(d) \/ SendPoi(d) \/ SaveLocal(d)

CompareStep(d) ==
  \/ ChoosePoint(d) \/ ReadRemote(d) \/ Judge(d) \/ CleanLocal(d)
  \/ CleanRemote(d)

LoopStep ==
  \/ StartGossip \/ EndGossip \/ StartCompare \/ EndCompare \/ EndResults

Next ==
  \/ Tick
  \/ LoopStep
  \/ Restart
  \/ \E d \in Deployments :
       AdvanceHead(d) \/ Receive(d) \/ GossipStep(d) \/ CompareStep(d)
         \/ RecordResult(d) \/ LoseResult(d)

Spec == Init /\ [][Next]_vars

-----------------------------------------------------------------------------
(* Properties *)

SameWidth == \A a, b \in Blocks : Width(a) = Width(b)

\* As long as no query fails, at most one row is kept for a block, although
\* the table's UNIQUE constraint allows one per POI: get_local_attestation
\* fetches "the" row of a block.
OneRowPerBlock ==
  faults = 0 => \A d \in Deployments : \A r1, r2 \in local[d] :
                  r1.block = r2.block => r1 = r2

\* poi_message_comparison reads the local row twice with network queries in
\* between; the second read always finds the block chosen at the first, so
\* "Local attestation record not found" is never returned.
RowStaysUntilJudged ==
  \A d \in Deployments :
    task[d].stage \in {"read", "judge"} => RowsAt(d, task[d].block) # {}

\* Messages keep arriving between the read of the messages and the clean-up,
\* which deletes them unread.  The only ones it may cost are those: every
\* message of the block that was made within the window and is not counted
\* came after all the counted ones.
OnlyLatecomersUncounted ==
  \A d \in Deployments :
    task[d].stage = "judge" =>
      \E r \in RowsAt(d, task[d].block) : \A m \in remote[d] :
        /\ m.block = task[d].block
        /\ m.nonce <= r.time + CollectWindow
        /\ m \notin task[d].heard
        => \A h \in task[d].heard : h.rowid < m.rowid

\* A verdict says what was said: it is there only once the window that opened
\* with a local row is over, and as long as its evidence is kept, there is a
\* message of the block, made within that window, that agrees with the local row
\* when it is Match and one that does not when it is Divergent, whatever comes
\* in while the messages are read and judged.  NotFound means that the block was
\* answered too late: a message made after the window is there, and whatever was
\* made within it has come after that one.
VerdictHasEvidence ==
  \A d \in Deployments :
    task[d].stage = "join" =>
      LET b == task[d].block
          verdict == outcome[d].type
      IN \E r, o \in RowsAt(d, b) :
           LET end == o.time + CollectWindow
               said == {m \in remote[d] : m.block = b}
               made == {m \in said : m.nonce <= end}
           IN /\ clock >= end
              /\ verdict = "Match" => \E m \in made : m.ppoi = r.ppoi
              /\ verdict = "Divergent" => \E m \in made : m.ppoi # r.ppoi
              /\ verdict = "NotFound" =>
                   \E l \in said \ made : \A m \in made : l.rowid < m.rowid

\* The evidence about a deployment is deleted only when a verdict of that
\* deployment waits to be saved, and never that about a newer block, whichever
\* tasks run beside it.
EvidenceGoesWithVerdict ==
  [][ crashes' = crashes =>
        \A d \in Deployments :
          \A r \in (local[d] \ local'[d]) \cup (remote[d] \ remote'[d]) :
            outcome[d] # NoResult /\ r.block <= outcome[d].block ]_vars

\* Rows that nobody answers accumulate, but only until a newer block has been
\* judged: as long as nothing has failed, no row of the judged block or of an
\* older one is left when the verdicts of the tick are handled.
NothingJudgedIsKept ==
  phase = "results" /\ faults = 0 =>
    \A d \in Deployments : \A r \in local[d] :
      outcome[d] # NoResult => outcome[d].block < r.block

\* What is kept as a verdict was published first: a block is judged only after
\* this indexer has told the others its own POI for it.
JudgedWasPublished ==
  \A d \in Deployments :
    /\ \A r \in local[d] : r.block \in published[d]
    /\ results[d] # NoResult => results[d].block \in published[d]

\* The result of a deployment is never replaced by one of an older block, with
\* restarts anywhere, late messages and comparisons repeated.  (A failing
\* statement may leave an old row behind, which can then be compared late.)
ResultNeverOlder ==
  [][ \A d \in Deployments :
        faults' = 0 /\ results'[d] # NoResult
          => results[d].block <= results'[d].block ]_vars

\* "Message has already been sent": no block is published twice.
SendOncePerBlock ==
  [][ \A d \in Deployments :
        task[d].stage = "send" /\ task'[d].stage = "save"
          => task[d].block \notin published[d] ]_vars
=============================================================================
