--------------------------- MODULE Notifications ---------------------------
(***************************************************************************)
(* From comparison results to notifications: process_comparison_results    *)
(* and the notification branch of RadioOperator::run, one database         *)
(* statement or webhook round per action.                                  *)
(*                                                                         *)
(* process_comparison_results is the one part of the comparison tick that  *)
(* runs under the timeout of the branch: at any await it may be dropped.   *)
(* The comparison itself is an environment here (Compare); module          *)
(* RadioOperator puts the real one in its place.                           *)
(***************************************************************************)
EXTENDS Integers, Sequences, SequencesExt

CONSTANTS
  Deployments,  \* deployment hashes
  Blocks,       \* block numbers
  Modes,        \* the values radio_setup.notification_mode may be given
  PersistentDb, \* TRUE: a database file is configured; FALSE: in memory
  MaxMishaps,   \* bound: failed statements and webhooks, and timeouts
  MaxCrashes,   \* bound: restarts
  MaxChanges    \* bound: changes per deployment; a negative one is none

ASSUME ModeAssumption ==
  Modes \subseteq {"live", "periodic-update", "periodic-report"}
ASSUME PersistentAssumption == PersistentDb \in BOOLEAN
ASSUME MishapAssumption == MaxMishaps \in Nat /\ MaxCrashes \in Nat

VARIABLES
  phase,    \* what the main loop is in the middle of
  outcome,  \* the Ok results not saved yet
  results,  \* rows of comparison_results, by deployment
  notes,    \* rows of notifications, by deployment (UNIQUE)
  mode,     \* radio_setup.notification_mode, as configured at the last start
  step,     \* where the current tick stands
  changes,  \* history: the changes of status worth a notification
  told,     \* history: what the webhooks were sent, by deployment
  mishaps,  \* history: failures and timeouts so far
  crashes   \* history: restarts so far

vars ==
  <<phase, outcome, results, notes, mode, step, changes, told, mishaps, crashes>>

ResultType == {"NotFound", "Divergent", "Match"}
Result == [block : Blocks, type : ResultType]
NoResult == [block |-> 0, type |-> "None"]
MaybeResult == Result \cup {NoResult}
Nothing == [d \in Deployments |-> NoResult]

Rest == [at |-> "rest"]
NextResult == [at |-> "next"]
StepType ==
  [at : {"rest", "next", "collect"}]
    \cup [at : {"save"}, of : Deployments, notify : BOOLEAN]
    \cup [at : {"note"}, of : Deployments, message : Result]
    \cup [at : {"notify", "clear"}, batch : [Deployments -> MaybeResult]]

\* Nothing of a tick goes on after it.
TypeOK ==
  /\ phase \in {"idle", "gossip", "compare", "results", "notify"}
  /\ outcome \in [Deployments -> MaybeResult]
  /\ results \in [Deployments -> MaybeResult]
  /\ notes \in [Deployments -> MaybeResult]
  /\ mode \in Modes
  /\ step \in StepType
  /\ changes \in [Deployments -> Seq(Result)]
  /\ told \in [Deployments -> Seq(Result)]
  /\ mishaps \in 0..MaxMishaps
  /\ crashes \in 0..MaxCrashes
  /\ phase \notin {"results", "notify"} => step = Rest

Init ==
  /\ phase = "idle"
  /\ outcome = Nothing
  /\ results = Nothing
  /\ notes = Nothing
  /\ mode \in Modes
  /\ step = Rest
  /\ changes = [d \in Deployments |-> <<>>]
  /\ told = [d \in Deployments |-> <<>>]
  /\ mishaps = 0
  /\ crashes = 0

Mishap ==
  /\ mishaps < MaxMishaps
  /\ mishaps' = mishaps + 1

-----------------------------------------------------------------------------
(* process_comparison_results *)

\* The comparison tick hands its results over.
Compare ==
  /\ phase = "idle"
  /\ \E S \in SUBSET {d \in Deployments : Len(changes[d]) # MaxChanges} :
       outcome' \in {o \in [Deployments -> MaybeResult] :
                       \A d \in Deployments : o[d] = NoResult <=> d \notin S}
  /\ phase' = "results"
  /\ UNCHANGED <<results, notes, step, changes, told, mishaps, crashes, mode>>

\* The future is polled for the first time.
Begin ==
  /\ phase = "results"
  /\ step = Rest
  /\ step' = NextResult
  /\ UNCHANGED <<phase, outcome, results, notes, changes, told, mishaps, crashes,
                 mode>>

\* Mutant: only the first result of a deployment is notified.
FirstOnly(old, new) == old.type = "None"

\* is_state_changed && !is_not_found_to_match of handle_comparison_result.
Notable(old, new) ==
  /\ old.type # new.type
  /\ ~(old.type = "NotFound" /\ new.type = "Match")

\* Mutant: the result read is not the one of the deployment handled.
ExistingOfAny(d) == results[CHOOSE o \in Deployments : TRUE]

\* get_comparison_results_by_deployment.
Existing(d) == results[d]

\* Mutant: a result is not used up by being handled.
KeepOutcome(d) == UNCHANGED outcome

\* The loop consumes the results.
Drop(d) == outcome' = [outcome EXCEPT ![d] = NoResult]

\* handle_comparison_result reads the existing result; a read that fails ends
\* the handling of this result, which is only counted.
ReadExisting(d) ==
  /\ step.at = "next"
  /\ outcome[d] # NoResult
  /\ \/ /\ step' = [at |-> "save", of |-> d,
                    notify |-> Notable(Existing(d), outcome[d])]
        /\ UNCHANGED <<outcome, mishaps>>
     \/ Mishap /\ Drop(d) /\ UNCHANGED step
  /\ UNCHANGED <<phase, results, notes, changes, told, crashes, mode>>

\* save_comparison_result: an upsert, so a row is always affected.
SaveResult(d) ==
  /\ step.at = "save"
  /\ step.of = d
  /\ results' = [results EXCEPT ![d] = outcome[d]]
  /\ Drop(d)
  /\ IF step.notify
     THEN /\ step' = [at |-> "note", of |-> d, message |-> outcome[d]]
          /\ changes' = [changes EXCEPT ![d] = Append(@, outcome[d])]
     ELSE step' = NextResult /\ UNCHANGED changes
  /\ UNCHANGED <<phase, notes, told, mishaps, crashes, mode>>

\* Mutant: an error of save_comparison_result is ignored.
SaveFailsUnnoticed(d) ==
  /\ step.at = "save"
  /\ step.of = d
  /\ Mishap
  /\ Drop(d)
  /\ step' = IF step.notify THEN [at |-> "note", of |-> d, message |-> outcome[d]]
             ELSE NextResult
  /\ UNCHANGED <<phase, results, notes, changes, told, crashes, mode>>

SaveFails(d) ==
  /\ step.at = "save"
  /\ step.of = d
  /\ Mishap
  /\ Drop(d)
  /\ step' = NextResult
  /\ UNCHANGED <<phase, results, notes, changes, told, crashes, mode>>

\* create_notification: a plain INSERT into a table that is UNIQUE in its
\* deployment, so that it fails while a message of the deployment is pending.
InsertNote(d, message) ==
  IF notes[d] = NoResult THEN [notes EXCEPT ![d] = message] ELSE notes

CreateNote ==
  /\ step.at = "note"
  /\ \/ /\ notes' = InsertNote(step.of, step.message)
        /\ UNCHANGED mishaps
     \/ Mishap /\ UNCHANGED notes
  /\ step' = NextResult
  /\ UNCHANGED <<phase, outcome, results, changes, told, crashes, mode>>

\* Mutant: the table is cleared before its messages are delivered.
ClearFirst(batch) == [at |-> "clear", batch |-> batch]

Deliver(batch) == [at |-> "notify", batch |-> batch]

\* get_notifications once every result is handled; only the live mode goes on.
CollectLive ==
  /\ step.at = "next"
  /\ outcome = Nothing
  /\ \/ /\ mode = "live" /\ notes # Nothing
        /\ step' = Deliver(notes)
        /\ UNCHANGED <<phase, mishaps>>
     \/ /\ mode # "live" \/ notes = Nothing
        /\ step' = Rest
        /\ phase' = "idle"
        /\ UNCHANGED mishaps
     \/ /\ Mishap
        /\ step' = Rest
        /\ phase' = "idle"
  /\ UNCHANGED <<outcome, results, notes, changes, told, crashes, mode>>

\* Mutant: the future goes on after the timeout.
TimeoutWithoutDrop ==
  /\ phase = "results"
  /\ Mishap
  /\ phase' = "idle"
  /\ UNCHANGED <<outcome, step, results, notes, changes, told, crashes, mode>>

\* The timeout around process_comparison_results drops it.
Timeout ==
  /\ phase = "results"
  /\ Mishap
  /\ phase' = "idle"
  /\ step' = Rest
  /\ outcome' = Nothing
  /\ UNCHANGED <<results, notes, changes, told, crashes, mode>>

-----------------------------------------------------------------------------
(* The notification tick *)

\* Mutant: the branches of the two periodic modes are swapped.
StartInOtherMode ==
  /\ phase = "idle"
  /\ mode = "periodic-report"
  /\ phase' = "notify"
  /\ step' = [at |-> "collect"]
  /\ UNCHANGED <<outcome, results, notes, changes, told, mishaps, crashes, mode>>

\* The branch of the mode periodic-update.  (The branch of periodic-report
\* sends a summary of the results and changes no state; live does nothing.)
StartUpdate ==
  /\ phase = "idle"
  /\ mode = "periodic-update"
  /\ phase' = "notify"
  /\ step' = [at |-> "collect"]
  /\ UNCHANGED <<outcome, results, notes, changes, told, mishaps, crashes, mode>>

CollectUpdate ==
  /\ step.at = "collect"
  /\ \/ /\ notes # Nothing
        /\ step' = Deliver(notes)
        /\ UNCHANGED <<phase, mishaps>>
     \/ /\ notes = Nothing
        /\ step' = Rest
        /\ phase' = "idle"
        /\ UNCHANGED mishaps
     \/ /\ Mishap
        /\ step' = Rest
        /\ phase' = "idle"
  /\ UNCHANGED <<outcome, results, notes, changes, told, crashes, mode>>

-----------------------------------------------------------------------------
(* Delivery, in either tick *)

\* Mutant: the messages stay in the table when they have been sent.
NotifyOnly ==
  /\ step.at = "notify"
  /\ \/ /\ told' = [d \in Deployments |->
                      IF step.batch[d] = NoResult THEN told[d]
                      ELSE Append(told[d], step.batch[d])]
        /\ UNCHANGED mishaps
     \/ Mishap /\ UNCHANGED told
  /\ step' = Rest
  /\ phase' = "idle"
  /\ UNCHANGED <<outcome, results, notes, changes, crashes, mode>>

\* Notifier::notify: webhooks that fail are only logged, so the caller goes on
\* to clear in any case.
Notify ==
  /\ step.at = "notify"
  /\ \/ /\ told' = [d \in Deployments |->
                      IF step.batch[d] = NoResult THEN told[d]
                      ELSE Append(told[d], step.batch[d])]
        /\ UNCHANGED mishaps
     \/ Mishap /\ UNCHANGED told
  /\ step' = [step EXCEPT !.at = "clear"]
  /\ UNCHANGED <<phase, outcome, results, notes, changes, crashes, mode>>

\* clear_all_notifications.
Clear ==
  /\ step.at = "clear"
  /\ \/ notes' = Nothing /\ UNCHANGED mishaps
     \/ Mishap /\ UNCHANGED notes
  /\ step' = Rest
  /\ phase' = "idle"
  /\ UNCHANGED <<outcome, results, changes, told, crashes, mode>>

\* The process dies and starts again, on the same database file if any, and
\* with the same configuration or with another mode.
Restart ==
  /\ crashes < MaxCrashes
  /\ crashes' = crashes + 1
  /\ mode' \in Modes
  /\ phase' = "idle"
  /\ outcome' = Nothing
  /\ step' = Rest
  /\ IF PersistentDb
     THEN UNCHANGED <<results, notes>>
     ELSE results' = Nothing /\ notes' = Nothing
  /\ UNCHANGED <<changes, told, mishaps>>

ResultStep ==
  \/ Begin \/ CreateNote \/ CollectLive
  \/ \E d \in Deployments : ReadExisting(d) \/ SaveResult(d) \/ SaveFails(d)

DeliveryStep == CollectUpdate \/ Notify \/ Clear

Next ==
  Compare \/ ResultStep \/ Timeout \/ StartUpdate \/ DeliveryStep \/ Restart

Spec == Init /\ [][Next]_vars

\* Every statement and webhook returns or fails, and no tick of the loop is
\* passed over forever.
Fairness ==
  /\ SF_vars(Compare) /\ SF_vars(StartUpdate)
  /\ WF_vars(ResultStep) /\ WF_vars(DeliveryStep)

FairSpec == Spec /\ Fairness

-----------------------------------------------------------------------------
(* Properties *)

\* No false alarm: whatever was delivered about a deployment, or waits to be,
\* is a change of its status that was saved before, with failures, timeouts and
\* restarts between any two statements.
ToldIsAChange ==
  \A d \in Deployments :
    /\ ToSet(told[d]) \subseteq ToSet(changes[d])
    /\ notes[d] # NoResult => notes[d] \in ToSet(changes[d])

\* Whether to notify is decided on a result that was read before the new one is
\* saved; at the save the decision is still right, so that a result of the same
\* type, and a Match after NotFound, never count as changes, and others do.
DecisionNotStale ==
  [][ \A d \in Deployments :
        results'[d] # results[d] /\ results'[d] # NoResult =>
          (changes'[d] # changes[d] <=> Notable(results[d], results'[d])) ]_vars

\* As long as nothing fails or times out, a message only leaves the table after
\* it was the last thing delivered about its deployment.
NothingClearedUntold ==
  [][ \A d \in Deployments :
        /\ mishaps' = 0 /\ crashes' = crashes
        /\ notes[d] # NoResult /\ notes'[d] = NoResult
        => told[d] # <<>> /\ Last(told[d]) = notes[d] ]_vars

\* A delivery brings the operator up to date: what was told last about each
\* deployment is its last change (without failures, timeouts and restarts).
DeliveryIsUpToDate ==
  step.at = "clear" /\ mishaps = 0 /\ crashes = 0 =>
    \A d \in Deployments :
      changes[d] # <<>> => told[d] # <<>> /\ Last(told[d]) = Last(changes[d])

\* In the modes live and periodic-update a message does not wait forever, nor
\* does it block the later ones of its deployment forever: not even a message
\* a restart, in the other mode perhaps, or a timeout has left behind.
NotesDrain ==
  \A d \in Deployments : notes[d] # NoResult ~> notes[d] = NoResult

\* In the mode live, a divergence that a comparison finds reaches the operator,
\* and is the last word until then, unless a statement or webhook fails, the
\* results time out, or the process is restarted.
DivergenceReachesOperator ==
  \A d \in Deployments :
    outcome[d].type = "Divergent"
      ~> \/ told[d] # <<>> /\ Last(told[d]).type = "Divergent"
         \/ mishaps > 0 \/ crashes > 0

\* In the mode live, without failures, timeouts and restarts, every change is
\* announced exactly once, in order, before the status changes again.
Log == INSTANCE ChangeLog WITH
  status <- results, noted <- changes, announced <- told
LiveKeepsPromise == Log!Spec
=============================================================================
