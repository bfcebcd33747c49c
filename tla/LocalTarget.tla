----------------------------- MODULE LocalTarget -----------------------------
(***************************************************************************)
(* A target run as a child process (_LocalTargetInvoker of sdk/src/ul/     *)
(* local_target.py) and the worker at the other end of its pipes           *)
(* (_local_worker.py, or the customer's own command).                      *)
(*                                                                         *)
(* The invoker keeps one worker alive across invocations, starts a session *)
(* when the session changes, and exchanges one line for one line.  It asks *)
(* a worker that failed it to stop (SIGTERM to its process group), waits,  *)
(* and then kills the group.  A worker may die by itself, start a helper   *)
(* process in its group, hang, answer twice or flood its standard error.   *)
(*                                                                         *)
(* One action is what the invoker does between two awaits, or less.        *)
(***************************************************************************)
EXTENDS Naturals, Sequences, FiniteSets

CONSTANTS
    Requests,       \* bound: invocations of one behaviour
    SessionOf,      \* the session each of them belongs to
    MaxExecutions,  \* limits.max_executions
    TotalTime,      \* limits.total_execution_timeout_seconds, in turns
    MaxCancels,     \* bound: cancellations
    MaxFaults       \* bound: faults of the workers and of spawning them; helpers

ASSUME LimitsAreNat ==
    {Requests, MaxExecutions, TotalTime, MaxCancels, MaxFaults} \subseteq Nat

NoSession == "none"
Sessions == {SessionOf[r] : r \in 1 .. Requests}
ASSUME SessionsAreNamed == DOMAIN SessionOf = 1 .. Requests /\ NoSession \notin Sessions

NoWorker == 0
Worker == 1 .. Requests         \* an invocation starts at most one

VARIABLES
    process,        \* _process
    active,         \* _active_session_id
    attempts,       \* _worker_attempt
    executions,     \* _execution_count
    spent,          \* _consumed_execution_seconds
    overflow,       \* _stderr_overflow
    drains,         \* workers whose _drain_stderr task is running
    invoker,        \* where invoke() or aclose() awaits
    results,        \* how each invocation ended
    leader,         \* leader[w]: the child process
    helper,         \* helper[w]: a process of its group
    reaped,         \* workers whose return code is known
    worker,         \* worker[w]: its session and its pipes
    executed,       \* the invocations that workers ran
    cancels, faults \* (bounds) so far

counters == <<attempts, executions, spent>>
processes == <<leader, helper, reaped>>
vars == <<process, active, counters, overflow, drains, invoker, results, processes,
          worker, executed, cancels, faults>>

Alive == process # NoWorker /\ process \notin reaped

\* No one reads or writes the pipes of w any more.
Gone(w) == leader[w] # "up" /\ leader[w] # "stopping" /\ helper[w] # "up"

Free == [stage |-> "idle", message |-> <<"none", 0, NoSession>>, request |-> 0,
         old |-> NoWorker, result |-> "none", doubt |-> FALSE]

Fresh == [session |-> NoSession, stdin |-> <<>>, stdout |-> <<>>]

Init ==
    /\ process = NoWorker /\ active = NoSession
    /\ attempts = 0 /\ executions = 0 /\ spent = 0
    /\ overflow = FALSE /\ drains = {}
    /\ invoker = Free /\ results = <<>>
    /\ leader = [w \in Worker |-> "absent"] /\ helper = [w \in Worker |-> "absent"]
    /\ reaped = {}
    /\ worker = [w \in Worker |-> Fresh]
    /\ executed = {} /\ cancels = 0 /\ faults = 0

(***************************************************************************)
(* Stopping a worker.                                                      *)
(***************************************************************************)
\* Each process of the group may ignore SIGTERM.
Terminated(w) ==
    /\ leader' = [leader EXCEPT ![w] = IF @ = "up" THEN "stopping" ELSE @]
    /\ helper' \in {helper, [helper EXCEPT ![w] = IF @ = "up" THEN "down" ELSE @]}

Killed(w) ==
    /\ leader' = [leader EXCEPT ![w] = "down"]
    /\ helper' = [helper EXCEPT ![w] = IF @ = "up" THEN "down" ELSE @]

\* The end of invoke() or aclose(), with what it returns or raises.
Settle(result, doubt) ==
    IF invoker.message[1] = "shutdown"
    THEN invoker' = [Free EXCEPT !.stage = "closed"] /\ UNCHANGED results
    ELSE /\ invoker' = Free
         /\ results' = Append(results, [status |-> result, doubt |-> doubt,
                                        worker |-> process])

\* _terminate: the process is forgotten before it is asked to stop, and
\* nothing is signalled once its return code is known.
Terminate(result, doubt) ==
    /\ process' = NoWorker /\ active' = NoSession
    /\ IF Alive
       THEN /\ Terminated(process)
            /\ invoker' = [invoker EXCEPT !.stage = "stopping", !.old = process,
                                          !.result = result, !.doubt = doubt]
            /\ UNCHANGED <<results, drains>>
       ELSE /\ Settle(result, doubt)
            /\ drains' = drains \ {process}
            /\ UNCHANGED <<leader, helper>>

Stopped ==
    /\ invoker.stage = "stopping"
    /\ IF invoker.old \in reaped THEN UNCHANGED <<leader, helper>> ELSE Killed(invoker.old)
    /\ Settle(invoker.result, invoker.doubt)
    /\ drains' = drains \ {invoker.old}
    /\ worker' = [worker EXCEPT ![invoker.old] = Fresh]
    /\ UNCHANGED <<process, active, counters, overflow, reaped, executed, cancels, faults>>

(***************************************************************************)
(* invoke(): the execution limit, a live worker, its session, and then the *)
(* invocation itself.                                                      *)
(***************************************************************************)
Begin ==
    /\ invoker.stage = "idle" /\ Len(results) < Requests
    /\ LET r == Len(results) + 1
           type == IF active = SessionOf[r] THEN "invoke" ELSE "session"
       IN IF executions >= MaxExecutions
          THEN /\ results' = Append(results, [status |-> "refused", doubt |-> FALSE,
                                              worker |-> NoWorker])
               /\ UNCHANGED invoker
          ELSE /\ invoker' = [Free EXCEPT !.stage = IF Alive THEN "sending" ELSE "spawning",
                                          !.message = <<type, r, SessionOf[r]>>, !.request = r]
               /\ UNCHANGED results
    /\ UNCHANGED <<process, active, counters, overflow, drains, processes, worker, executed,
                   cancels, faults>>

\* aclose() of a connection that has a process.
Close ==
    /\ invoker.stage = "idle"
    /\ invoker' = IF process = NoWorker THEN [Free EXCEPT !.stage = "closed"]
                  ELSE [Free EXCEPT !.stage = "sending", !.message = <<"shutdown", 0, NoSession>>]
    /\ UNCHANGED <<process, active, counters, overflow, drains, results, processes, worker,
                   executed, cancels, faults>>

\* The executable changed, or the operating system refused to start it.
SpawnFailed ==
    /\ faults < MaxFaults /\ faults' = faults + 1
    /\ Terminate("failed", FALSE)

\* The drain task of a worker that died by itself is left to its own.
Spawned ==
    /\ process' = attempts + 1 /\ active' = NoSession
    /\ leader' = [leader EXCEPT ![attempts + 1] = "up"]
    /\ drains' = drains \cup {attempts + 1}
    /\ invoker' = [invoker EXCEPT !.stage = "sending", !.message = <<"start", 0, NoSession>>]
    /\ UNCHANGED <<helper, results, faults>>

Spawn ==
    /\ invoker.stage = "spawning"
    /\ SpawnFailed \/ Spawned
    /\ attempts' = attempts + 1 /\ overflow' = FALSE
    /\ UNCHANGED <<executions, spent, reaped, worker, executed, cancels>>

(***************************************************************************)
(* _exchange.  Nothing is written when no time is left (the shutdown is    *)
(* not counted) or when the message is too large.                          *)
(***************************************************************************)
Type == invoker.message[1]

Send ==
    /\ invoker.stage = "sending"
    /\ executions' = executions + (IF Type = "invoke" THEN 1 ELSE 0)
    /\ \/ /\ Type # "shutdown" /\ spent >= TotalTime
          /\ Terminate("failed", FALSE) /\ UNCHANGED <<worker, faults>>
       \/ /\ Type = "invoke" /\ faults < MaxFaults /\ faults' = faults + 1
          /\ Terminate("failed", FALSE) /\ UNCHANGED worker
       \/ /\ Type = "shutdown" \/ spent < TotalTime
          /\ invoker' = [invoker EXCEPT !.stage = "waiting"]
          /\ worker' = [worker EXCEPT ![process].stdin = Append(@, invoker.message)]
          /\ UNCHANGED <<process, active, leader, helper, drains, results, faults>>
    /\ UNCHANGED <<attempts, spent, overflow, reaped, executed, cancels>>

\* An exchange uses a part of the time, never more than is left of it.
Waited ==
    /\ invoker.stage = "waiting"
    /\ spent' \in IF Type = "shutdown" THEN {spent} ELSE {spent, spent + 1}
    /\ UNCHANGED <<attempts, executions, overflow, reaped, executed, cancels, faults>>

Stdout == worker[process].stdout
ReadLine == worker' = [worker EXCEPT ![process].stdout = Tail(@)]

ExpectedAnyAnswer(line) == line.good /\ ~overflow                \* mutant

Expected(line) == line.to = invoker.message /\ line.good /\ ~overflow

\* The answer to the message: the next message, or the result.
Answered ==
    /\ Waited /\ Stdout # <<>> /\ Expected(Head(Stdout)) /\ ReadLine
    /\ CASE Type = "start" ->
              /\ invoker' = [invoker EXCEPT !.stage = "sending",
                                            !.message = <<"session", invoker.request,
                                                                SessionOf[invoker.request]>>]
              /\ UNCHANGED <<process, active, leader, helper, drains, results>>
         [] Type = "session" ->
              /\ active' = SessionOf[invoker.request]
              /\ invoker' = [invoker EXCEPT !.stage = "sending",
                                            !.message = <<"invoke", invoker.request,
                                                                SessionOf[invoker.request]>>]
              /\ UNCHANGED <<process, leader, helper, drains, results>>
         [] Type = "invoke" ->
              /\ Settle("ok", FALSE)
              /\ UNCHANGED <<process, active, leader, helper, drains>>
         [] OTHER -> Terminate("closed", FALSE)

\* Only an invocation leaves a doubt about its delivery; an error that does
\* not parse always does.
InDoubt == Type = "invoke"

\* The line of another message, an error, a line too long, or a flooded
\* standard error.
Refused ==
    /\ Waited /\ Stdout # <<>> /\ ~Expected(Head(Stdout)) /\ ReadLine
    /\ Terminate("failed", InDoubt)

EndOfFile ==
    /\ Waited /\ Stdout = <<>> /\ Gone(process)
    /\ Terminate("failed", InDoubt) /\ UNCHANGED worker

\* Mutant: only the shutdown has a timeout.
TimedOutClosing ==
    Waited /\ Type = "shutdown" /\ Terminate("failed", InDoubt) /\ UNCHANGED worker

\* asyncio.timeout around the exchange.
TimedOut == Waited /\ Terminate("failed", InDoubt) /\ UNCHANGED worker

\* A CancelledError while the invoker awaits: the worker is stopped too, but
\* an interrupted stop is not resumed, nor is the group killed.
Cancel ==
    /\ cancels < MaxCancels /\ cancels' = cancels + 1
    /\ \/ /\ invoker.stage = "spawning"
          /\ attempts' = attempts + 1 /\ UNCHANGED spent
          /\ Terminate("cancelled", TRUE)
       \/ /\ invoker.stage = "waiting"
          /\ spent' \in IF Type = "shutdown" THEN {spent} ELSE {spent, spent + 1}
          /\ Terminate("cancelled", TRUE) /\ UNCHANGED attempts
       \/ /\ invoker.stage = "stopping"
          /\ Settle("cancelled", TRUE)
          /\ UNCHANGED <<process, active, drains, leader, helper, attempts, spent>>
    /\ UNCHANGED <<executions, overflow, reaped, worker, executed, faults>>

(***************************************************************************)
(* The worker.                                                             *)
(***************************************************************************)
Running(w) == leader[w] \in {"up", "stopping"}

Line(m, good) == [to |-> m, good |-> good]

\* main() of _local_worker.py: an invocation of a session that was not
\* started is refused without running it.
Runs(w, m) == m[1] = "invoke" /\ worker[w].session = m[3]
Handle(w, good, copies) ==
    LET m == Head(worker[w].stdin)
        answer == Line(m, good /\ (m[1] # "invoke" \/ Runs(w, m)))
    IN /\ worker' = [worker EXCEPT
                        ![w].stdin = Tail(@),
                        ![w].stdout = IF w # process THEN <<>>
                                      ELSE @ \o [i \in 1 .. copies |-> answer],
                        ![w].session = IF m[1] = "session" THEN m[3] ELSE @]
       /\ executed' = IF Runs(w, m) THEN executed \cup {<<m[2], w>>} ELSE executed
       /\ leader' = [leader EXCEPT ![w] = IF m[1] = "shutdown" THEN "down" ELSE @]

Respond(w) ==
    /\ Running(w) /\ worker[w].stdin # <<>>
    /\ \/ Handle(w, TRUE, 1) /\ UNCHANGED faults
       \/ /\ faults < MaxFaults /\ faults' = faults + 1
          /\ Handle(w, FALSE, 1) \/ Handle(w, TRUE, 2)     \* an error; an extra line
    /\ UNCHANGED <<process, active, counters, overflow, drains, invoker, results, helper,
                   reaped, cancels>>

StartHelper(w) ==
    /\ leader[w] = "up" /\ helper[w] = "absent" /\ faults < MaxFaults
    /\ helper' = [helper EXCEPT ![w] = "up"] /\ faults' = faults + 1
    /\ UNCHANGED <<process, active, counters, overflow, drains, invoker, results, leader,
                   reaped, worker, executed, cancels>>

\* A worker exits: because it was asked to, or by itself.
Exit(w) ==
    /\ \/ leader[w] = "stopping" /\ UNCHANGED faults
       \/ leader[w] = "up" /\ faults < MaxFaults /\ faults' = faults + 1
    /\ leader' = [leader EXCEPT ![w] = "down"]
    /\ worker' = IF w = process THEN worker ELSE [worker EXCEPT ![w] = Fresh]
    /\ UNCHANGED <<process, active, counters, overflow, drains, invoker, results, helper,
                   reaped, executed, cancels>>

\* The event loop learns the return code of a worker the invoker still has.
Reap(w) ==
    /\ leader[w] = "down" /\ w \in {process, invoker.old} \ reaped
    /\ reaped' = reaped \cup {w}
    /\ UNCHANGED <<process, active, counters, overflow, drains, invoker, results, leader,
                   helper, worker, executed, cancels, faults>>

\* _drain_stderr: too much output kills the group.  The flag is the
\* invoker's, whichever worker it was.
Overflow(w) ==
    /\ w \in drains /\ ~Gone(w) /\ faults < MaxFaults
    /\ faults' = faults + 1
    /\ overflow' = TRUE /\ drains' = drains \ {w}
    /\ IF w \in reaped THEN UNCHANGED <<leader, helper>> ELSE Killed(w)
    /\ UNCHANGED <<process, active, counters, invoker, results, reaped, worker, executed, cancels>>

Invoker == Begin \/ Close \/ Spawn \/ Send \/ Answered \/ Refused \/ EndOfFile \/ TimedOut
               \/ Stopped
External(w) == Respond(w) \/ StartHelper(w) \/ Exit(w) \/ Reap(w) \/ Overflow(w)

Next == Invoker \/ Cancel \/ \E w \in Worker : External(w)

\* The event loop runs what is ready: a timer makes every await end.
Spec == Init /\ [][Next]_vars /\ WF_vars(Invoker)

(***************************************************************************)
(* Properties                                                              *)
(***************************************************************************)
TypeOK ==
    /\ process \in {NoWorker} \cup Worker
    /\ active \in {NoSession} \cup Sessions
    /\ attempts \in 0 .. Requests
    /\ drains \subseteq Worker /\ reaped \subseteq Worker
    /\ \A w \in Worker : leader[w] \in {"absent", "up", "stopping", "down"}
    /\ \A w \in Worker : helper[w] \in {"absent", "up", "down"}
    /\ executed \subseteq (1 .. Requests) \X Worker

(***************************************************************************)
(* A result is the answer of the worker that ran that very invocation in   *)
(* its own session: neither a late answer of a worker that was given up,   *)
(* nor an extra line, nor a session that a new worker never started is     *)
(* taken for it.  No invocation is ever run twice.                         *)
(***************************************************************************)
AnswersAreTheirOwn ==
    /\ \A r \in DOMAIN results : results[r].status = "ok" => <<r, results[r].worker>> \in executed
    /\ \A e, f \in executed : e[1] = f[1] => e = f

(***************************************************************************)
(* An invocation that ends without doubt and without a result never ran:   *)
(* whoever asked may try again (delivery_uncertain of invoke, which is     *)
(* what the executors decide on).                                          *)
(***************************************************************************)
CertainFailuresRanNothing ==
    \A r \in DOMAIN results :
        results[r].status \in {"failed", "refused"} /\ ~results[r].doubt =>
            ~\E e \in executed : e[1] = r

(***************************************************************************)
(* What invoke() returns or raises is what happened.                       *)
(***************************************************************************)
ResultsAreTrue == AnswersAreTheirOwn /\ CertainFailuresRanNothing

(***************************************************************************)
(* The execution limit counts what workers run, not what UL asked for last *)
(* time: restarts do not renew it, nor the time they have together.        *)
(***************************************************************************)
LimitsSpanWorkers == Cardinality(executed) <= MaxExecutions /\ spent <= TotalTime

(***************************************************************************)
(* A worker that UL lost track of was at least asked to stop; what an      *)
(* interrupted stop leaves is all that may still be running, and a closed  *)
(* connection without one leaves none (_terminate, aclose).                *)
(***************************************************************************)
NoWorkerIsForgotten ==
    /\ \A w \in Worker : leader[w] = "up" => w = process
    /\ Cardinality({w \in Worker : leader[w] = "stopping" /\ invoker.old # w}) <= cancels
    /\ invoker.stage = "closed" => \A w \in Worker : leader[w] # "up"

(***************************************************************************)
(* Neither workers nor what they may use are lost count of.                *)
(***************************************************************************)
WorkersAreAccounted == TypeOK /\ LimitsSpanWorkers /\ NoWorkerIsForgotten

(***************************************************************************)
(* What UL holds of its invocations and of their workers is true.          *)
(***************************************************************************)
InvocationsAreSound == ResultsAreTrue /\ WorkersAreAccounted

(***************************************************************************)
(* Every invocation ends, with a worker that hangs, floods or ignores      *)
(* signals, and so does the close.                                         *)
(***************************************************************************)
InvocationsEnd == invoker.stage # "idle" ~> invoker.stage \in {"idle", "closed"}
=============================================================================
