--------------------------- MODULE HttpEnvironment ---------------------------
(***************************************************************************)
(* One connection to a resettable HTTP test environment                    *)
(* (JsonHttpEnvironmentConnection of sdk/src/ul/http_environment.py), and  *)
(* the environment itself, which is external.                              *)
(*                                                                         *)
(* A case is a script of POSTs: reset, set up, snapshot, then a turn and a *)
(* snapshot at a time, and a cleanup.  A case with a timeout-after-commit  *)
(* event also arms, observes and cleans that event.  A POST whose answer   *)
(* is lost may still be processed later, even while another case runs:     *)
(* what the connection does about it is what this module is about.         *)
(*                                                                         *)
(* Ordinary cases go through ComposedEnvironmentExecutor, whose shape on   *)
(* this state environment is the same script, with a flag of its own.      *)
(***************************************************************************)
EXTENDS Naturals, Sequences, FiniteSets

CONSTANTS
    HasSetup,       \* the configuration names a setup endpoint
    Calls,          \* max_environment_api_calls of the connection
    MaxTimers,      \* bound: case timeouts that interrupt one execution
    MaxFaults       \* bound: wrong answers and interruptions of one behaviour

ASSUME SetupIsOptional == HasSetup \in BOOLEAN
ASSUME BoundsAreNat == {Calls, MaxTimers, MaxFaults} \subseteq Nat

VARIABLES
    lifecycleUncertain, \* _lifecycle_state_uncertain
    composedUncertain,  \* _state_uncertain of the composed executor
    remaining,          \* _remaining_environment_api_calls
    posted,             \* POSTs made so far
    call,               \* the execution under way
    evidence,           \* what the last execution returned or raised
    wire,               \* POSTs the environment has not processed
    server,             \* the environment's state
    faults              \* (bound) faults so far

client == <<lifecycleUncertain, composedUncertain, remaining, posted, call, evidence>>
outside == <<wire, server>>
httpVars == <<client, outside, faults>>

NoCase == 0
NoEvidence == [kind |-> "none"]
Idle == [case |-> NoCase]
Busy == call.case # NoCase

(***************************************************************************)
(* The script of a case.                                                   *)
(***************************************************************************)
TurnScript(event) ==
    IF event THEN <<"arm", "execute", "snapshot", "observe">>
             ELSE <<"execute", "snapshot">>

\* The event is requested for the first turn only.
Script(event, turns) ==
    (IF HasSetup THEN <<"reset", "setup", "snapshot">> ELSE <<"reset", "snapshot">>)
        \o TurnScript(event)
        \o [i \in 1 .. 2 * (turns - 1) |-> IF i % 2 = 1 THEN "execute" ELSE "snapshot"]

\* Calls reserved before the first POST: the cleanup, and for an event the
\* call that cleans it, are part of the reservation.
ApiCalls(event, turns) ==
    3 + (IF HasSetup THEN 1 ELSE 0) + 2 * turns + (IF event THEN 3 ELSE 0)

ArmAttempted == call.event /\ \E i \in 1 .. call.at : call.script[i] = "arm"
Armed == call.event /\ \E i \in 1 .. call.at - 1 : call.script[i] = "arm"

Operations ==
    {"reset", "setup", "snapshot", "arm", "execute", "observe", "clean", "cleanup"}

Operation ==
    CASE call.stage = "body" -> call.script[call.at]
      [] call.stage = "clean" -> "clean"
      [] OTHER -> "cleanup"

Request == [case |-> call.case, op |-> Operation, at |-> call.at]

(***************************************************************************)
(* The environment (external).  It keeps the case its fixture was reset    *)
(* for, the cases whose effects it holds and the case whose event is armed.*)
(***************************************************************************)
Undisturbed(c) ==
    server.fixture = c /\ server.dirt \subseteq {c} /\ server.armed \in {NoCase, c}

Effect(r) ==
    CASE r.op \in {"reset", "cleanup"} -> [server EXCEPT !.fixture = r.case, !.dirt = {}]
      [] r.op = "execute" -> [server EXCEPT !.dirt = @ \cup {r.case}]
      [] r.op = "arm"     -> [server EXCEPT !.armed = r.case]
      [] r.op = "clean"   -> [server EXCEPT !.armed = IF @ = r.case THEN NoCase ELSE @]
      [] OTHER            -> server

Serve ==
    \E r \in wire :
        /\ wire' = wire \ {r}
        /\ server' = Effect(r)
        /\ call' =
            IF ~Busy \/ call.post # "wire" \/ r # Request THEN call
            ELSE [call EXCEPT !.post = "served",
                    !.tainted = @ \/ /\ r.op \in {"execute", "snapshot", "observe"}
                                     /\ ~Undisturbed(r.case)]
        /\ UNCHANGED <<lifecycleUncertain, composedUncertain, remaining, posted,
                       evidence, faults>>

(***************************************************************************)
(* execute(): refused while the state is uncertain, then the reservation.  *)
(***************************************************************************)
BlockedNever(event) == FALSE                                    \* mutant

Blocked(event) == IF event THEN lifecycleUncertain ELSE composedUncertain

BlockedEvidence ==
    [kind |-> "failed", doubt |-> TRUE, cleanupFailed |-> FALSE, uncertain |-> TRUE,
     armed |-> FALSE, fired |-> FALSE, cleaned |-> FALSE, tainted |-> FALSE]

Execute(case, event, turns) ==
    /\ ~Busy /\ evidence = NoEvidence
    /\ IF Blocked(event)
       THEN /\ evidence' = BlockedEvidence
            /\ UNCHANGED <<lifecycleUncertain, composedUncertain, remaining, call>>
       ELSE IF ApiCalls(event, turns) > remaining
       THEN /\ evidence' = [kind |-> "raised"]
            /\ UNCHANGED <<lifecycleUncertain, composedUncertain, remaining, call>>
       ELSE /\ remaining' = remaining - ApiCalls(event, turns)
            /\ lifecycleUncertain' = (lifecycleUncertain \/ event)
            /\ composedUncertain' = (composedUncertain \/ ~event)
            /\ call' = [case |-> case, event |-> event, script |-> Script(event, turns),
                        at |-> 1, stage |-> "body", post |-> "none", failed |-> "none",
                        refused |-> FALSE, doubt |-> FALSE, eventFailed |-> FALSE,
                        cleanupFailed |-> FALSE, fired |-> FALSE, cleaned |-> FALSE,
                        timers |-> 0, aborted |-> FALSE, tainted |-> FALSE]
            /\ UNCHANGED evidence
    /\ UNCHANGED <<posted, outside, faults>>

Post ==
    /\ Busy /\ call.stage # "done" /\ call.post = "none"
    /\ call' = [call EXCEPT !.post = "wire"]
    /\ wire' = wire \cup {Request}
    /\ posted' = posted + 1
    /\ UNCHANGED <<lifecycleUncertain, composedUncertain, remaining, evidence, server, faults>>

\* Where the execution goes after its body: no cleanup when the reset failed.
AfterBody(failed) ==
    IF failed = "reset" THEN "done" ELSE IF ArmAttempted THEN "clean" ELSE "cleanup"

AfterStage(c) ==
    [c EXCEPT !.stage = IF @ = "body" THEN AfterBody(c.failed)
                        ELSE IF @ = "clean" THEN "cleanup" ELSE "done",
              !.post = "none"]

\* The expected answer.  An observation says whether the event fired.
Reply ==
    /\ Busy /\ call.post = "served"
    /\ \E fired \in IF Operation = "observe" THEN BOOLEAN ELSE {call.fired} :
         call' = IF call.stage = "body" /\ call.at < Len(call.script)
                 THEN [call EXCEPT !.at = @ + 1, !.post = "none", !.fired = fired]
                 ELSE AfterStage([call EXCEPT !.fired = fired,
                                     !.cleaned = @ \/ call.stage = "clean"])
    /\ UNCHANGED <<lifecycleUncertain, composedUncertain, remaining, posted, evidence,
                   outside, faults>>

(***************************************************************************)
(* The other ends of a POST: refused before it left, answered with an      *)
(* error, answered for another case, a reset that is not acknowledged or   *)
(* not clean, or no answer.  After the last three the environment may be   *)
(* in any state; the request of a lost answer may not even have arrived.   *)
(***************************************************************************)
Ends(end) ==
    CASE end = "refused"  -> call.post = "none"
      [] end = "error"    -> call.post \in {"wire", "served"}
      [] end = "mismatch" -> call.post = "served"
      [] end = "unclean"  -> call.post = "served" /\ Operation \in {"reset", "cleanup"}
      [] OTHER            -> call.post \in {"wire", "served"}

InDoubt(end) == end \in {"mismatch", "unclean", "lost"}

Failed(end) ==
    AfterStage(
        IF call.stage = "body"
        THEN [call EXCEPT !.failed = Operation, !.doubt = @ \/ InDoubt(end),
                          !.refused = Operation = "reset" /\ end = "refused"]
        ELSE IF call.stage = "clean"
        THEN [call EXCEPT !.eventFailed = TRUE, !.doubt = @ \/ InDoubt(end)]
        ELSE [call EXCEPT !.cleanupFailed = TRUE, !.doubt = @ \/ InDoubt(end)])

Fail(end) ==
    /\ Busy /\ call.stage # "done" /\ Ends(end)
    /\ call' = Failed(end)
    /\ lifecycleUncertain' = (lifecycleUncertain \/ end = "mismatch")
    /\ wire' = IF end = "error" THEN wire \ {Request} ELSE wire
    /\ UNCHANGED <<composedUncertain, remaining, posted, evidence, server>>

FailWrong ==
    /\ faults < MaxFaults /\ faults' = faults + 1
    /\ \E end \in {"refused", "error", "mismatch", "unclean"} : Fail(end)

\* The timeout of a POST needs no fault of the environment: it is not counted.
FailLost == Fail("lost") /\ UNCHANGED faults

(***************************************************************************)
(* A CancelledError: the timeout of the case (the caller's and the         *)
(* connection's own, so that one may still interrupt the cleanup that the  *)
(* other started) or the user's interrupt.  Cleanup still runs.            *)
(***************************************************************************)
Interrupt(byUser) ==
    /\ Busy /\ call.stage # "done" /\ faults < MaxFaults
    /\ IF byUser THEN ~call.aborted ELSE call.timers < MaxTimers
    /\ faults' = faults + 1
    /\ call' = LET c == IF byUser THEN [call EXCEPT !.aborted = TRUE]
                                  ELSE [call EXCEPT !.timers = @ + 1]
               IN AfterStage(
                    IF call.stage = "body"
                    THEN [c EXCEPT !.failed = Operation, !.doubt = TRUE]
                    ELSE IF call.stage = "clean" THEN [c EXCEPT !.eventFailed = TRUE]
                    ELSE [c EXCEPT !.cleanupFailed = TRUE])
    /\ UNCHANGED <<lifecycleUncertain, composedUncertain, remaining, posted, evidence, outside>>

(***************************************************************************)
(* The end of execute(): the flag of the path is cleared when the cleanup  *)
(* reset succeeded after a lifecycle with no doubt, or when the first      *)
(* reset never left; an interrupted execution raises instead of returning. *)
(***************************************************************************)
\* Mutant: a cleanup that succeeded settles everything.
SettledOnceClean == ~call.eventFailed /\ ~call.cleanupFailed

Settled ==
    IF call.failed = "reset" THEN call.refused
    ELSE ~call.doubt /\ ~call.eventFailed /\ ~call.cleanupFailed

Succeeded == call.failed = "none" /\ ~call.eventFailed /\ ~call.cleanupFailed

Returned ==
    IF call.aborted THEN [kind |-> "aborted"]
    ELSE IF call.timers > 0 THEN [kind |-> "timeout"]
    ELSE [kind |-> IF Succeeded THEN "succeeded" ELSE "failed",
          doubt |-> call.doubt, cleanupFailed |-> call.eventFailed \/ call.cleanupFailed,
          uncertain |-> ~Settled, armed |-> Armed, fired |-> call.fired,
          cleaned |-> call.cleaned, tainted |-> call.tainted]

Return ==
    /\ Busy /\ call.stage = "done"
    /\ evidence' = Returned
    /\ lifecycleUncertain' = IF call.event THEN ~Settled ELSE lifecycleUncertain
    /\ composedUncertain' = IF call.event THEN composedUncertain ELSE ~Settled
    /\ call' = Idle
    /\ UNCHANGED <<remaining, posted, outside, faults>>

(***************************************************************************)
(* execution_evidence_requires_quarantine, for evidence that was returned. *)
(***************************************************************************)
RequiresQuarantine(e) ==
    e.doubt \/ e.cleanupFailed \/ e.uncertain \/ (e.armed /\ ~e.cleaned)

HttpInit ==
    /\ lifecycleUncertain = FALSE /\ composedUncertain = FALSE
    /\ remaining = Calls /\ posted = 0
    /\ call = Idle /\ evidence = NoEvidence
    /\ wire = {} /\ server = [fixture |-> NoCase, dirt |-> {}, armed |-> NoCase]
    /\ faults = 0

Step == Post \/ Reply \/ FailWrong \/ FailLost \/ Return
HttpNext == Step \/ Serve \/ \E byUser \in BOOLEAN : Interrupt(byUser)

(***************************************************************************)
(* The answer to a lost, misrouted or late request of one case must never  *)
(* be mistaken for another's: evidence that succeeded was read from a      *)
(* fixture that held the effects and the event of its own case only,       *)
(* whatever was lost, delayed or interrupted before (the quarantine flags  *)
(* of _execute_stateful and of ComposedEnvironmentExecutor).               *)
(***************************************************************************)
TrustedEvidenceIsClean ==
    evidence.kind = "succeeded" => ~evidence.tainted

(***************************************************************************)
(* The budget is reserved for a whole case before its first POST: even a   *)
(* case that is interrupted and cleaned up never posts beyond what was     *)
(* reserved (_reserve_environment_api_calls, api_calls_for_case).          *)
(***************************************************************************)
CallsStayInBudget == posted <= Calls - remaining

(***************************************************************************)
(* Nothing is posted for a case while a request of an earlier one may      *)
(* still be processed, or while an event of an earlier one is armed.       *)
(***************************************************************************)
NothingIsPostedInDoubt ==
    [][posted' > posted =>
        /\ \A r \in wire : r.case = call.case
        /\ server.armed \in {NoCase, call.case}]_httpVars
=============================================================================
