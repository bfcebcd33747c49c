------------------------ MODULE StressCampaignsProofs ------------------------
(***************************************************************************)
(* Theorems about the commands that repeat cases on an HTTP environment,   *)
(* for any number of repetitions, cases, faults and invocations.           *)
(*                                                                         *)
(* The argument: IInv is inductive.  While a case runs without any doubt   *)
(* at most the request it waits for is on the wire, and its event is armed *)
(* only where it will still be cleaned (Undoubted); every doubt there can  *)
(* be is remembered by the flag of the path, which refuses the next case   *)
(* (Between).  So an execution only begins on a clean connection, its body *)
(* runs on a fixture of its own, and no trial is tainted; the verdicts are *)
(* then functions of sound trials, in memory and on disk.                  *)
(***************************************************************************)
EXTENDS StressCampaigns, FiniteSetTheorems, TLAPS

(* One execution.                                                          *)
CallType ==
    [case : Nat \ {0}, event : BOOLEAN, script : Seq(Operations), at : Nat \ {0},
     stage : {"body", "clean", "cleanup", "done"}, post : {"none", "wire", "served"},
     failed : Operations \cup {"none"}, refused : BOOLEAN, doubt : BOOLEAN,
     eventFailed : BOOLEAN, cleanupFailed : BOOLEAN, fired : BOOLEAN, cleaned : BOOLEAN,
     timers : Nat, aborted : BOOLEAN, tainted : {FALSE}]

(* What returned executions say: never that they were disturbed.           *)
Verbose ==
    [kind : {"succeeded", "failed"}, doubt : BOOLEAN, cleanupFailed : BOOLEAN,
     uncertain : BOOLEAN, armed : BOOLEAN, fired : BOOLEAN, cleaned : BOOLEAN,
     tainted : {FALSE}]
Silent == [kind : {"none", "raised", "aborted", "timeout"}]

(* A script resets first and once, and leaves the cleaning to the stages   *)
(* after it; it arms only for an event.                                    *)
ScriptOK(s, event) ==
    /\ s \in Seq(Operations) /\ s[1] = "reset"
    /\ \A i \in 2 .. Len(s) : s[i] \notin {"reset", "clean", "cleanup"}
    /\ ~event => \A i \in 1 .. Len(s) : s[i] # "arm"

EventCalls(event) == IF event THEN 1 ELSE 0
Unposted(post) == IF post = "none" THEN 1 ELSE 0

(* POSTs that an execution may still make.                                 *)
ToCome(c) ==
    CASE c.stage = "body" -> Len(c.script) - c.at + Unposted(c.post) + 1 + EventCalls(c.event)
      [] c.stage = "clean" -> Unposted(c.post) + 1
      [] c.stage = "cleanup" -> Unposted(c.post)
      [] c.stage = "done" -> 0

Budget ==
    /\ posted \in Nat /\ remaining \in Nat /\ remaining <= Calls
    /\ IF Busy THEN posted + ToCome(call) <= Calls - remaining
               ELSE posted <= Calls - remaining

(* The flag of the path that a command takes.                              *)
Uncertain == IF command = "timeout" THEN lifecycleUncertain ELSE composedUncertain

Between == ~Busy /\ ~Uncertain => wire = {} /\ server.armed = NoCase

Trusted == ~call.doubt /\ ~call.eventFailed /\ ~call.cleanupFailed

(* The connection while a case runs without doubt.                         *)
Undoubted ==
    Trusted =>
        /\ wire = IF call.post = "wire" THEN {Request} ELSE {}
        /\ server.armed # NoCase => ArmAttempted /\ call.stage \in {"body", "clean"}
        /\ call.stage = "clean" /\ call.post = "served" => server.armed = NoCase

Within ==
    Busy =>
        /\ call \in CallType /\ call.case = issued /\ call.event = (command = "timeout")
        /\ ScriptOK(call.script, call.event) /\ call.at <= Len(call.script)
        /\ call.stage = "body" =>
             /\ call.failed = "none" /\ Trusted
             /\ call.at > 1 \/ call.post = "served" =>
                  server.fixture = call.case /\ server.dirt \subseteq {call.case}
        /\ call.stage = "clean" => call.event
        /\ call.stage = "done" => call.post = "none"
        /\ call.failed = "reset" => call.at = 1 /\ call.stage = "done"
        /\ call.refused => call.failed = "reset" /\ Trusted
        /\ \A r \in wire : r.case = call.case
        /\ server.armed \in {NoCase, call.case}
        /\ Undoubted

Connected ==
    /\ call \in CallType \cup {Idle} /\ evidence \in Verbose \cup Silent
    /\ Busy => evidence = NoEvidence
    /\ lifecycleUncertain \in BOOLEAN /\ composedUncertain \in BOOLEAN
    /\ wire \subseteq [case : 1 .. issued, op : Operations, at : Nat]
    /\ server \in [fixture : Nat, dirt : SUBSET (1 .. issued), armed : Nat]
    /\ Budget /\ Between /\ Within

Disconnected ==
    /\ lifecycleUncertain = FALSE /\ composedUncertain = FALSE
    /\ remaining = Calls /\ posted = 0
    /\ call = Idle /\ evidence = NoEvidence
    /\ wire = {} /\ server = [fixture |-> NoCase, dirt |-> {}, armed |-> NoCase]

(* A trial: complete, or with no observation of its last turn.             *)
TrialType ==
    [why : {"ok", "failed", "timeout", "skipped", "unfired"}, base : Observed \cup {"none"},
     first : Observed \cup {"none"}, seen : Observed \cup {"none"}, drift : BOOLEAN,
     quarantine : BOOLEAN, tainted : {FALSE}]

TrialOK(t) ==
    /\ t.why = "ok" => /\ t.seen \in Observed
                       /\ IF Paired THEN t.base \in Observed /\ t.first \in Observed
                                    ELSE t.base = "none" /\ t.first = "none"
    /\ t.why # "ok" => t.seen = "none" /\ t.first = "none"

Trials(all) == all \in Seq(TrialType) /\ \A n \in DOMAIN all : TrialOK(all[n])

AllTrials(all) == Trials(all) /\ Len(all) = TrialCount

Looped ==
    /\ Trials(trials) /\ Len(trials) <= TrialCount
    /\ Busy \/ evidence # NoEvidence => Len(trials) < TrialCount
    /\ pair \in Observed \cup {NoPair} /\ (pair # NoPair => Paired)
    /\ doubted \in BOOLEAN /\ quarantined \in BOOLEAN /\ issued \in Nat
    /\ stage \in {"plan", "run"} => verdict = NoVerdict
    /\ verdict # NoVerdict => Len(trials) = TrialCount /\ verdict = VerdictOf(trials)
    /\ stage \in {"save", "publish"} => verdict = VerdictOf(trials) /\ Len(trials) = TrialCount

Stages ==
    {"plan", "run", "save", "publish", "refused", "planned", "reported", "crashed", "killed"}

(* Files: an output is whole only with a result of all trials, and the     *)
(* packages of such a result are its own.                                  *)
FilesOK(f) ==
    /\ f = [output |-> f.output, packages |-> f.packages]
    /\ \/ f.output \in {Absent, Torn, Foreign}
       \/ f.output = Whole(f.output.all) /\ AllTrials(f.output.all)
    /\ Publishes /\ f.output.state = "whole" =>
           f.packages \in {Unpublished, Published(FindingsOf(f.output.all))}

Kept ==
    /\ stage \in Stages /\ command \in Commands /\ request.asks \in Requests
    /\ exit \in {0, 1, 2, NoExit} /\ invocations \in 1 .. MaxInvocations
    /\ FilesOK(files)
    /\ request.found.output # Absent => files.output = request.found.output
    /\ stage \in {"plan", "refused", "planned"} => files = request.found
    /\ stage \in {"run", "save", "publish"} =>
         /\ request.asks = "run" /\ request.found.output = Absent
         /\ Publishes => files.packages = Unpublished
    /\ stage = "publish" => files.output = Whole(trials) /\ Publishes
    /\ ExitIsBacked

IInv == Connected /\ (stage # "run" => Disconnected) /\ Looped /\ Kept
-----------------------------------------------------------------------------
LEMMA Concat ==
    ASSUME NEW S, NEW a \in Seq(S), NEW b \in Seq(S)
    PROVE  /\ a \o b \in Seq(S) /\ Len(a \o b) = Len(a) + Len(b)
           /\ Len(a) \in Nat /\ Len(b) \in Nat
           /\ \A i \in 1 .. Len(a) : (a \o b)[i] = a[i]
           /\ \A i \in Len(a) + 1 .. Len(a) + Len(b) : (a \o b)[i] = b[i - Len(a)]
  OBVIOUS

(* The script of a case, and the calls that are reserved for it.           *)
LEMMA ScriptIs ==
    ASSUME NEW event \in BOOLEAN, NEW turns \in {1, 2}
    PROVE  /\ ScriptOK(Script(event, turns), event)
           /\ Len(Script(event, turns)) + 1 + EventCalls(event) = ApiCalls(event, turns)
           /\ Len(Script(event, turns)) \in Nat \ {0} /\ ApiCalls(event, turns) \in Nat
<1> DEFINE start == IF HasSetup THEN <<"reset", "setup", "snapshot">> ELSE <<"reset", "snapshot">>
           rest == [i \in 1 .. 2 * (turns - 1) |->
                        IF i % 2 = 1 THEN "execute" ELSE "snapshot"]
<1>1. /\ start \in Seq(Operations) /\ Len(start) = 2 + (IF HasSetup THEN 1 ELSE 0)
      /\ start[1] = "reset" /\ \A i \in 2 .. Len(start) : start[i] \in {"setup", "snapshot"}
  <2>1. CASE HasSetup
    BY <2>1 DEF Operations
  <2>2. CASE ~HasSetup
    BY <2>2 DEF Operations
  <2> QED BY <2>1, <2>2
<1>2. /\ TurnScript(event) \in Seq(Operations)
      /\ Len(TurnScript(event)) = 2 + 2 * EventCalls(event)
      /\ \A i \in 1 .. Len(TurnScript(event)) :
            TurnScript(event)[i] \in {"execute", "snapshot"} \cup
                                     (IF event THEN {"arm", "observe"} ELSE {})
  <2>1. CASE event
    BY <2>1 DEF TurnScript, Operations, EventCalls
  <2>2. CASE ~event
    BY <2>2 DEF TurnScript, Operations, EventCalls
  <2> QED BY <2>1, <2>2
<1>3. /\ rest \in Seq(Operations) /\ Len(rest) = 2 * (turns - 1)
      /\ \A i \in 1 .. Len(rest) : rest[i] \in {"execute", "snapshot"}
  <2>1. 2 * (turns - 1) \in Nat
    OBVIOUS
  <2>2. \A i \in 1 .. 2 * (turns - 1) : rest[i] \in {"execute", "snapshot"}
    OBVIOUS
  <2>3. rest \in [1 .. 2 * (turns - 1) -> Operations]
    BY <2>2 DEF Operations
  <2>4. rest \in Seq(Operations) /\ Len(rest) = 2 * (turns - 1)
    <3> HIDE DEF rest
    <3> QED BY <2>1, <2>3
  <2> QED BY <2>2, <2>4
<1>4. Script(event, turns) = start \o TurnScript(event) \o rest
  BY DEF Script
<1> HIDE DEF start, rest
<1>5. PICK turn : turn = TurnScript(event)
  OBVIOUS
<1>6. /\ start \o turn \in Seq(Operations) /\ Len(start \o turn) = Len(start) + Len(turn)
      /\ \A i \in 1 .. Len(start) : (start \o turn)[i] = start[i]
      /\ \A i \in Len(start) + 1 .. Len(start) + Len(turn) :
            (start \o turn)[i] = turn[i - Len(start)]
  <2>1. turn \in Seq(Operations) /\ start \in Seq(Operations)
    BY <1>1, <1>2, <1>5
  <2> QED BY <2>1, Concat
<1>7. PICK front : front = start \o turn
  OBVIOUS
<1>8. /\ front \o rest \in Seq(Operations) /\ Len(front \o rest) = Len(front) + Len(rest)
      /\ \A i \in 1 .. Len(front) : (front \o rest)[i] = front[i]
      /\ \A i \in Len(front) + 1 .. Len(front) + Len(rest) :
            (front \o rest)[i] = rest[i - Len(front)]
  BY <1>3, <1>6, <1>7, Concat
<1>9. PICK s : s = front \o rest
  OBVIOUS
<1>10. Script(event, turns) = s
  BY <1>4, <1>5, <1>7, <1>9
<1>11. Len(s) = Len(start) + Len(turn) + Len(rest) /\ Len(start) \in Nat \ {0, 1}
       /\ Len(turn) \in Nat /\ Len(rest) \in Nat
  <2>1. Len(start) \in Nat \ {0, 1}
    BY <1>1
  <2>2. Len(turn) \in Nat /\ Len(rest) \in Nat
    BY <1>2, <1>3, <1>5
  <2>3. Len(front) = Len(start) + Len(turn)
    BY <1>6, <1>7
  <2> QED BY <2>1, <2>2, <2>3, <1>8, <1>9
<1>12. \A i \in 2 .. Len(s) :
          s[i] \in {"setup", "snapshot", "execute"} \cup (IF event THEN {"arm", "observe"} ELSE {})
  <2> SUFFICES ASSUME NEW i \in 2 .. Len(s)
               PROVE  s[i] \in {"setup", "snapshot", "execute"} \cup
                               (IF event THEN {"arm", "observe"} ELSE {})
    OBVIOUS
  <2>1. CASE i <= Len(start)
    BY <2>1, <1>11, <1>1, <1>6, <1>7, <1>8, <1>9
  <2>2. CASE i > Len(start) /\ i <= Len(start) + Len(turn)
    <3>1. s[i] = turn[i - Len(start)] /\ i - Len(start) \in 1 .. Len(turn)
      BY <2>2, <1>11, <1>6, <1>7, <1>8, <1>9
    <3> QED BY <3>1, <1>2, <1>5
  <2>3. CASE i > Len(start) + Len(turn)
    <3>1. s[i] = rest[i - Len(front)] /\ i - Len(front) \in 1 .. Len(rest)
      BY <2>3, <1>11, <1>6, <1>7, <1>8, <1>9
    <3> QED BY <3>1, <1>3
  <2> QED BY <2>1, <2>2, <2>3, <1>11
<1>13. s[1] = "reset" /\ s \in Seq(Operations)
  BY <1>1, <1>11, <1>6, <1>7, <1>8, <1>9
<1>14. ScriptOK(s, event)
  BY <1>11, <1>12, <1>13 DEF ScriptOK
<1>15. Len(s) + 1 + EventCalls(event) = ApiCalls(event, turns)
  BY <1>1, <1>2, <1>3, <1>5, <1>11 DEF ApiCalls, EventCalls
<1> QED
  BY <1>10, <1>11, <1>14, <1>15 DEF EventCalls

(* The parts of an execution, and what the next stage changes of it.       *)
LEMMA AfterStageIs ==
    ASSUME call \in CallType, NEW c \in CallType
    PROVE  LET d == AfterStage(c) IN
           /\ d \in CallType /\ d.post = "none"
           /\ d.stage = IF c.stage = "body" THEN AfterBody(c.failed)
                        ELSE IF c.stage = "clean" THEN "cleanup" ELSE "done"
           /\ d.case = c.case /\ d.event = c.event /\ d.script = c.script /\ d.at = c.at
           /\ d.failed = c.failed /\ d.refused = c.refused /\ d.doubt = c.doubt
           /\ d.eventFailed = c.eventFailed /\ d.cleanupFailed = c.cleanupFailed
           /\ d.fired = c.fired /\ d.cleaned = c.cleaned /\ d.timers = c.timers
           /\ d.aborted = c.aborted /\ d.tainted = c.tainted
  BY DEF CallType, AfterStage, AfterBody

(* The request that an execution waits for.                                *)
LEMMA RequestIs ==
    ASSUME call \in CallType, ScriptOK(call.script, call.event), call.at <= Len(call.script)
    PROVE  /\ Operation \in Operations /\ Len(call.script) \in Nat
           /\ Request = [case |-> call.case, op |-> Operation, at |-> call.at]
           /\ Request.case = call.case /\ Request.op = Operation
           /\ call.stage = "body" /\ call.at > 1 => Operation \notin {"reset", "clean", "cleanup"}
           /\ call.stage = "body" /\ call.at = 1 => Operation = "reset"
           /\ call.stage = "clean" => Operation = "clean"
           /\ call.stage \in {"cleanup", "done"} => Operation = "cleanup"
           /\ call.stage = "body" => Operation = call.script[call.at]
<1>1. call.script \in Seq(Operations) /\ call.at \in 1 .. Len(call.script)
  BY DEF CallType, ScriptOK
<1>2. Operation \in Operations
  BY <1>1 DEF Operation, Operations
<1> QED
  BY <1>1, <1>2 DEF Operation, Request, ScriptOK, CallType

(* What is known of the execution under way.                               *)
LEMMA BusyIs ==
    ASSUME Connected, Busy, issued \in Nat
    PROVE  /\ call \in CallType /\ ScriptOK(call.script, call.event)
           /\ call.at <= Len(call.script) /\ call.case = issued /\ issued \in Nat \ {0}
           /\ Request \in [case : 1 .. issued, op : Operations, at : Nat]
           /\ evidence = NoEvidence
<1>1. /\ call \in CallType /\ ScriptOK(call.script, call.event)
      /\ call.at <= Len(call.script) /\ call.case = issued /\ evidence = NoEvidence
  BY DEF Connected, Within
<1>2. issued \in Nat \ {0} /\ call.at \in Nat
  BY <1>1 DEF CallType
<1> QED
  BY <1>1, <1>2, RequestIs

LEMMA PostKeeps ==
    ASSUME Connected, issued \in Nat, issued' = issued, command' = command, Post
    PROVE  Connected'
<1>1. /\ Busy /\ call.stage # "done" /\ call.post = "none"
      /\ call' = [call EXCEPT !.post = "wire"] /\ wire' = wire \cup {Request}
      /\ posted' = posted + 1
      /\ UNCHANGED <<lifecycleUncertain, composedUncertain, remaining, evidence, server>>
  BY DEF Post
<1>2. /\ call \in CallType /\ ScriptOK(call.script, call.event)
      /\ call.at <= Len(call.script) /\ call.case = issued
      /\ Request \in [case : 1 .. issued, op : Operations, at : Nat]
  BY <1>1, BusyIs
<1>3. /\ call' \in CallType /\ call'.post = "wire"
      /\ call'.case = call.case /\ call'.event = call.event /\ call'.script = call.script
      /\ call'.at = call.at /\ call'.stage = call.stage
      /\ call'.failed = call.failed /\ call'.refused = call.refused /\ call'.doubt = call.doubt
      /\ call'.eventFailed = call.eventFailed /\ call'.cleanupFailed = call.cleanupFailed
  BY <1>1, <1>2 DEF CallType
<1>4. Request' = Request /\ Operation' = Operation /\ (ArmAttempted' <=> ArmAttempted) /\ Busy'
  BY <1>1, <1>3 DEF Request, Operation, ArmAttempted, Busy
<1>5. Budget'
  <2>1. posted \in Nat /\ remaining \in Nat /\ posted + ToCome(call) <= Calls - remaining
        /\ remaining <= Calls
    BY <1>1 DEF Connected, Budget
  <2>2. ToCome(call) = ToCome(call') + 1 /\ ToCome(call') \in Nat
    <3>1. Len(call.script) \in Nat /\ call.at \in Nat
      BY <1>2, RequestIs DEF CallType
    <3>2. call.stage \in {"body", "clean", "cleanup"} /\ call.event \in BOOLEAN
      BY <1>1, <1>2 DEF CallType
    <3> QED BY <3>1, <3>2, <1>1, <1>2, <1>3 DEF ToCome, Unposted, EventCalls
  <2> QED BY <2>1, <2>2, <1>1, <1>4, BoundsAreNat DEF Budget
<1>6. Within'
  <2>1. Within
    BY DEF Connected
  <2>2. Undoubted'
    BY <2>1, <1>1, <1>3, <1>4 DEF Within, Undoubted, Trusted
  <2>3. \A r \in wire' : r.case = call'.case
    BY <2>1, <1>1, <1>2, <1>3, RequestIs DEF Within
  <2> QED BY <2>1, <2>2, <2>3, <1>1, <1>2, <1>3, <1>4 DEF Within, Trusted
<1> QED
  BY <1>1, <1>2, <1>3, <1>4, <1>5, <1>6 DEF Connected, Between

(* The end of a stage, whatever ended it: c is the execution with what its *)
(* end is remembered by.                                                   *)
LEMMA StageEndKeeps ==
    ASSUME Connected, issued \in Nat, issued' = issued, command' = command,
           Busy, call.stage # "done", NEW c \in CallType,
           c.case = call.case, c.event = call.event, c.script = call.script,
           c.at = call.at, c.stage = call.stage, call' = AfterStage(c),
           UNCHANGED <<composedUncertain, remaining, posted, evidence, server>>,
           lifecycleUncertain' \in BOOLEAN, lifecycleUncertain => lifecycleUncertain',
           wire' \subseteq wire,
           c.failed = "reset" => c.at = 1 /\ c.stage = "body",
           c.refused => c.failed = "reset" /\ ~c.doubt /\ ~c.eventFailed /\ ~c.cleanupFailed,
           \/ c.doubt \/ c.eventFailed \/ c.cleanupFailed
           \/ wire' = {} /\ (server.armed # NoCase => call.stage = "body" /\ ArmAttempted)
    PROVE  Connected'
<1>1. /\ call \in CallType /\ ScriptOK(call.script, call.event)
      /\ call.at <= Len(call.script) /\ call.case = issued
      /\ Len(call.script) \in Nat /\ call.at \in Nat \ {0} /\ call.event \in BOOLEAN
      /\ call.stage \in {"body", "clean", "cleanup"} /\ Within
      /\ call.post \in {"none", "wire", "served"}
  <2>1. call \in CallType /\ ScriptOK(call.script, call.event) /\ call.at <= Len(call.script)
    BY BusyIs
  <2> QED BY <2>1, BusyIs, RequestIs DEF CallType, Connected
<1>2. /\ call' \in CallType /\ call'.post = "none"
      /\ call'.stage = IF call.stage = "body" THEN AfterBody(c.failed)
                       ELSE IF call.stage = "clean" THEN "cleanup" ELSE "done"
      /\ call'.case = call.case /\ call'.event = call.event
      /\ call'.script = call.script /\ call'.at = call.at
      /\ call'.failed = c.failed /\ call'.refused = c.refused /\ call'.doubt = c.doubt
      /\ call'.eventFailed = c.eventFailed /\ call'.cleanupFailed = c.cleanupFailed
  BY <1>1, AfterStageIs
<1>3. (ArmAttempted' <=> ArmAttempted) /\ Busy'
  BY <1>2 DEF ArmAttempted, Busy
<1>4. /\ call.stage = "body" /\ c.failed = "reset" => call'.stage = "done" /\ ~ArmAttempted
      /\ call.stage = "body" /\ c.failed # "reset" =>
            call'.stage = IF ArmAttempted THEN "clean" ELSE "cleanup"
      /\ ArmAttempted => call.event
  BY <1>1, <1>2 DEF AfterBody, ArmAttempted, ScriptOK
<1>5. Budget'
  <2>1. posted \in Nat /\ remaining \in Nat /\ posted + ToCome(call) <= Calls - remaining
        /\ remaining <= Calls
    BY DEF Connected, Budget
  <2>2. ToCome(call') <= ToCome(call) /\ ToCome(call') \in Nat /\ ToCome(call) \in Nat
    <3>1. EventCalls(call.event) \in {0, 1} /\ (call.event => EventCalls(call.event) = 1)
          /\ Unposted(call.post) \in {0, 1} /\ Unposted(call'.post) = 1
      BY <1>1, <1>2 DEF EventCalls, Unposted
    <3>2. CASE call.stage = "body"
      <4>1. ToCome(call) = Len(call.script) - call.at + Unposted(call.post) + 1
                              + EventCalls(call.event)
        BY <3>2 DEF ToCome
      <4>2. (call'.stage = "clean" /\ call.event) \/ call'.stage \in {"cleanup", "done"}
        BY <3>2, <1>4
      <4>3. ToCome(call') = IF call'.stage = "clean" THEN 2
                           ELSE IF call'.stage = "cleanup" THEN 1 ELSE 0
        BY <4>2, <3>1 DEF ToCome
      <4> QED BY <4>1, <4>2, <4>3, <3>1, <1>1
    <3>3. CASE call.stage # "body"
      BY <3>1, <3>3, <1>1, <1>2 DEF ToCome
    <3> QED BY <3>2, <3>3
  <2> QED BY <2>1, <2>2, <1>3, BoundsAreNat DEF Budget
<1>6. Undoubted'
  <2>1. ASSUME Trusted'
        PROVE  wire' = {} /\ (server.armed # NoCase => call.stage = "body" /\ ArmAttempted)
    BY <2>1, <1>2 DEF Trusted
  <2>2. wire' = {} /\ call'.post = "none" =>
            wire' = IF call'.post = "wire" THEN {Request'} ELSE {}
    OBVIOUS
  <2> QED BY <2>1, <2>2, <1>2, <1>3, <1>4 DEF Undoubted
<1>7. Within'
  <2>1. call'.stage # "body" /\ (call'.stage = "clean" => call'.event)
    BY <1>1, <1>2, <1>4
  <2>2. call'.failed = "reset" => call'.at = 1 /\ call'.stage = "done"
    BY <1>2, <1>4
  <2>3. call'.refused => call'.failed = "reset" /\ Trusted'
    BY <1>2 DEF Trusted
  <2>4. call'.event = (command' = "timeout") /\ server'.armed \in {NoCase, call'.case}
        /\ \A r \in wire' : r.case = call'.case
    BY <1>1, <1>2 DEF Within
  <2> QED BY <1>1, <1>2, <1>6, <2>1, <2>2, <2>3, <2>4 DEF Within
<1>8. evidence' = NoEvidence
  BY BusyIs
<1> QED
  BY <1>1, <1>2, <1>3, <1>5, <1>7, <1>8 DEF Connected, Between

LEMMA ReplyKeeps ==
    ASSUME Connected, issued \in Nat, issued' = issued, command' = command, Reply
    PROVE  Connected'
<1>1. /\ Busy /\ call.post = "served"
      /\ UNCHANGED <<lifecycleUncertain, composedUncertain, remaining, posted, evidence,
                     wire, server>>
  BY DEF Reply, outside
<1>2. /\ call \in CallType /\ ScriptOK(call.script, call.event) /\ Within
      /\ call.at <= Len(call.script) /\ call.case = issued
      /\ Len(call.script) \in Nat /\ call.at \in Nat \ {0} /\ call.event \in BOOLEAN
  <2>1. call \in CallType /\ ScriptOK(call.script, call.event) /\ call.at <= Len(call.script)
    BY <1>1, BusyIs
  <2> QED BY <1>1, <2>1, BusyIs, RequestIs DEF CallType, Connected
<1>3. PICK fired \in BOOLEAN :
         call' = IF call.stage = "body" /\ call.at < Len(call.script)
                 THEN [call EXCEPT !.at = @ + 1, !.post = "none", !.fired = fired]
                 ELSE AfterStage([call EXCEPT !.fired = fired,
                                     !.cleaned = @ \/ call.stage = "clean"])
  BY <1>2 DEF Reply, CallType
<1>4. call.stage # "done"
  BY <1>1, <1>2 DEF Within
<1>5. CASE call.stage = "body" /\ call.at < Len(call.script)
  <2>1. /\ call' \in CallType /\ call'.post = "none" /\ call'.at = call.at + 1
        /\ call'.case = call.case /\ call'.event = call.event /\ call'.script = call.script
        /\ call'.stage = call.stage
        /\ call'.failed = call.failed /\ call'.refused = call.refused
        /\ call'.doubt = call.doubt
        /\ call'.eventFailed = call.eventFailed /\ call'.cleanupFailed = call.cleanupFailed
    <3>1. call' = [call EXCEPT !.at = @ + 1, !.post = "none", !.fired = fired]
      BY <1>3, <1>5
    <3>2. call.at + 1 \in Nat \ {0}
      BY <1>2
    <3> QED BY <1>2, <3>1, <3>2 DEF CallType
  <2>2. Busy' /\ (ArmAttempted => ArmAttempted')
    BY <1>1, <1>2, <2>1 DEF Busy, ArmAttempted
  <2>3. Budget'
    <3>1. posted \in Nat /\ remaining \in Nat /\ posted + ToCome(call) <= Calls - remaining
          /\ remaining <= Calls
      BY <1>1 DEF Connected, Budget
    <3>2. ToCome(call') = ToCome(call) /\ ToCome(call) \in Nat
      BY <1>1, <1>2, <1>5, <2>1 DEF ToCome, Unposted, EventCalls
    <3> QED BY <3>1, <3>2, <2>2, <1>1 DEF Budget
  <2>4. Trusted /\ wire = {}
    BY <1>1, <1>2, <1>5 DEF Within, Undoubted
  <2>5. Within'
    BY <1>1, <1>2, <1>5, <2>1, <2>2, <2>4 DEF Within, Undoubted, Trusted
  <2> QED
    BY <1>1, <1>2, <2>1, <2>2, <2>3, <2>5 DEF Connected, Between
<1>6. CASE ~(call.stage = "body" /\ call.at < Len(call.script))
  <2>1. PICK c : c = [call EXCEPT !.fired = fired, !.cleaned = @ \/ call.stage = "clean"]
    OBVIOUS
  <2>2. /\ c \in CallType /\ c.case = call.case /\ c.event = call.event
        /\ c.script = call.script /\ c.at = call.at /\ c.stage = call.stage
        /\ c.failed = call.failed /\ c.refused = call.refused /\ c.doubt = call.doubt
        /\ c.eventFailed = call.eventFailed /\ c.cleanupFailed = call.cleanupFailed
    BY <1>2, <2>1 DEF CallType
  <2>3. call' = AfterStage(c)
    BY <1>3, <1>6, <2>1
  <2>4. call.failed # "reset" /\ ~call.refused
    BY <1>1, <1>2, <1>4 DEF Within
  <2>5. \/ c.doubt \/ c.eventFailed \/ c.cleanupFailed
        \/ wire = {} /\ (server.armed # NoCase => call.stage = "body" /\ ArmAttempted)
    BY <1>1, <1>2, <1>4, <2>2 DEF Within, Undoubted, Trusted
  <2>6. lifecycleUncertain' \in BOOLEAN
    BY <1>1 DEF Connected
  <2> QED
    BY <1>1, <1>4, <2>2, <2>3, <2>4, <2>5, <2>6, StageEndKeeps
<1> QED
  BY <1>5, <1>6

LEMMA FailKeeps ==
    ASSUME Connected, issued \in Nat, issued' = issued, command' = command,
           NEW end \in {"refused", "error", "mismatch", "unclean", "lost"}, Fail(end)
    PROVE  Connected'
<1>1. /\ Busy /\ call.stage # "done" /\ Ends(end) /\ call' = Failed(end)
      /\ lifecycleUncertain' = (lifecycleUncertain \/ end = "mismatch")
      /\ wire' = IF end = "error" THEN wire \ {Request} ELSE wire
      /\ UNCHANGED <<composedUncertain, remaining, posted, evidence, server>>
  BY DEF Fail
<1>2. /\ call \in CallType /\ ScriptOK(call.script, call.event) /\ Within
      /\ call.at <= Len(call.script) /\ call.stage \in {"body", "clean", "cleanup"}
      /\ call.doubt \in BOOLEAN
  BY <1>1, BusyIs DEF CallType, Connected
<1>3. call.failed # "reset" /\ ~call.refused
  BY <1>1, <1>2 DEF Within
<1>4. PICK c : c = IF call.stage = "body"
        THEN [call EXCEPT !.failed = Operation, !.doubt = @ \/ InDoubt(end),
                          !.refused = Operation = "reset" /\ end = "refused"]
        ELSE IF call.stage = "clean"
        THEN [call EXCEPT !.eventFailed = TRUE, !.doubt = @ \/ InDoubt(end)]
        ELSE [call EXCEPT !.cleanupFailed = TRUE, !.doubt = @ \/ InDoubt(end)]
  OBVIOUS
<1>5. call' = AfterStage(c)
  BY <1>1, <1>4 DEF Failed
<1>6. /\ c \in CallType /\ c.case = call.case /\ c.event = call.event
      /\ c.script = call.script /\ c.at = call.at /\ c.stage = call.stage
      /\ c.doubt = (call.doubt \/ InDoubt(end))
      /\ call.stage = "body" =>
            /\ c.failed = Operation /\ c.refused = (Operation = "reset" /\ end = "refused")
            /\ c.eventFailed = call.eventFailed /\ c.cleanupFailed = call.cleanupFailed
      /\ call.stage # "body" => /\ c.failed = call.failed /\ c.refused = call.refused
                                /\ c.eventFailed \/ c.cleanupFailed
  <2>1. Operation \in Operations
    BY <1>2, RequestIs
  <2>2. CASE call.stage = "body"
    BY <1>2, <1>4, <2>1, <2>2 DEF CallType, InDoubt
  <2>3. CASE call.stage = "clean"
    BY <1>2, <1>4, <2>1, <2>3 DEF CallType, InDoubt
  <2>4. CASE call.stage = "cleanup"
    BY <1>2, <1>4, <2>1, <2>4 DEF CallType, InDoubt
  <2> QED BY <1>2, <2>2, <2>3, <2>4
<1>7. c.failed = "reset" => c.at = 1 /\ c.stage = "body"
  <2>1. call.at \in Nat \ {0}
    BY <1>2 DEF CallType
  <2> QED BY <1>2, <1>3, <1>6, <2>1, RequestIs
<1>8. c.refused => c.failed = "reset" /\ ~c.doubt /\ ~c.eventFailed /\ ~c.cleanupFailed
  BY <1>1, <1>2, <1>3, <1>6 DEF Within, Trusted, InDoubt
<1>9. \/ c.doubt \/ c.eventFailed \/ c.cleanupFailed
      \/ wire' = {} /\ (server.armed # NoCase => call.stage = "body" /\ ArmAttempted)
  <2>1. CASE call.stage = "body" /\ end \in {"refused", "error"}
    <3>1. Trusted /\ wire \subseteq {Request} /\ (call.post # "wire" => wire = {})
          /\ (server.armed # NoCase => ArmAttempted)
      BY <1>1, <1>2, <2>1 DEF Within, Undoubted
    <3>2. end = "refused" => call.post = "none"
      BY <1>1 DEF Ends
    <3> QED BY <1>1, <2>1, <3>1, <3>2
  <2>2. CASE call.stage = "body" /\ end \notin {"refused", "error"}
    BY <1>6, <2>2 DEF InDoubt
  <2> QED BY <1>6, <2>1, <2>2
<1>10. lifecycleUncertain' \in BOOLEAN /\ wire' \subseteq wire
       /\ (lifecycleUncertain => lifecycleUncertain')
  BY <1>1 DEF Connected
<1> QED
  BY <1>1, <1>5, <1>6, <1>7, <1>8, <1>9, <1>10, StageEndKeeps

LEMMA InterruptKeeps ==
    ASSUME Connected, issued \in Nat, issued' = issued, command' = command,
           NEW byUser \in BOOLEAN, Interrupt(byUser)
    PROVE  Connected'
<1> DEFINE before == IF byUser THEN [call EXCEPT !.aborted = TRUE]
                               ELSE [call EXCEPT !.timers = @ + 1]
<1>1. /\ Busy /\ call.stage # "done"
      /\ call' = AfterStage(
                    IF call.stage = "body"
                    THEN [before EXCEPT !.failed = Operation, !.doubt = TRUE]
                    ELSE IF call.stage = "clean" THEN [before EXCEPT !.eventFailed = TRUE]
                    ELSE [before EXCEPT !.cleanupFailed = TRUE])
      /\ UNCHANGED <<lifecycleUncertain, composedUncertain, remaining, posted, evidence,
                     wire, server>>
  BY DEF Interrupt, outside
<1>2. /\ call \in CallType /\ ScriptOK(call.script, call.event) /\ Within
      /\ call.at <= Len(call.script) /\ call.stage \in {"body", "clean", "cleanup"}
  BY <1>1, BusyIs DEF CallType, Connected
<1>3. call.failed # "reset" /\ ~call.refused
  BY <1>1, <1>2 DEF Within
<1>4. /\ before \in CallType /\ before.case = call.case /\ before.event = call.event
      /\ before.script = call.script /\ before.at = call.at /\ before.stage = call.stage
      /\ before.failed = call.failed /\ before.refused = call.refused
  <2>1. call.timers + 1 \in Nat
    BY <1>2 DEF CallType
  <2> QED BY <1>2, <2>1 DEF CallType
<1> HIDE DEF before
<1>5. PICK c : c = IF call.stage = "body"
                    THEN [before EXCEPT !.failed = Operation, !.doubt = TRUE]
                    ELSE IF call.stage = "clean" THEN [before EXCEPT !.eventFailed = TRUE]
                    ELSE [before EXCEPT !.cleanupFailed = TRUE]
  OBVIOUS
<1>6. /\ c \in CallType /\ c.case = call.case /\ c.event = call.event
      /\ c.script = call.script /\ c.at = call.at /\ c.stage = call.stage
      /\ ~c.refused /\ (c.doubt \/ c.eventFailed \/ c.cleanupFailed)
      /\ c.failed = IF call.stage = "body" THEN Operation ELSE call.failed
  <2>1. Operation \in Operations
    BY <1>2, RequestIs
  <2>2. CASE call.stage = "body"
    BY <1>3, <1>4, <1>5, <2>1, <2>2 DEF CallType
  <2>3. CASE call.stage = "clean"
    BY <1>3, <1>4, <1>5, <2>1, <2>3 DEF CallType
  <2>4. CASE call.stage = "cleanup"
    BY <1>3, <1>4, <1>5, <2>1, <2>4 DEF CallType
  <2> QED BY <1>2, <2>2, <2>3, <2>4
<1>7. c.failed = "reset" => c.at = 1 /\ c.stage = "body"
  <2>1. call.at \in Nat \ {0}
    BY <1>2 DEF CallType
  <2> QED BY <1>2, <1>3, <1>6, <2>1, RequestIs
<1>8. lifecycleUncertain' \in BOOLEAN /\ (lifecycleUncertain => lifecycleUncertain')
      /\ wire' \subseteq wire
  BY <1>1 DEF Connected
<1> QED
  BY <1>1, <1>5, <1>6, <1>7, <1>8, StageEndKeeps

LEMMA ReturnKeeps ==
    ASSUME Connected, issued \in Nat, issued' = issued, command' = command, Return
    PROVE  Connected'
<1>1. /\ Busy /\ call.stage = "done" /\ evidence' = Returned /\ call' = Idle
      /\ lifecycleUncertain' = IF call.event THEN ~Settled ELSE lifecycleUncertain
      /\ composedUncertain' = IF call.event THEN composedUncertain ELSE ~Settled
      /\ UNCHANGED <<remaining, posted, wire, server>>
  BY DEF Return, outside
<1>2. call \in CallType /\ Within
  BY <1>1, BusyIs DEF Connected
<1>3. ~Busy'
  BY <1>1 DEF Busy, Idle
<1>4. evidence' \in Verbose \cup Silent
  <2>1. /\ Succeeded \in BOOLEAN /\ Settled \in BOOLEAN /\ Armed \in BOOLEAN
        /\ call.doubt \in BOOLEAN /\ (call.eventFailed \/ call.cleanupFailed) \in BOOLEAN
        /\ call.fired \in BOOLEAN /\ call.cleaned \in BOOLEAN /\ call.tainted = FALSE
    BY <1>2 DEF Succeeded, Settled, Armed, CallType
  <2> QED BY <1>1, <2>1 DEF Returned, Verbose, Silent
<1>5. lifecycleUncertain' \in BOOLEAN /\ composedUncertain' \in BOOLEAN
  BY <1>1, <1>2 DEF Settled, CallType, Connected
<1>6. Settled => wire = {} /\ server.armed = NoCase
  <2>1. Settled => Trusted
    BY <1>1, <1>2 DEF Settled, Trusted, Within
  <2>2. Trusted => wire = {} /\ server.armed = NoCase
    BY <1>1, <1>2 DEF Within, Undoubted
  <2> QED BY <2>1, <2>2
<1>7. Between'
  BY <1>1, <1>2, <1>6 DEF Between, Within, Uncertain
<1>8. Budget'
  <2>1. posted \in Nat /\ remaining \in Nat /\ posted + ToCome(call) <= Calls - remaining
        /\ remaining <= Calls
    BY <1>1 DEF Connected, Budget
  <2>2. ToCome(call) = 0
    BY <1>1 DEF ToCome
  <2> QED BY <2>1, <2>2, <1>1, <1>3, BoundsAreNat DEF Budget
<1> QED
  BY <1>1, <1>3, <1>4, <1>5, <1>7, <1>8 DEF Connected, Within, Idle

LEMMA ExecuteKeeps ==
    ASSUME Connected, issued \in Nat, issued' = issued + 1, command' = command,
           NEW turns \in {1, 2}, Execute(issued + 1, command = "timeout", turns)
    PROVE  Connected'
<1> DEFINE event == command = "timeout"
<1>1. /\ ~Busy /\ evidence = NoEvidence
      /\ UNCHANGED <<posted, wire, server>>
  BY DEF Execute, outside
<1>2. /\ wire' \subseteq [case : 1 .. issued', op : Operations, at : Nat]
      /\ server' \in [fixture : Nat, dirt : SUBSET (1 .. issued'), armed : Nat]
  <2>1. 1 .. issued \subseteq 1 .. issued'
    OBVIOUS
  <2>2. /\ wire \subseteq [case : 1 .. issued, op : Operations, at : Nat]
        /\ server \in [fixture : Nat, dirt : SUBSET (1 .. issued), armed : Nat]
    BY DEF Connected
  <2> QED BY <1>1, <2>1, <2>2
<1>3. event \in BOOLEAN /\ Calls \in Nat
  BY BoundsAreNat
<1>4. CASE Blocked(event) \/ ApiCalls(event, turns) > remaining
  <2>1. /\ UNCHANGED <<lifecycleUncertain, composedUncertain, remaining, call>>
        /\ evidence' \in {BlockedEvidence, [kind |-> "raised"]}
    BY <1>4 DEF Execute
  <2>2. evidence' \in Verbose \cup Silent
    <3>1. BlockedEvidence \in Verbose
      BY DEF BlockedEvidence, Verbose
    <3>2. [kind |-> "raised"] \in Silent
      BY DEF Silent
    <3> QED BY <2>1, <3>1, <3>2
  <2> QED
    BY <1>1, <1>2, <2>1, <2>2
       DEF Connected, Budget, Between, Within, Busy, Uncertain
<1>5. CASE ~Blocked(event) /\ ~(ApiCalls(event, turns) > remaining)
  <2>1. /\ remaining' = remaining - ApiCalls(event, turns)
        /\ lifecycleUncertain' = (lifecycleUncertain \/ event)
        /\ composedUncertain' = (composedUncertain \/ ~event)
        /\ call' = [case |-> issued + 1, event |-> event, script |-> Script(event, turns),
                    at |-> 1, stage |-> "body", post |-> "none", failed |-> "none",
                    refused |-> FALSE, doubt |-> FALSE, eventFailed |-> FALSE,
                    cleanupFailed |-> FALSE, fired |-> FALSE, cleaned |-> FALSE,
                    timers |-> 0, aborted |-> FALSE, tainted |-> FALSE]
        /\ evidence' = evidence
    BY <1>5 DEF Execute
  <2>2. /\ ScriptOK(Script(event, turns), event) /\ Script(event, turns) \in Seq(Operations)
        /\ Len(Script(event, turns)) + 1 + EventCalls(event) = ApiCalls(event, turns)
        /\ Len(Script(event, turns)) \in Nat \ {0} /\ ApiCalls(event, turns) \in Nat
    BY <1>3, ScriptIs DEF ScriptOK
  <2>3. PICK script : script = Script(event, turns)
    OBVIOUS
  <2> HIDE DEF event
  <2>4. /\ call' \in CallType /\ call'.case = issued' /\ call'.event = event
        /\ call'.script = script /\ call'.at = 1 /\ call'.stage = "body"
        /\ call'.post = "none" /\ call'.failed = "none" /\ ~call'.refused
        /\ ~call'.doubt /\ ~call'.eventFailed /\ ~call'.cleanupFailed
    BY <2>1, <2>2, <2>3, <1>3 DEF CallType
  <2>5. wire = {} /\ server.armed = NoCase
    BY <1>1, <1>5 DEF Connected, Between, Uncertain, Blocked, event
  <2>6. Busy'
    BY <2>4 DEF Busy, NoCase
  <2>7. Budget'
    <3>1. posted \in Nat /\ remaining \in Nat /\ remaining <= Calls
          /\ posted <= Calls - remaining
      BY <1>1 DEF Connected, Budget
    <3>2. ToCome(call') = ApiCalls(event, turns)
      BY <2>2, <2>3, <2>4, <1>3 DEF ToCome, Unposted, EventCalls
    <3> QED BY <3>1, <3>2, <2>1, <2>2, <2>6, <1>1, <1>3, <1>5 DEF Budget
  <2>8. Within'
    <3>1. ScriptOK(call'.script, call'.event) /\ call'.at <= Len(call'.script)
      BY <2>2, <2>3, <2>4
    <3>2. Undoubted'
      BY <1>1, <2>4, <2>5 DEF Undoubted
    <3>3. call'.event = (command' = "timeout")
      BY <2>4 DEF event
    <3> QED BY <1>1, <2>4, <2>5, <3>1, <3>2, <3>3 DEF Within, Trusted, NoCase
  <2>9. lifecycleUncertain' \in BOOLEAN /\ composedUncertain' \in BOOLEAN
    BY <1>3, <2>1 DEF Connected
  <2> QED
    BY <1>1, <1>2, <2>1, <2>4, <2>6, <2>7, <2>8, <2>9 DEF Connected, Between, Silent, NoEvidence
<1> QED
  BY <1>4, <1>5

(* What the environment does for a request.                                *)
LEMMA EffectIs ==
    ASSUME issued \in Nat, NEW r \in [case : 1 .. issued, op : Operations, at : Nat],
           server \in [fixture : Nat, dirt : SUBSET (1 .. issued), armed : Nat]
    PROVE  LET s == Effect(r) IN
           /\ s \in [fixture : Nat, dirt : SUBSET (1 .. issued), armed : Nat]
           /\ r.op \in {"reset", "cleanup"} => s.fixture = r.case /\ s.dirt = {}
           /\ r.op \notin {"reset", "cleanup"} =>
                s.fixture = server.fixture /\ s.dirt \subseteq server.dirt \cup {r.case}
           /\ r.op = "clean" => s.armed = IF server.armed = r.case THEN NoCase ELSE server.armed
           /\ r.op = "arm" => s.armed = r.case
           /\ r.op \notin {"arm", "clean"} => s.armed = server.armed
<1>1. r.case \in 1 .. issued /\ r.case \in Nat /\ NoCase \in Nat
  BY DEF NoCase
<1>2. CASE r.op \in {"reset", "cleanup"}
  <2>1. Effect(r) = [server EXCEPT !.fixture = r.case, !.dirt = {}]
    BY <1>2 DEF Effect
  <2> QED BY <1>1, <1>2, <2>1
<1>3. CASE r.op = "execute"
  <2>1. Effect(r) = [server EXCEPT !.dirt = @ \cup {r.case}]
    BY <1>3 DEF Effect
  <2> QED BY <1>1, <1>3, <2>1
<1>4. CASE r.op = "arm"
  <2>1. Effect(r) = [server EXCEPT !.armed = r.case]
    BY <1>4 DEF Effect
  <2> QED BY <1>1, <1>4, <2>1
<1>5. CASE r.op = "clean"
  <2>1. Effect(r) = [server EXCEPT !.armed = IF @ = r.case THEN NoCase ELSE @]
    BY <1>5 DEF Effect
  <2> QED BY <1>1, <1>5, <2>1
<1>6. CASE r.op \notin {"reset", "cleanup", "execute", "arm", "clean"}
  <2>1. Effect(r) = server
    BY <1>6 DEF Effect
  <2> QED BY <1>1, <1>6, <2>1
<1> QED
  BY <1>2, <1>3, <1>4, <1>5, <1>6

LEMMA ServeKeeps ==
    ASSUME Connected, issued \in Nat, issued' = issued, command' = command, Serve
    PROVE  Connected'
<1>1. PICK r \in wire :
         /\ wire' = wire \ {r} /\ server' = Effect(r)
         /\ call' = IF ~Busy \/ call.post # "wire" \/ r # Request THEN call
                    ELSE [call EXCEPT !.post = "served",
                            !.tainted = @ \/ /\ r.op \in {"execute", "snapshot", "observe"}
                                             /\ ~Undisturbed(r.case)]
         /\ UNCHANGED <<lifecycleUncertain, composedUncertain, remaining, posted, evidence>>
  BY DEF Serve
<1>2. /\ r \in [case : 1 .. issued, op : Operations, at : Nat]
      /\ server \in [fixture : Nat, dirt : SUBSET (1 .. issued), armed : Nat]
      /\ wire' \subseteq [case : 1 .. issued, op : Operations, at : Nat]
  BY <1>1 DEF Connected
<1>3. /\ server' \in [fixture : Nat, dirt : SUBSET (1 .. issued), armed : Nat]
      /\ r.op \in {"reset", "cleanup"} => server'.fixture = r.case /\ server'.dirt = {}
      /\ r.op \notin {"reset", "cleanup"} =>
           server'.fixture = server.fixture /\ server'.dirt \subseteq server.dirt \cup {r.case}
      /\ r.op = "clean" =>
           server'.armed = IF server.armed = r.case THEN NoCase ELSE server.armed
      /\ r.op = "arm" => server'.armed = r.case
      /\ r.op \notin {"arm", "clean"} => server'.armed = server.armed
  BY <1>1, <1>2, EffectIs
<1>4. CASE ~Busy
  <2>1. call' = call
    BY <1>1, <1>4
  <2>2. Uncertain /\ Uncertain'
    BY <1>1, <1>4 DEF Connected, Between, Uncertain
  <2> QED
    BY <1>1, <1>2, <1>3, <1>4, <2>1, <2>2 DEF Connected, Budget, Between, Within, Busy
<1>5. CASE Busy
  <2>1. /\ call \in CallType /\ ScriptOK(call.script, call.event) /\ Within
        /\ call.at <= Len(call.script) /\ evidence = NoEvidence
    BY <1>5, BusyIs DEF Connected
  <2>2. r.case = call.case /\ server'.armed \in {NoCase, call'.case} /\ call'.case = call.case
        /\ \A q \in wire' : q.case = call'.case
    <3>1. r.case = call.case /\ server.armed \in {NoCase, call.case}
          /\ \A q \in wire : q.case = call.case
      BY <1>1, <1>5, <2>1 DEF Within
    <3>2. call'.case = call.case
      BY <1>1, <2>1 DEF CallType
    <3> QED BY <1>1, <1>3, <3>1, <3>2
  <2>3. CASE call.post # "wire" \/ r # Request
    <3>1. call' = call
      BY <1>1, <2>3
    <3>2. ~Trusted
      BY <1>1, <1>5, <2>1, <2>3 DEF Within, Undoubted
    <3>3. Within' /\ Busy'
      BY <1>1, <1>5, <2>1, <2>2, <3>1, <3>2 DEF Within, Undoubted, Trusted, Busy
    <3> QED
      BY <1>1, <1>2, <1>3, <1>5, <2>1, <3>1, <3>3 DEF Connected, Budget, Between, ToCome
  <2>4. CASE call.post = "wire" /\ r = Request
    <3>1. /\ r.op = Operation /\ Operation \in Operations
          /\ call.stage = "body" /\ call.at > 1 => Operation \notin {"reset", "clean", "cleanup"}
          /\ call.stage = "body" /\ call.at = 1 => Operation = "reset"
          /\ call.stage = "clean" => Operation = "clean"
          /\ call.stage \in {"cleanup", "done"} => Operation = "cleanup"
          /\ call.stage = "body" => Operation = call.script[call.at]
          /\ call.at \in Nat \ {0} /\ Len(call.script) \in Nat
          /\ call.stage \in {"body", "clean", "cleanup"}
      <4>1. call.stage # "done"
        BY <1>5, <2>1, <2>4 DEF Within
      <4> QED BY <2>1, <2>4, <4>1, RequestIs DEF CallType
    <3>2. r.op \in {"execute", "snapshot", "observe"} => Undisturbed(r.case)
      <4>1. ASSUME r.op \in {"execute", "snapshot", "observe"}
            PROVE  call.stage = "body" /\ call.at > 1
        BY <4>1, <3>1
      <4>2. call.stage = "body" /\ call.at > 1 =>
                server.fixture = call.case /\ server.dirt \subseteq {call.case}
        BY <1>5, <2>1 DEF Within
      <4>3. server.armed \in {NoCase, call.case}
        BY <1>5, <2>1 DEF Within
      <4> QED BY <4>1, <4>2, <4>3, <2>2 DEF Undisturbed
    <3>3. call' = [call EXCEPT !.post = "served", !.tainted = FALSE]
      BY <1>1, <1>5, <2>1, <2>4, <3>2 DEF CallType
    <3>4. /\ call' \in CallType /\ call'.post = "served"
          /\ call'.event = call.event /\ call'.script = call.script
          /\ call'.at = call.at /\ call'.stage = call.stage
          /\ call'.failed = call.failed /\ call'.refused = call.refused
          /\ call'.doubt = call.doubt
          /\ call'.eventFailed = call.eventFailed /\ call'.cleanupFailed = call.cleanupFailed
      BY <2>1, <3>3 DEF CallType
    <3>5. Busy' /\ (ArmAttempted' <=> ArmAttempted) /\ (Trusted' <=> Trusted)
      BY <1>5, <2>2, <3>4 DEF Busy, ArmAttempted, Trusted
    <3>6. r.op = "arm" => ArmAttempted
      BY <2>1, <3>1 DEF ArmAttempted, ScriptOK
    <3>7. Undoubted'
      <4>1. Trusted => wire = {r} /\ (server.armed # NoCase =>
                           ArmAttempted /\ call.stage \in {"body", "clean"})
        BY <1>5, <2>1, <2>4 DEF Within, Undoubted
      <4>2. server.armed \in {NoCase, r.case} /\ (r.op = "clean" => server'.armed = NoCase)
        BY <1>3, <1>5, <2>1, <2>2 DEF Within
      <4>3. Trusted => wire' = {}
        BY <1>1, <4>1
      <4>4. Trusted /\ server'.armed # NoCase => ArmAttempted /\ call.stage \in {"body", "clean"}
        BY <1>3, <3>1, <3>6, <4>1, <4>2
      <4> QED BY <3>1, <3>4, <3>5, <4>2, <4>3, <4>4 DEF Undoubted
    <3>8. call.stage = "body" => server'.fixture = call.case /\ server'.dirt \subseteq {call.case}
      <4>1. call.stage = "body" /\ call.at > 1 =>
                server.fixture = call.case /\ server.dirt \subseteq {call.case}
        BY <1>5, <2>1 DEF Within
      <4> QED BY <1>3, <2>2, <3>1, <4>1
    <3>9. Within'
      BY <1>5, <2>1, <2>2, <3>1, <3>4, <3>5, <3>7, <3>8 DEF Within
    <3>10. Budget'
      <4>1. ToCome(call') = ToCome(call)
        BY <2>4, <3>4 DEF ToCome, Unposted
      <4> QED BY <1>1, <1>5, <3>5, <4>1 DEF Connected, Budget
    <3> QED
      BY <1>1, <1>2, <1>3, <2>1, <3>4, <3>5, <3>9, <3>10 DEF Connected, Between
  <2> QED BY <2>3, <2>4
<1> QED
  BY <1>4, <1>5

(* A connection that is closed.                                            *)
LEMMA ClosedIsConnected ==
    ASSUME Disconnected', issued' \in Nat
    PROVE  Connected'
<1>1. ~Busy' /\ call' = Idle /\ evidence' = NoEvidence
  BY DEF Disconnected, Busy, Idle
<1>2. server' \in [fixture : Nat, dirt : SUBSET (1 .. issued'), armed : Nat]
  BY DEF Disconnected, NoCase
<1>3. Budget'
  BY <1>1, BoundsAreNat DEF Disconnected, Budget
<1>4. evidence' \in Verbose \cup Silent
  BY <1>1 DEF Silent, NoEvidence
<1>5. /\ lifecycleUncertain' \in BOOLEAN /\ composedUncertain' \in BOOLEAN
      /\ wire' \subseteq [case : 1 .. issued', op : Operations, at : Nat]
      /\ Between' /\ Within'
  BY <1>1 DEF Disconnected, Between, Within
<1> QED
  BY <1>1, <1>2, <1>3, <1>4, <1>5 DEF Connected

-----------------------------------------------------------------------------
(* The numbers of a campaign: its last trial belongs to its last case.     *)
LEMMA Quotients ==
    ASSUME NEW W \in Nat \ {0}, NEW k \in Nat
    PROVE  k \div W \in Nat /\ k % W \in 0 .. W - 1 /\ k = W * (k \div W) + (k % W)
  BY Z3

LEMMA Multiples ==
    ASSUME NEW W \in Nat, NEW a \in Nat, NEW b \in Nat, a <= b
    PROVE  W * a <= W * b
  BY Z3

LEMMA CountsArePositive ==
    /\ Repetitions \in Nat \ {0} /\ Cases \in Nat \ {0} /\ TrialCount \in Nat \ {0}
    /\ \A n \in 1 .. TrialCount : CaseOf(n) \in 1 .. Cases
<1>1. Repetitions \in Nat \ {0} /\ Cases \in Nat \ {0}
  BY CampaignsAreNotEmpty DEF Cases
<1>2. PICK R \in Nat \ {0}, C \in Nat \ {0} : R = Repetitions /\ C = Cases
  BY <1>1
<1>3. R * C \in Nat \ {0}
  BY Z3
<1>4. TrialCount = R * C
  BY <1>2 DEF TrialCount
<1>5. ASSUME NEW n \in 1 .. R * C
      PROVE  ((n - 1) \div R) + 1 \in 1 .. C
  <2>1. n - 1 \in Nat /\ R * C \in Nat
    BY <1>3
  <2>2. PICK q \in Nat, m \in 0 .. R - 1 : /\ q = (n - 1) \div R /\ n - 1 = R * q + m
    BY <2>1, Quotients
  <2>3. q < C
    <3>1. SUFFICES ASSUME C <= q PROVE FALSE
      OBVIOUS
    <3>2. R * C <= R * q
      BY <3>1, Multiples
    <3>3. PICK x \in Nat, y \in Nat : x = R * C /\ y = R * q
      OBVIOUS
    <3> QED BY <2>2, <3>2, <3>3
  <2> QED BY <2>2, <2>3
<1> QED
  BY <1>1, <1>2, <1>3, <1>4, <1>5 DEF CaseOf

(* What a loop records: nothing of it is tainted.                          *)
LEMMA TrialIs ==
    ASSUME NEW why \in {"ok", "failed", "timeout", "skipped", "unfired"},
           NEW base \in Observed \cup {"none"}, NEW first \in Observed \cup {"none"},
           NEW seen \in Observed \cup {"none"}, NEW e \in Verbose \cup Silent,
           NEW t, t = Trial(why, base, first, seen, e)
    PROVE  /\ t \in TrialType /\ t.why = why /\ t.base = base
           /\ t.first = first /\ t.seen = seen
<1>1. ("doubt" \in DOMAIN e /\ RequiresQuarantine(e)) \in BOOLEAN
  OBVIOUS
<1>2. ("tainted" \in DOMAIN e /\ e.tainted) = FALSE
  <2>1. CASE e \in Verbose
    BY <2>1 DEF Verbose
  <2>2. CASE e \in Silent
    BY <2>2 DEF Silent
  <2> QED BY <2>1, <2>2
<1> QED
  BY <1>1, <1>2 DEF Trial, TrialType

LEMMA RecordKeeps ==
    ASSUME Looped, stage = "run", Len(trials) < TrialCount, command' = command,
           NEW trial \in TrialType, TrialOK(trial), NEW doubt \in BOOLEAN,
           RecordTrial(trial, doubt), call' = call, ~Busy, evidence' = NoEvidence
    PROVE  Looped'
<1>1. /\ trials' = Append(trials, trial) /\ pair' = NoPair
      /\ stage' = stage /\ issued' = issued /\ verdict' = verdict
      /\ doubted' \in BOOLEAN
  BY DEF RecordTrial, shell
<1>2. quarantined' \in BOOLEAN
  BY DEF RecordTrial, Looped
<1>3. trials \in Seq(TrialType) /\ Len(trials) \in Nat
  BY DEF Looped, Trials
<1>4. /\ trials' \in Seq(TrialType) /\ Len(trials') = Len(trials) + 1
      /\ \A n \in DOMAIN trials' :
            \/ trials'[n] = trial
            \/ n \in DOMAIN trials /\ trials'[n] = trials[n]
  BY <1>1, <1>3
<1>5. Trials(trials)'
  BY <1>4 DEF Looped, Trials, TrialOK, Paired
<1>6. TrialCount' = TrialCount /\ TrialCount \in Nat
  BY CountsArePositive DEF TrialCount, Cases
<1> QED
  BY <1>1, <1>2, <1>3, <1>4, <1>5, <1>6 DEF Looped, Busy
-----------------------------------------------------------------------------
(* The verdicts.                                                           *)
LEMMA AggregateIs ==
    ASSUME NEW S
    PROVE  /\ Aggregate(S) \in {"violated", "satisfied", "not_evaluable"}
           /\ Aggregate(S) = "violated" <=> "violated" \in S
           /\ Aggregate(S) = "satisfied" <=> "violated" \notin S /\ "none" \notin S
           /\ Aggregate(S) = "not_evaluable" <=> "violated" \notin S /\ "none" \in S
  BY DEF Aggregate

LEMMA ArmsAre ==
    ASSUME NEW all, Trials(all), NEW arm \in {"base", "first", "seen"}
    PROVE  /\ ArmStatus(all, arm) \in {"violated", "satisfied", "not_evaluable"}
           /\ ArmStatus(all, arm) = "violated" <=> \E n \in DOMAIN all : all[n][arm] = "violated"
           /\ ArmStatus(all, arm) = "satisfied" <=>
                \A n \in DOMAIN all : all[n][arm] = "satisfied"
           /\ ArmStatus(all, arm) = "not_evaluable" <=>
                /\ \A n \in DOMAIN all : all[n][arm] # "violated"
                /\ \E n \in DOMAIN all : all[n][arm] = "none"
<1>1. \A n \in DOMAIN all : all[n][arm] \in {"satisfied", "violated", "none"}
  <2>1. ASSUME NEW n \in DOMAIN all PROVE all[n] \in TrialType
    BY DEF Trials
  <2>2. ASSUME NEW t \in TrialType PROVE t[arm] \in {"satisfied", "violated", "none"}
    <3>1. CASE arm = "base"
      BY <3>1 DEF TrialType, Observed
    <3>2. CASE arm = "first"
      BY <3>2 DEF TrialType, Observed
    <3>3. CASE arm = "seen"
      BY <3>3 DEF TrialType, Observed
    <3> QED BY <3>1, <3>2, <3>3
  <2> QED BY <2>1, <2>2
<1> QED
  BY <1>1, AggregateIs DEF ArmStatus

LEMMA TrialsAre ==
    ASSUME NEW all, AllTrials(all)
    PROVE  /\ DOMAIN all = 1 .. TrialCount /\ 1 \in DOMAIN all
           /\ \A n \in DOMAIN all :
                /\ all[n].seen \in {"satisfied", "violated", "none"} /\ ~all[n].tainted
                /\ all[n].seen # "none" <=> all[n].why = "ok"
                /\ all[n].seen # "none" => Sound(all[n])
                /\ CaseOf(n) \in 1 .. Cases
<1>1. TrialCount \in Nat \ {0} /\ \A n \in 1 .. TrialCount : CaseOf(n) \in 1 .. Cases
  BY CountsArePositive
<1>2. DOMAIN all = 1 .. TrialCount
  BY <1>1 DEF AllTrials, Trials
<1>3. \A n \in DOMAIN all : all[n] \in TrialType /\ TrialOK(all[n])
  BY DEF AllTrials, Trials
<1>4. ASSUME NEW t \in TrialType, TrialOK(t)
      PROVE  /\ t.seen \in {"satisfied", "violated", "none"} /\ ~t.tainted
             /\ t.seen # "none" <=> t.why = "ok"
             /\ t.seen # "none" => Sound(t)
  BY <1>4 DEF TrialType, TrialOK, Sound, Observed
<1> QED
  BY <1>1, <1>2, <1>3, <1>4

LEMMA StableIsEarned ==
    ASSUME NEW all, AllTrials(all), NEW gaps \in BOOLEAN, SomeInconclusive(all) => gaps
    PROVE  LET v == StableVerdict(all, gaps) IN
           /\ v = "passed" => \A n \in DOMAIN all : Sound(all[n]) /\ all[n].seen = "satisfied"
           /\ v = "failed" => ~gaps /\ AlwaysViolated(all)
                              /\ \A n \in DOMAIN all : Sound(all[n]) /\ all[n].seen = "violated"
<1>1. ~gaps => \A n \in DOMAIN all : all[n].why = "ok" /\ Sound(all[n])
                                     /\ all[n].seen \in {"satisfied", "violated"}
  BY TrialsAre DEF SomeInconclusive
<1>2. ArmStatus(all, "seen") # "violated" => \A n \in DOMAIN all : all[n].seen # "violated"
  BY ArmsAre DEF AllTrials
<1> QED
  BY <1>1, <1>2 DEF StableVerdict, AlwaysViolated

LEMMA CorrectionIsEarned ==
    ASSUME NEW all, AllTrials(all)
    PROVE  /\ CorrectionVerdict(all) = "passed" =>
                /\ \A n \in DOMAIN all : Sound(all[n]) /\ all[n].seen = "satisfied"
                /\ ArmStatus(all, "seen") # "violated"
           /\ CorrectionVerdict(all) = "failed" =>
                /\ \E n \in DOMAIN all : Sound(all[n]) /\ all[n].seen = "violated"
                /\ \A n \in DOMAIN all : all[n].base = "satisfied"
                /\ ArmStatus(all, "seen") = "violated"
<1>1. /\ ArmStatus(all, "base") = "satisfied" <=> \A n \in DOMAIN all : all[n].base = "satisfied"
      /\ ArmStatus(all, "seen") = "violated" <=> \E n \in DOMAIN all : all[n].seen = "violated"
  BY ArmsAre DEF AllTrials
<1>2. \A n \in DOMAIN all :
        /\ all[n].seen \in {"satisfied", "violated", "none"}
        /\ all[n].seen # "none" <=> all[n].why = "ok"
        /\ all[n].seen # "none" => Sound(all[n])
  BY TrialsAre
<1> QED
  BY <1>1, <1>2 DEF CorrectionVerdict, SomeInconclusive

LEMMA RegressionIsEarned ==
    ASSUME NEW all, AllTrials(all)
    PROVE  /\ RunVerdict(all) = "passed" =>
                \A n \in DOMAIN all : Sound(all[n]) /\ all[n].seen = "satisfied"
           /\ RunVerdict(all) = "failed" =>
                \E n \in DOMAIN all : Sound(all[n]) /\ all[n].seen = "violated"
<1>1. \A n \in DOMAIN all :
        /\ all[n].seen \in {"satisfied", "violated", "none"}
        /\ all[n].seen # "none" => Sound(all[n])
        /\ CaseOf(n) \in 1 .. Cases
  BY TrialsAre
<1>2. ASSUME NEW k \in 1 .. Cases
      PROVE  /\ RegressionVerdict(all, k) \in {"failed", "inconclusive", "passed"}
             /\ RegressionVerdict(all, k) = "passed" =>
                    \A t \in TrialsOfCase(all, k) : t.seen \notin {"violated", "none"}
             /\ RegressionVerdict(all, k) = "failed" =>
                    \E t \in TrialsOfCase(all, k) : t.seen = "violated"
  <2>1. PICK S : S = {t.seen : t \in TrialsOfCase(all, k)}
    OBVIOUS
  <2> QED BY <2>1, AggregateIs DEF RegressionVerdict
<1>3. ASSUME RunVerdict(all) = "passed", NEW n \in DOMAIN all
      PROVE  Sound(all[n]) /\ all[n].seen = "satisfied"
  <2>1. RegressionVerdict(all, CaseOf(n)) = "passed"
    BY <1>1, <1>2, <1>3 DEF RunVerdict
  <2>2. all[n] \in TrialsOfCase(all, CaseOf(n))
    BY DEF TrialsOfCase
  <2> QED BY <1>1, <1>2, <2>1, <2>2
<1>4. ASSUME RunVerdict(all) = "failed"
      PROVE  \E n \in DOMAIN all : Sound(all[n]) /\ all[n].seen = "violated"
  <2>1. PICK k \in 1 .. Cases : RegressionVerdict(all, k) = "failed"
    BY <1>4 DEF RunVerdict
  <2>2. PICK t \in TrialsOfCase(all, k) : t.seen = "violated"
    BY <1>2, <2>1
  <2>3. PICK n \in DOMAIN all : t = all[n]
    BY DEF TrialsOfCase
  <2> QED BY <1>1, <2>2, <2>3
<1> QED
  BY <1>3, <1>4

LEMMA TracesAreSound ==
    ASSUME NEW all, AllTrials(all), NEW k,
           TraceVerdict(all, k) \in {"reproduced", "drifted"}
    PROVE  \A t \in TrialsOfCase(all, k) : Sound(t)
<1>1. \A t \in TrialsOfCase(all, k) : t.why = "ok"
  BY DEF TraceVerdict
<1>2. \A n \in DOMAIN all : ~all[n].tainted
  BY TrialsAre
<1> QED
  BY <1>1, <1>2 DEF TrialsOfCase, Sound

(* Every verdict is earned by the trials it is a function of.              *)
LEMMA VerdictsAreEarned ==
    ASSUME NEW all, AllTrials(all), command \in Commands
    PROVE  Earned(all, VerdictOf(all))
<1> DEFINE v == VerdictOf(all)
<1>1. command \in {"timeout", "correction", "retry", "replay", "trace_case", "trace",
                   "regression_case", "regression"}
  BY CommandsAreKnown
<1>2. Traced => \A k \in 1 .. Cases :
         TraceVerdict(all, k) \in {"reproduced", "drifted"} =>
                \A t \in TrialsOfCase(all, k) : Sound(t)
  BY TracesAreSound
<1>3. 1 \in DOMAIN all
  BY TrialsAre
<1>4. ArmStatus(all, "base") = "satisfied" => \A n \in DOMAIN all : all[n].base = "satisfied"
  BY ArmsAre DEF AllTrials
<1>5. CASE command = "timeout"
  <2>1. PICK gaps \in BOOLEAN :
            gaps = (SomeInconclusive(all) \/ ArmStatus(all, "seen") = "not_evaluable")
    OBVIOUS
  <2>2. VerdictOf(all) = StableVerdict(all, gaps)
    BY <1>5, <2>1 DEF VerdictOf
  <2>3. /\ v = "passed" => \A n \in DOMAIN all : Sound(all[n]) /\ all[n].seen = "satisfied"
        /\ v = "failed" => \A n \in DOMAIN all : Sound(all[n]) /\ all[n].seen = "violated"
    BY <2>1, <2>2, StableIsEarned
  <2> QED BY <1>2, <1>3, <1>5, <2>3 DEF Earned, Paired
<1>6. CASE command = "retry"
  <2>1. PICK gaps \in BOOLEAN :
            gaps = (\/ SomeInconclusive(all)
                    \/ DriftObserved(all)
                    \/ ArmStatus(all, "base") # "satisfied"
                    \/ ArmStatus(all, "first") # "satisfied"
                    \/ ArmStatus(all, "seen") = "not_evaluable")
    OBVIOUS
  <2>2. VerdictOf(all) = StableVerdict(all, gaps)
    BY <1>6, <2>1 DEF VerdictOf, RetryVerdict
  <2>3. /\ v = "passed" => \A n \in DOMAIN all : Sound(all[n]) /\ all[n].seen = "satisfied"
        /\ v = "failed" => ~gaps
                 /\ \A n \in DOMAIN all : Sound(all[n]) /\ all[n].seen = "violated"
    BY <2>1, <2>2, StableIsEarned
  <2> QED BY <1>2, <1>3, <1>4, <1>6, <2>1, <2>3 DEF Earned
<1>7. CASE command \in {"correction", "replay"}
  <2>1. VerdictOf(all) = CorrectionVerdict(all)
    BY <1>7 DEF VerdictOf
  <2> QED BY <1>2, <1>7, <2>1, CorrectionIsEarned DEF Earned
<1>8. CASE command \in {"trace_case", "trace"}
  <2>1. VerdictOf(all) \notin {"passed", "failed"}
    BY <1>8 DEF VerdictOf, TraceVerdict, CampaignVerdict
  <2> QED BY <1>2, <2>1 DEF Earned
<1>9. CASE command \in {"regression_case", "regression"}
  <2>1. VerdictOf(all) = RunVerdict(all) /\ ~Paired /\ command \notin {"timeout", "retry"}
    BY <1>9 DEF VerdictOf, Paired
  <2> QED BY <1>2, <2>1, RegressionIsEarned DEF Earned
<1> QED
  BY <1>1, <1>5, <1>6, <1>7, <1>8, <1>9

(* The findings of correction and retry agree with their verdict.          *)
LEMMA FindingsAgree ==
    ASSUME NEW all, AllTrials(all), Publishes
    PROVE  /\ VerdictOf(all) = "passed" => FindingsOf(all) = {}
           /\ VerdictOf(all) = "failed" =>
                /\ ArmStatus(all, "seen") = "violated" /\ FindingsOf(all) # {}
                /\ SourceState(all) = "satisfied"
                /\ command = "retry" => AlwaysViolated(all)
<1>1. /\ ArmStatus(all, "seen") = "violated" <=> \E n \in DOMAIN all : all[n].seen = "violated"
      /\ ArmStatus(all, "first") = "satisfied" => \A n \in DOMAIN all : all[n].first = "satisfied"
  BY ArmsAre DEF AllTrials
<1>2. 1 \in DOMAIN all
  BY TrialsAre
<1>3. /\ VerdictOf(all) = "passed" => ArmStatus(all, "seen") # "violated"
      /\ VerdictOf(all) = "failed" =>
            /\ ArmStatus(all, "seen") = "violated"
            /\ \A n \in DOMAIN all : all[n][SourceArm] = "satisfied"
            /\ command = "retry" => AlwaysViolated(all)
  <2>1. CASE command = "correction"
    <3>1. VerdictOf(all) = CorrectionVerdict(all) /\ SourceArm = "base"
      BY <2>1 DEF VerdictOf, SourceArm
    <3> QED BY <2>1, <3>1, CorrectionIsEarned
  <2>2. CASE command = "retry"
    <3>1. PICK gaps \in BOOLEAN :
              gaps = (\/ SomeInconclusive(all)
                      \/ DriftObserved(all)
                      \/ ArmStatus(all, "base") # "satisfied"
                      \/ ArmStatus(all, "first") # "satisfied"
                      \/ ArmStatus(all, "seen") = "not_evaluable")
      OBVIOUS
    <3>2. VerdictOf(all) = StableVerdict(all, gaps) /\ SourceArm = "first"
      BY <2>2, <3>1 DEF VerdictOf, RetryVerdict, SourceArm
    <3>3. /\ VerdictOf(all) = "passed" => \A n \in DOMAIN all : all[n].seen = "satisfied"
          /\ VerdictOf(all) = "failed" => ~gaps /\ AlwaysViolated(all)
                  /\ \A n \in DOMAIN all : all[n].seen = "violated"
      BY <3>1, <3>2, StableIsEarned
    <3> QED BY <1>1, <1>2, <3>1, <3>2, <3>3
  <2> QED BY <2>1, <2>2 DEF Publishes
<1>4. VerdictOf(all) = "failed" => SourceState(all) = "satisfied"
  <2>1. SUFFICES ASSUME VerdictOf(all) = "failed"
                 PROVE  SourceState(all) = "satisfied"
    OBVIOUS
  <2>2. PICK n \in DOMAIN all : all[n].seen = "violated"
    BY <1>1, <1>3, <2>1
  <2>3. Repetition(all[n]) = "finding_observed"
    BY <1>3, <2>1, <2>2 DEF Repetition
  <2>4. PICK sources : sources = {all[i][SourceArm] :
                         i \in {m \in DOMAIN all : Repetition(all[m]) = "finding_observed"}}
    OBVIOUS
  <2>5. sources = {"satisfied"}
    BY <1>3, <2>1, <2>3, <2>4
  <2>6. Cardinality(sources) = 1
    BY <2>5, FS_Singleton
  <2>7. (CHOOSE x \in sources : TRUE) = "satisfied"
    BY <2>5
  <2> QED BY <2>4, <2>6, <2>7 DEF SourceState
<1> QED
  BY <1>3, <1>4 DEF FindingsOf

(* A result on disk is earned, and so are its packages.                    *)
LEMMA WholeIsEarned ==
    ASSUME FilesOK(files), command \in Commands
    PROVE  ResultIsEarned
<1>1. SUFFICES ASSUME files.output.state = "whole" PROVE ResultIsEarned
  BY DEF ResultIsEarned
<1>2. PICK all : all = files.output.all
  OBVIOUS
<1>3. AllTrials(all)
  BY <1>1, <1>2 DEF FilesOK, Absent, Torn, Foreign
<1>4. Len(all) = TrialCount /\ Earned(all, VerdictOf(all))
  BY <1>3, VerdictsAreEarned DEF AllTrials
<1>5. VerdictOf(all) = "failed" /\ command \in {"timeout", "correction", "retry"}
          => ReportsARule(all)
  <2>1. SUFFICES ASSUME VerdictOf(all) = "failed", command \in {"timeout", "correction", "retry"}
                 PROVE  ReportsARule(all)
    OBVIOUS
  <2>2. command \in {"correction", "retry"} =>
            ArmStatus(all, "seen") = "violated" /\ (command = "retry" => AlwaysViolated(all))
    BY <1>3, <2>1, FindingsAgree DEF Publishes
  <2>3. command = "timeout" => AlwaysViolated(all)
    BY <1>4, <2>1 DEF Earned, AlwaysViolated
  <2> QED BY <2>1, <2>2, <2>3 DEF ReportsARule
<1>6. ASSUME Publishes, files.packages # Unpublished
      PROVE  /\ VerdictOf(all) = "passed" => files.packages.findings = {}
             /\ VerdictOf(all) = "failed" => files.packages.findings # {}
             /\ \A f \in files.packages.findings :
                  /\ VerdictOf(all) = "failed" => f.source = "satisfied"
                  /\ \A n \in DOMAIN all :
                        f.repetitions[n] = "finding_observed" => Sound(all[n])
  <2>1. files.packages.findings = FindingsOf(all)
    BY <1>1, <1>2, <1>6 DEF FilesOK, Published
  <2>2. \A f \in FindingsOf(all) :
            /\ f.source = SourceState(all)
            /\ \A n \in DOMAIN all : f.repetitions[n] = Repetition(all[n])
    BY DEF FindingsOf
  <2>3. \A n \in DOMAIN all : Repetition(all[n]) = "finding_observed" => Sound(all[n])
    BY <1>3, TrialsAre DEF Repetition
  <2> QED BY <1>3, <1>6, <2>1, <2>2, <2>3, FindingsAgree
<1> QED
  BY <1>2, <1>4, <1>5, <1>6 DEF ResultIsEarned
-----------------------------------------------------------------------------
(* The command is the same for the whole behaviour, and with it everything *)
(* that is a function of the command.                                      *)
LEMMA CommandStays ==
    ASSUME command' = command
    PROVE  /\ (Publishes' <=> Publishes) /\ (Paired' <=> Paired) /\ TrialCount' = TrialCount
           /\ \A all : AllTrials(all)' <=> AllTrials(all)
           /\ \A all : Trials(all)' <=> Trials(all)
           /\ \A all : FindingsOf(all)' = FindingsOf(all)
           /\ \A all : VerdictOf(all)' = VerdictOf(all)
<1>1. (Publishes' <=> Publishes) /\ (Paired' <=> Paired) /\ TrialCount' = TrialCount
  BY DEF Publishes, Paired, TrialCount, Cases
<1>2. \A all : (AllTrials(all)' <=> AllTrials(all)) /\ (Trials(all)' <=> Trials(all))
  BY DEF AllTrials, Trials, TrialOK, Paired, TrialCount, Cases
<1>3. \A all : FindingsOf(all)' = FindingsOf(all)
  BY DEF FindingsOf, SourceState, Repetition, SourceArm
<1>4. \A all : VerdictOf(all)' = VerdictOf(all)
  BY DEF VerdictOf, CampaignVerdict, RunVerdict, Cases
<1> QED
  BY <1>1, <1>2, <1>3, <1>4

LEMMA FilesOKStays ==
    ASSUME command' = command, NEW f, FilesOK(f), files' = f
    PROVE  FilesOK(files)'
  BY CommandStays DEF FilesOK

(* Steps within a run leave the files alone.                               *)
LEMMA KeptStays ==
    ASSUME Kept, stage = "run", UNCHANGED shell
    PROVE  Kept'
<1>1. /\ command' = command /\ request' = request /\ stage' = stage /\ files' = files
      /\ exit' = exit /\ invocations' = invocations
  BY DEF shell
<1>2. FilesOK(files)'
  BY <1>1, FilesOKStays DEF Kept
<1>3. Publishes' <=> Publishes
  BY <1>1, CommandStays
<1>4. ExitIsBacked'
  BY <1>1 DEF ExitIsBacked
<1> QED
  BY <1>1, <1>2, <1>3, <1>4 DEF Kept

LEMMA LoopedStays ==
    ASSUME Looped, command' = command, stage' = stage, UNCHANGED loop,
           Busy' \/ evidence' # NoEvidence => Len(trials) < TrialCount
    PROVE  Looped'
<1>1. /\ trials' = trials /\ pair' = pair /\ doubted' = doubted
      /\ quarantined' = quarantined /\ issued' = issued /\ verdict' = verdict
  BY DEF loop
<1>2. /\ TrialCount' = TrialCount /\ VerdictOf(trials)' = VerdictOf(trials)
      /\ (Trials(trials)' <=> Trials(trials)) /\ (Paired' <=> Paired)
  BY <1>1, CommandStays
<1> QED
  BY <1>1, <1>2 DEF Looped

LEMMA TakenKeeps ==
    ASSUME Connected, ~Busy, Taken, issued' = issued, command' = command
    PROVE  Connected' /\ ~Busy'
<1>1. /\ evidence' = NoEvidence
      /\ UNCHANGED <<lifecycleUncertain, composedUncertain, remaining, posted, call, wire, server>>
  BY DEF Taken, outside
<1>2. NoEvidence \in Silent
  BY DEF NoEvidence, Silent
<1> QED
  BY <1>1, <1>2 DEF Connected, Budget, Between, Within, Busy, Uncertain

(* Steps of the connection and of the environment.                         *)
LEMMA ConnectionKeeps ==
    ASSUME IInv, Connection \/ Environment \/ Interruption
    PROVE  IInv'
<1>1. /\ stage = "run" /\ UNCHANGED shell /\ UNCHANGED loop
      /\ command' = command /\ stage' = stage /\ issued' = issued
  BY DEF Connection, Environment, Interruption, Running, shell, loop
<1>2. Connected /\ Looped /\ Kept /\ issued \in Nat
  BY DEF IInv, Looped
<1>3. Kept'
  BY <1>1, <1>2, KeptStays
<1>4. Connected'
  <2>1. CASE Connection
    <3>1. CASE Post
      BY <1>1, <1>2, <3>1, PostKeeps
    <3>2. CASE Reply
      BY <1>1, <1>2, <3>2, ReplyKeeps
    <3>3. CASE FailWrong
      BY <1>1, <1>2, <3>3, FailKeeps DEF FailWrong
    <3>4. CASE FailLost
      BY <1>1, <1>2, <3>4, FailKeeps DEF FailLost
    <3>5. CASE Return
      BY <1>1, <1>2, <3>5, ReturnKeeps
    <3> QED BY <2>1, <3>1, <3>2, <3>3, <3>4, <3>5 DEF Connection, Step
  <2>2. CASE Environment
    BY <1>1, <1>2, <2>2, ServeKeeps DEF Environment
  <2>3. CASE Interruption
    BY <1>1, <1>2, <2>3, InterruptKeeps DEF Interruption
  <2> QED BY <2>1, <2>2, <2>3
<1>5. Busy' \/ evidence' # NoEvidence => Len(trials) < TrialCount
  <2>1. CASE Environment
    <3>1. evidence' = evidence /\ (~Busy => call' = call)
      BY <2>1 DEF Environment, Serve
    <3> QED BY <1>2, <3>1 DEF Looped, Busy
  <2>2. CASE Connection \/ Interruption
    <3>1. Busy
      BY <2>2 DEF Connection, Step, Post, Reply, FailWrong, FailLost, Fail, Return,
                  Interruption, Interrupt
    <3> QED BY <1>2, <3>1 DEF Looped
  <2> QED BY <2>1, <2>2
<1>6. Looped'
  BY <1>1, <1>2, <1>5, LoopedStays
<1> QED
  BY <1>1, <1>3, <1>4, <1>6 DEF IInv

(* The loop over the trials.                                               *)
LEMMA TrialKeeps ==
    ASSUME IInv, SkipTrial \/ TakeFailure \/ TakeTimeout \/ Complete
    PROVE  IInv'
<1>1. /\ stage = "run" /\ Connected /\ Looped /\ Kept /\ issued \in Nat
      /\ evidence \in Verbose \cup Silent
  BY DEF SkipTrial, MoreTrials, TakeFailure, TakeTimeout, Complete, Running, IInv, Looped,
         Connected
<1>2. SkipTrial => ~Busy /\ Len(trials) < TrialCount
  BY DEF SkipTrial, MoreTrials
<1>3. ~SkipTrial => evidence # NoEvidence
  <2>1. CASE TakeFailure
    BY <2>1 DEF TakeFailure, NoEvidence
  <2>2. CASE TakeTimeout
    BY <2>2 DEF TakeTimeout, NoEvidence
  <2>3. CASE Complete
    BY <2>3 DEF Complete, NoEvidence
  <2> QED BY <2>1, <2>2, <2>3
<1>4. ~Busy /\ Len(trials) < TrialCount
  BY <1>1, <1>2, <1>3 DEF Connected, Looped
<1>5. pair \in Observed \cup {"none"} /\ doubted \in BOOLEAN
  BY <1>1 DEF Looped, NoPair
<1>6. PICK trial \in TrialType, doubt \in BOOLEAN :
         /\ TrialOK(trial) /\ RecordTrial(trial, doubt)
         /\ Taken \/ (UNCHANGED httpVars /\ evidence = NoEvidence)
  <2>0. Base \in Observed \cup {"none"}
    BY <1>5 DEF Base
  <2>1. CASE SkipTrial
    <3>1. PICK t : t = Trial("skipped", "none", "none", "none", NoEvidence)
      OBVIOUS
    <3>2. NoEvidence \in Verbose \cup Silent
      BY DEF NoEvidence, Silent
    <3>3. t \in TrialType /\ t.why = "skipped" /\ t.first = "none" /\ t.seen = "none"
      BY <3>1, <3>2, TrialIs DEF Observed
    <3>4. TrialOK(t) /\ RecordTrial(t, doubted) /\ UNCHANGED httpVars /\ evidence = NoEvidence
      BY <2>1, <3>1, <3>3 DEF TrialOK, SkipTrial, MoreTrials
    <3> QED BY <1>5, <3>3, <3>4
  <2>2. CASE TakeFailure
    <3>1. PICK t : t = Trial("failed", Base, "none", "none", evidence)
      OBVIOUS
    <3>2. t \in TrialType /\ t.why = "failed" /\ t.first = "none" /\ t.seen = "none"
      BY <1>1, <2>0, <3>1, TrialIs DEF Observed
    <3>3. PICK d : d = IF evidence.kind = "failed" THEN RequiresQuarantine(evidence)
                       ELSE doubted \/ command = "timeout"
      OBVIOUS
    <3>4. d \in BOOLEAN
      BY <1>1, <1>5, <3>3 DEF RequiresQuarantine, Verbose, Silent
    <3>5. TrialOK(t) /\ RecordTrial(t, d) /\ Taken
      BY <2>2, <3>1, <3>2, <3>3 DEF TrialOK, TakeFailure
    <3> QED BY <3>2, <3>4, <3>5
  <2>3. CASE TakeTimeout
    <3>1. PICK t : t = Trial("timeout", Base, "none", "none", evidence)
      OBVIOUS
    <3>2. t \in TrialType /\ t.why = "timeout" /\ t.first = "none" /\ t.seen = "none"
      BY <1>1, <2>0, <3>1, TrialIs DEF Observed
    <3>3. TrialOK(t) /\ RecordTrial(t, TRUE) /\ Taken
      BY <2>3, <3>1, <3>2 DEF TrialOK, TakeTimeout
    <3> QED BY <3>2, <3>3
  <2>4. CASE Complete
    <3>1. PICK seen \in Observed, first \in (IF Paired THEN Observed ELSE {"none"}),
               drift \in (IF Paired THEN BOOLEAN ELSE {FALSE}) :
            RecordTrial(
              IF command = "timeout" /\ ~(evidence.armed /\ evidence.fired /\ evidence.cleaned)
              THEN Trial("unfired", "none", "none", "none", evidence)
              ELSE [Trial("ok", Base, first, seen, evidence) EXCEPT !.drift = drift],
              RequiresQuarantine(evidence))
      BY <2>4 DEF Complete
    <3>2. PICK t : t = IF command = "timeout"
                             /\ ~(evidence.armed /\ evidence.fired /\ evidence.cleaned)
                       THEN Trial("unfired", "none", "none", "none", evidence)
                       ELSE [Trial("ok", Base, first, seen, evidence) EXCEPT !.drift = drift]
      OBVIOUS
    <3>3. t \in TrialType /\ TrialOK(t)
      <4>1. CASE t = Trial("unfired", "none", "none", "none", evidence)
        <5>1. t \in TrialType /\ t.why = "unfired" /\ t.first = "none" /\ t.seen = "none"
          BY <1>1, <4>1, TrialIs DEF Observed
        <5> QED BY <5>1 DEF TrialOK
      <4>2. CASE t = [Trial("ok", Base, first, seen, evidence) EXCEPT !.drift = drift]
        <5>1. PICK u : u = Trial("ok", Base, first, seen, evidence)
          OBVIOUS
        <5>2. first \in Observed \cup {"none"} /\ drift \in BOOLEAN
          OBVIOUS
        <5>3. /\ u \in TrialType /\ u.why = "ok" /\ u.base = Base /\ u.first = first
              /\ u.seen = seen
          BY <1>1, <2>0, <5>1, <5>2, TrialIs DEF Observed
        <5>4. /\ t \in TrialType /\ t.why = "ok" /\ t.base = Base /\ t.first = first
              /\ t.seen = seen
          BY <4>2, <5>1, <5>2, <5>3 DEF TrialType
        <5>5. IF Paired THEN Base \in Observed /\ first \in Observed
                        ELSE Base = "none" /\ first = "none"
          BY <1>5, <2>4 DEF Complete, Base, NoPair
        <5> QED BY <5>4, <5>5 DEF TrialOK
      <4> QED BY <3>2, <4>1, <4>2
    <3>4. RequiresQuarantine(evidence) \in BOOLEAN
      BY <1>1, <2>4 DEF RequiresQuarantine, Verbose, Silent, Complete
    <3>5. RecordTrial(t, RequiresQuarantine(evidence)) /\ Taken
      BY <2>4, <3>1, <3>2 DEF Complete
    <3> QED BY <3>3, <3>4, <3>5
  <2> QED BY <2>1, <2>2, <2>3, <2>4
<1>7. UNCHANGED shell /\ issued' = issued /\ command' = command /\ stage' = stage
  BY <1>6 DEF RecordTrial, shell
<1>8. Connected' /\ ~Busy' /\ evidence' = NoEvidence /\ call' = call
  <2>1. CASE Taken
    BY <1>1, <1>4, <1>7, <2>1, TakenKeeps DEF Taken
  <2>2. CASE UNCHANGED httpVars /\ evidence = NoEvidence
    <3>1. UNCHANGED <<lifecycleUncertain, composedUncertain, remaining, posted, call,
                      evidence, wire, server>>
      BY <2>2 DEF httpVars, client, outside
    <3> QED BY <1>1, <1>4, <1>7, <2>2, <3>1
             DEF Connected, Budget, Between, Within, Busy, Uncertain
  <2> QED BY <1>6, <2>1, <2>2
<1>9. Looped'
  BY <1>1, <1>4, <1>6, <1>7, <1>8, RecordKeeps
<1>10. Kept'
  BY <1>1, <1>7, KeptStays
<1> QED
  BY <1>1, <1>7, <1>8, <1>9, <1>10 DEF IInv

LEMMA StartTrialKeeps ==
    ASSUME IInv, StartTrial
    PROVE  IInv'
<1>1. /\ stage = "run" /\ Connected /\ Looped /\ Kept /\ issued \in Nat
      /\ Len(trials) < TrialCount /\ issued' = issued + 1
      /\ Execute(issued + 1, command = "timeout", TurnsNext)
      /\ UNCHANGED <<shell, trials, pair, doubted, quarantined, verdict>>
  BY DEF StartTrial, MoreTrials, Running, IInv, Looped
<1>2. UNCHANGED shell /\ command' = command /\ stage' = stage
  BY <1>1 DEF shell
<1>3. TurnsNext \in {1, 2}
  BY DEF TurnsNext
<1>4. Connected'
  BY <1>1, <1>2, <1>3, ExecuteKeeps
<1>5. Kept'
  BY <1>1, <1>2, KeptStays
<1>6. Looped'
  <2>1. /\ TrialCount' = TrialCount /\ VerdictOf(trials)' = VerdictOf(trials)
        /\ (Trials(trials)' <=> Trials(trials)) /\ (Paired' <=> Paired)
    BY <1>1, <1>2, CommandStays
  <2> QED BY <1>1, <1>2, <2>1 DEF Looped
<1> QED
  BY <1>1, <1>2, <1>4, <1>5, <1>6 DEF IInv

LEMMA TakeBaselineKeeps ==
    ASSUME IInv, TakeBaseline
    PROVE  IInv'
<1>1. /\ stage = "run" /\ Connected /\ Looped /\ Kept
      /\ evidence.kind = "succeeded" /\ Paired /\ pair' \in Observed
      /\ doubted' = RequiresQuarantine(evidence)
      /\ UNCHANGED <<shell, trials, quarantined, issued, verdict>> /\ Taken
  BY DEF TakeBaseline, Running, IInv
<1>2. UNCHANGED shell /\ command' = command /\ stage' = stage
  BY <1>1 DEF shell
<1>3. evidence \in Verbose /\ ~Busy
  BY <1>1 DEF Connected, Silent, NoEvidence
<1>4. doubted' \in BOOLEAN
  BY <1>1, <1>3 DEF RequiresQuarantine, Verbose
<1>5. Connected' /\ ~Busy' /\ evidence' = NoEvidence
  BY <1>1, <1>2, <1>3, TakenKeeps DEF Taken
<1>6. Kept'
  BY <1>1, <1>2, KeptStays
<1>7. Looped'
  <2>1. /\ TrialCount' = TrialCount /\ VerdictOf(trials)' = VerdictOf(trials)
        /\ (Trials(trials)' <=> Trials(trials)) /\ (Paired' <=> Paired)
    BY <1>1, <1>2, CommandStays
  <2> QED BY <1>1, <1>2, <1>4, <1>5, <2>1 DEF Looped
<1> QED
  BY <1>1, <1>2, <1>5, <1>6, <1>7 DEF IInv

(* The end of a run: its verdict is the trials'.                           *)
LEMMA ConcludeKeeps ==
    ASSUME IInv, Conclude
    PROVE  IInv'
<1>1. /\ stage = "run" /\ Looped /\ Kept /\ Len(trials) = TrialCount
      /\ stage' = "save" /\ verdict' = VerdictOf(trials)
      /\ pair' = NoPair /\ doubted' = FALSE /\ quarantined' = FALSE /\ issued' = 0
      /\ UNCHANGED <<command, request, files, exit, invocations, trials>>
  BY DEF Conclude, Running, IInv
<1>2. Disconnected'
  BY DEF Conclude, Disconnect, Disconnected, Idle, NoEvidence, NoCase
<1>3. Connected'
  BY <1>1, <1>2, ClosedIsConnected, BoundsAreNat
<1>4. /\ TrialCount' = TrialCount /\ VerdictOf(trials)' = VerdictOf(trials)
      /\ (Trials(trials)' <=> Trials(trials)) /\ (Publishes' <=> Publishes)
  BY <1>1, CommandStays
<1>5. ~Busy' /\ evidence' = NoEvidence
  BY <1>2 DEF Disconnected, Busy, Idle, NoEvidence
<1>6. Looped'
  BY <1>1, <1>4, <1>5 DEF Looped, NoPair
<1>7. FilesOK(files)'
  BY <1>1, FilesOKStays DEF Kept
<1>8. Kept'
  BY <1>1, <1>4, <1>7 DEF Kept, Stages, ExitIsBacked
<1> QED
  BY <1>2, <1>3, <1>6, <1>8 DEF IInv

(* A loop that is given up, or not begun.                                  *)
LEMMA NoLoopIsLooped ==
    ASSUME NoLoop, command' = command, ~Busy', evidence' = NoEvidence,
           stage' \notin {"save", "publish"}
    PROVE  Looped' /\ issued' \in Nat
<1>1. /\ trials' = <<>> /\ pair' = NoPair /\ doubted' = FALSE /\ quarantined' = FALSE
      /\ issued' = 0 /\ verdict' = NoVerdict
  BY DEF NoLoop
<1>2. Trials(trials)' /\ Len(trials') = 0
  BY <1>1 DEF Trials
<1>3. TrialCount' \in Nat
  BY CountsArePositive, CommandStays
<1> QED
  <2>1. Len(trials') <= TrialCount' /\ issued' \in Nat
    BY <1>1, <1>2, <1>3
  <2> QED BY <1>1, <1>2, <2>1 DEF Looped

LEMMA DisconnectGives ==
    ASSUME Disconnect
    PROVE  Disconnected' /\ ~Busy' /\ evidence' = NoEvidence
  BY DEF Disconnect, Disconnected, Busy, Idle, NoEvidence, NoCase

LEMMA DisconnectedStays ==
    ASSUME Disconnected, UNCHANGED httpVars
    PROVE  Disconnected' /\ ~Busy' /\ evidence' = NoEvidence
  BY DEF Disconnected, httpVars, client, outside, Busy, Idle, NoEvidence, NoCase

(* The files after a run that failed.                                      *)
LEMMA CrashKeepsFiles ==
    ASSUME Kept, stage \in {"run", "save", "publish"},
           command' = command, request' = request, invocations' = invocations,
           \/ stage' = "crashed" /\ exit' = 1
              /\ files' = IF Early THEN WithOutput(Absent) ELSE files
           \/ stage' = "killed" /\ exit' = exit /\ files' = files
    PROVE  Kept'
<1>1. FilesOK(files) /\ (Publishes' <=> Publishes)
  BY CommandStays DEF Kept
<1>2. CASE files' = files
  <2>1. FilesOK(files)'
    BY <1>1, <1>2, FilesOKStays
  <2> QED BY <1>2, <2>1 DEF Kept, Stages, ExitIsBacked
<1>3. CASE files' = WithOutput(Absent) /\ stage' = "crashed" /\ exit' = 1
  <2>1. PICK f : f = WithOutput(Absent)
    OBVIOUS
  <2>2. f = [output |-> Absent, packages |-> files.packages]
    BY <1>1, <2>1 DEF WithOutput, FilesOK
  <2>3. FilesOK(f)
    BY <2>2 DEF FilesOK, Absent
  <2>4. FilesOK(files)'
    BY <1>3, <2>1, <2>3, FilesOKStays
  <2>5. request.found.output = Absent
    BY DEF Kept
  <2> QED BY <1>3, <2>4, <2>5 DEF Kept, Stages, ExitIsBacked
<1> QED
  BY <1>2, <1>3

LEMMA LeavingKeeps ==
    ASSUME IInv, TakeInterrupt \/ FailToSave \/ Kill
    PROVE  IInv'
<1>1. /\ Kept /\ stage \in {"run", "save", "publish"} /\ NoLoop /\ command' = command
      /\ stage' \in {"crashed", "killed"}
  BY DEF TakeInterrupt, FailToSave, Kill, Crash, Running, IInv
<1>2. Kept'
  <2>1. CASE Crash
    BY <1>1, <2>1, CrashKeepsFiles DEF Crash
  <2>2. CASE Kill
    BY <1>1, <2>2, CrashKeepsFiles DEF Kill
  <2> QED BY <2>1, <2>2 DEF TakeInterrupt, FailToSave
<1>3. Disconnected' /\ ~Busy' /\ evidence' = NoEvidence
  <2>1. CASE Disconnect
    BY <2>1, DisconnectGives
  <2>2. CASE FailToSave
    <3>1. Disconnected /\ UNCHANGED httpVars
      BY <2>2 DEF FailToSave, IInv
    <3> QED BY <3>1, DisconnectedStays
  <2> QED BY <2>1, <2>2 DEF TakeInterrupt, Kill
<1>4. Looped' /\ issued' \in Nat
  BY <1>1, <1>3, NoLoopIsLooped
<1>5. Connected'
  BY <1>3, <1>4, ClosedIsConnected
<1> QED
  BY <1>2, <1>3, <1>4, <1>5 DEF IInv

LEMMA AgainKeeps ==
    ASSUME IInv, Again
    PROVE  IInv'
<1>1. /\ Kept /\ stage \in {"refused", "planned", "reported", "crashed", "killed"} /\ Disconnected
      /\ NoLoop /\ stage' = "plan" /\ exit' = NoExit /\ invocations < MaxInvocations
      /\ invocations' = invocations + 1 /\ request' \in [asks : Requests, found : {files}]
      /\ command' = command /\ files' = files /\ UNCHANGED httpVars
  BY DEF Again, Ended, IInv
<1>2. Disconnected' /\ ~Busy' /\ evidence' = NoEvidence
  BY <1>1, DisconnectedStays
<1>3. Looped' /\ issued' \in Nat
  BY <1>1, <1>2, NoLoopIsLooped
<1>4. Connected'
  BY <1>2, <1>3, ClosedIsConnected
<1>5. Kept'
  <2>1. FilesOK(files)'
    BY <1>1, FilesOKStays DEF Kept
  <2>2. invocations' \in 1 .. MaxInvocations
    BY <1>1, CampaignsAreNotEmpty DEF Kept
  <2>3. request'.asks \in Requests /\ request'.found = files
    BY <1>1
  <2> QED BY <1>1, <2>1, <2>2, <2>3 DEF Kept, Stages, ExitIsBacked
<1> QED
  BY <1>1, <1>2, <1>3, <1>4, <1>5 DEF IInv

(* The steps of the shell around the loop: the connection is not open.     *)
LEMMA ShellIsQuiet ==
    ASSUME IInv, stage \in {"plan", "save", "publish"}, UNCHANGED httpVars, UNCHANGED loop,
           command' = command, stage' # "plan",
           stage = "plan" => stage' \in {"run", "reported", "refused", "planned"},
           stage \in {"save", "publish"} => stage' \in {"save", "publish", "reported"}
    PROVE  Connected' /\ Disconnected' /\ Looped'
<1>1. Disconnected /\ Looped
  BY DEF IInv
<1>2. Disconnected' /\ ~Busy' /\ evidence' = NoEvidence
  BY <1>1, DisconnectedStays
<1>3. /\ trials' = trials /\ pair' = pair /\ doubted' = doubted
      /\ quarantined' = quarantined /\ issued' = issued /\ verdict' = verdict
  BY DEF loop
<1>4. /\ TrialCount' = TrialCount /\ VerdictOf(trials)' = VerdictOf(trials)
      /\ (Trials(trials)' <=> Trials(trials)) /\ (Paired' <=> Paired)
  BY <1>3, CommandStays
<1>5. Looped'
  BY <1>1, <1>2, <1>3, <1>4 DEF Looped
<1>6. Connected'
  BY <1>2, <1>5, ClosedIsConnected DEF Looped
<1> QED
  BY <1>2, <1>5, <1>6

(* The ways in: refused or only planned, entered with a new output, or     *)
(* reconciled with the result that is there.                               *)
LEMMA BeginIs ==
    ASSUME Begin, request.asks \in Requests
    PROVE  /\ stage = "plan" /\ command' = command /\ request' = request
           /\ invocations' = invocations /\ UNCHANGED httpVars /\ UNCHANGED loop
           /\ \/ stage' \in {"refused", "planned"} /\ exit' \in {0, 2} /\ files' = files
              \/ /\ stage' = "run" /\ exit' = exit
                 /\ request.asks = "run" /\ files.output = Absent
                 /\ \/ files' = files /\ (Publishes => files.packages = Unpublished)
                    \/ files' = WithOutput(Torn) /\ ~Publishes
              \/ /\ stage' = "reported" /\ files.output.state = "whole"
                 /\ exit' = ExitStatus(VerdictOf(files.output.all))
                 /\ files' = [files EXCEPT !.packages = Published(FindingsOf(files.output.all))]
<1>1. CASE BeginEarly
  <2>1. stage = "plan" /\ ~Publishes
    BY <1>1 DEF BeginEarly, Starting, Publishes
  <2>2. \/ Refuse \/ Plan
        \/ /\ Enter(WithOutput(Torn)) /\ files.output = Absent
           /\ Checked /\ request.asks # "dry" /\ Networked /\ Confirmed /\ OutputGiven
    BY <1>1 DEF BeginEarly
  <2> QED BY <2>1, <2>2 DEF Refuse, Plan, Leave, Enter, Checked, Networked, Confirmed,
                            OutputGiven, Requests
<1>2. CASE BeginRegressions \/ BeginRegressionCase
  <2>1. stage = "plan" /\ ~Publishes
    BY <1>2 DEF BeginRegressions, BeginRegressionCase, Starting, Publishes
  <2>2. \/ Refuse
        \/ /\ Enter(WithOutput(Torn)) /\ files.output = Absent
           /\ CasesAreAccepted /\ Networked /\ Confirmed
    BY <1>2 DEF BeginRegressions, BeginRegressionCase
  <2> QED BY <2>1, <2>2 DEF Refuse, Leave, Enter, Checked, Networked, Confirmed,
                            CasesAreAccepted, Requests
<1>3. CASE BeginReplay
  <2>1. stage = "plan" /\ ~Publishes
    BY <1>3 DEF BeginReplay, Starting, Publishes
  <2>2. \/ Refuse
        \/ /\ Enter(files) /\ files.output = Absent
           /\ CasesAreAccepted /\ Networked /\ Confirmed
    BY <1>3 DEF BeginReplay
  <2> QED BY <2>1, <2>2 DEF Refuse, Leave, Enter, Checked, Networked, Confirmed,
                            CasesAreAccepted, Requests
<1>4. CASE BeginPaired
  <2>1. stage = "plan"
    BY <1>4 DEF BeginPaired, Starting
  <2>2. \/ Refuse \/ Plan \/ Reconcile
        \/ /\ Enter(files) /\ files.output = Absent /\ files.packages = Unpublished
           /\ Checked /\ request.asks # "dry" /\ Networked /\ Confirmed /\ OutputGiven
    BY <1>4 DEF BeginPaired
  <2> QED BY <2>1, <2>2 DEF Refuse, Plan, Reconcile, Leave, Enter, Checked, Networked,
                            Confirmed, OutputGiven, Requests
<1> QED
  BY <1>1, <1>2, <1>3, <1>4 DEF Begin

LEMMA BeginKeeps ==
    ASSUME IInv, Begin
    PROVE  IInv'
<1>1. /\ Kept /\ request.asks \in Requests /\ FilesOK(files)
      /\ (files = request.found \/ stage # "plan")
  BY DEF IInv, Kept
<1>2. /\ stage = "plan" /\ command' = command /\ request' = request
      /\ invocations' = invocations /\ UNCHANGED httpVars /\ UNCHANGED loop
      /\ \/ stage' \in {"refused", "planned"} /\ exit' \in {0, 2} /\ files' = files
         \/ /\ stage' = "run" /\ exit' = exit
            /\ request.asks = "run" /\ files.output = Absent
            /\ \/ files' = files /\ (Publishes => files.packages = Unpublished)
               \/ files' = WithOutput(Torn) /\ ~Publishes
         \/ /\ stage' = "reported" /\ files.output.state = "whole"
            /\ exit' = ExitStatus(VerdictOf(files.output.all))
            /\ files' = [files EXCEPT !.packages = Published(FindingsOf(files.output.all))]
  BY BeginIs DEF IInv, Kept
<1>3. Connected' /\ Disconnected' /\ Looped'
  BY <1>2, ShellIsQuiet
<1>4. Publishes' <=> Publishes
  BY <1>2, CommandStays
<1>5. CASE stage' \in {"refused", "planned"} /\ exit' \in {0, 2} /\ files' = files
  <2>1. FilesOK(files)'
    BY <1>1, <1>2, <1>5, FilesOKStays
  <2> QED BY <1>1, <1>2, <1>3, <1>5, <2>1 DEF IInv, Kept, Stages, ExitIsBacked
<1>6. CASE /\ stage' = "run" /\ exit' = exit
           /\ request.asks = "run" /\ files.output = Absent
           /\ \/ files' = files /\ (Publishes => files.packages = Unpublished)
              \/ files' = WithOutput(Torn) /\ ~Publishes
  <2>1. FilesOK(files)' /\ (Publishes' => files'.packages = Unpublished)
    <3>1. CASE files' = files /\ (Publishes => files.packages = Unpublished)
      BY <1>1, <1>2, <1>4, <3>1, FilesOKStays
    <3>2. CASE files' = WithOutput(Torn) /\ ~Publishes
      <4>1. PICK f : f = WithOutput(Torn)
        OBVIOUS
      <4>2. f = [output |-> Torn, packages |-> files.packages]
        BY <1>1, <1>2, <4>1 DEF WithOutput, FilesOK
      <4>3. FilesOK(f)
        BY <3>2, <4>2 DEF FilesOK
      <4> QED BY <1>2, <1>4, <3>2, <4>1, <4>3, FilesOKStays
    <3> QED BY <1>6, <3>1, <3>2
  <2>2. request.found.output = Absent
    BY <1>1, <1>2, <1>6
  <2> QED BY <1>1, <1>2, <1>3, <1>6, <2>1, <2>2 DEF IInv, Kept, Stages, ExitIsBacked
<1>7. CASE /\ stage' = "reported" /\ files.output.state = "whole"
           /\ exit' = ExitStatus(VerdictOf(files.output.all))
           /\ files' = [files EXCEPT !.packages = Published(FindingsOf(files.output.all))]
  <2>1. PICK f : f = [files EXCEPT !.packages = Published(FindingsOf(files.output.all))]
    OBVIOUS
  <2>2. f = [output |-> files.output, packages |-> Published(FindingsOf(files.output.all))]
    BY <1>1, <1>2, <2>1 DEF FilesOK
  <2>3. FilesOK(f)
    <3>1. f.output = files.output /\ f.packages = Published(FindingsOf(f.output.all))
      BY <2>2
    <3> QED BY <1>1, <1>2, <2>2, <3>1 DEF FilesOK
  <2>4. FilesOK(files)'
    BY <1>2, <1>7, <2>1, <2>3, FilesOKStays
  <2>5. files'.output = files.output /\ files'.packages = Published(FindingsOf(files.output.all))
    BY <1>7, <2>1, <2>2
  <2>6. VerdictOf(files.output.all)' = VerdictOf(files.output.all)
    BY <1>2, <2>5, CommandStays
  <2>7. FindingsOf(files.output.all)' = FindingsOf(files.output.all)
    BY <1>2, <2>5, CommandStays
  <2>8. ExitIsBacked'
    BY <1>7, <2>5, <2>6, <2>7 DEF ExitIsBacked
  <2>9. exit' \in {0, 1, 2, NoExit}
    BY <1>7 DEF ExitStatus
  <2> QED BY <1>1, <1>2, <1>3, <1>7, <2>4, <2>5, <2>8, <2>9 DEF IInv, Kept, Stages
<1> QED
  BY <1>2, <1>5, <1>6, <1>7

LEMMA SaveKeeps ==
    ASSUME IInv, Save
    PROVE  IInv'
<1>1. /\ Kept /\ Looped /\ FilesOK(files) /\ stage \in {"save", "publish"}
      /\ request.asks = "run" /\ request.found.output = Absent
      /\ Publishes => files.packages = Unpublished
      /\ verdict = VerdictOf(trials) /\ AllTrials(trials)
      /\ UNCHANGED httpVars /\ UNCHANGED loop /\ command' = command
      /\ request' = request /\ invocations' = invocations
      /\ stage' \in {"save", "publish", "reported"}
  BY DEF Save, CreateOutput, WriteOutput, Publish, Saving, IInv, Kept, Looped, AllTrials
<1>2. Connected' /\ Disconnected' /\ Looped' /\ trials' = trials
  BY <1>1, ShellIsQuiet DEF loop
<1>3. (Publishes' <=> Publishes)
  BY <1>1, CommandStays
<1>4. VerdictOf(trials)' = VerdictOf(trials) /\ FindingsOf(trials)' = FindingsOf(trials)
  BY <1>1, <1>2, CommandStays
<1>5. CASE CreateOutput
  <2>1. stage' = "save" /\ exit' = exit /\ files' = WithOutput(Torn)
    BY <1>5 DEF CreateOutput
  <2>2. PICK f : f = WithOutput(Torn)
    OBVIOUS
  <2>3. f = [output |-> Torn, packages |-> files.packages]
    BY <1>1, <2>2 DEF WithOutput, FilesOK
  <2>4. FilesOK(f)
    BY <2>3 DEF FilesOK, Torn
  <2>5. FilesOK(files)'
    BY <1>1, <2>1, <2>2, <2>4, FilesOKStays
  <2>6. files'.packages = files.packages
    BY <2>1, <2>2, <2>3
  <2> QED BY <1>1, <1>2, <1>3, <2>1, <2>5, <2>6 DEF IInv, Kept, Stages, ExitIsBacked
<1>6. CASE WriteOutput
  <2>1. /\ files' = WithOutput(Whole(trials))
        /\ \/ Publishes /\ stage' = "publish" /\ exit' = exit
           \/ ~Publishes /\ stage' = "reported" /\ exit' = ExitStatus(verdict)
    BY <1>6 DEF WriteOutput
  <2>2. PICK f : f = WithOutput(Whole(trials))
    OBVIOUS
  <2>3. /\ f = [output |-> Whole(trials), packages |-> files.packages]
        /\ Whole(trials).state = "whole" /\ Whole(trials).all = trials
    BY <1>1, <2>2 DEF WithOutput, FilesOK, Whole
  <2>4. FilesOK(f)
    <3>1. f.output = Whole(trials) /\ f.packages = files.packages /\ f.output.all = trials
      BY <2>3
    <3> QED BY <1>1, <2>3, <3>1 DEF FilesOK
  <2>5. FilesOK(files)'
    BY <1>1, <2>1, <2>2, <2>4, FilesOKStays
  <2>6. files'.packages = files.packages /\ files'.output = Whole(trials')
        /\ files'.output.state = "whole" /\ files'.output.all = trials'
    BY <1>2, <2>1, <2>2, <2>3
  <2>7. VerdictOf(files.output.all)' = verdict
    BY <1>1, <1>2, <2>6, CommandStays
  <2>8. ExitIsBacked'
    BY <1>3, <2>1, <2>6, <2>7 DEF ExitIsBacked
  <2>9. exit' \in {0, 1, 2, NoExit}
    BY <1>1, <2>1 DEF ExitStatus, Kept
  <2> QED BY <1>1, <1>2, <1>3, <2>1, <2>5, <2>6, <2>8, <2>9 DEF IInv, Kept, Stages
<1>7. CASE Publish
  <2>1. /\ files' = [files EXCEPT !.packages = Published(FindingsOf(trials))]
        /\ stage' = "reported" /\ exit' = ExitStatus(verdict)
        /\ files.output = Whole(trials) /\ Publishes
    BY <1>1, <1>7 DEF Publish, Kept
  <2>2. PICK f : f = [files EXCEPT !.packages = Published(FindingsOf(trials))]
    OBVIOUS
  <2>3. /\ f = [output |-> Whole(trials), packages |-> Published(FindingsOf(trials))]
        /\ Whole(trials).state = "whole" /\ Whole(trials).all = trials
    BY <1>1, <2>1, <2>2 DEF FilesOK, Whole
  <2>4. FilesOK(f)
    <3>1. /\ f.output = Whole(trials) /\ f.packages = Published(FindingsOf(f.output.all))
          /\ f.output.all = trials
      BY <2>3
    <3> QED BY <1>1, <2>3, <3>1 DEF FilesOK
  <2>5. FilesOK(files)'
    BY <1>1, <2>1, <2>2, <2>4, FilesOKStays
  <2>6. /\ files'.output = Whole(trials) /\ files'.packages = Published(FindingsOf(trials))
        /\ files'.output.state = "whole" /\ files'.output.all = trials
    BY <2>1, <2>2, <2>3
  <2>7. VerdictOf(files.output.all)' = verdict
    BY <1>1, <2>6, CommandStays
  <2>8. FindingsOf(files.output.all)' = FindingsOf(trials)
    BY <1>1, <2>6, CommandStays
  <2>9. ExitIsBacked'
    BY <2>1, <2>6, <2>7, <2>8 DEF ExitIsBacked
  <2>10. exit' \in {0, 1, 2, NoExit}
    BY <2>1 DEF ExitStatus
  <2> QED BY <1>1, <1>2, <2>1, <2>5, <2>6, <2>9, <2>10 DEF IInv, Kept, Stages
<1> QED
  BY <1>5, <1>6, <1>7 DEF Save
-----------------------------------------------------------------------------
LEMMA InitIsSound == Init => IInv
<1> SUFFICES ASSUME Init PROVE IInv
  OBVIOUS
<1>1. /\ HttpInit /\ command \in Commands /\ request \in [asks : Requests, found : FilesFound]
      /\ files = request.found /\ stage = "plan" /\ exit = NoExit /\ invocations = 1
      /\ trials = <<>> /\ pair = NoPair /\ doubted = FALSE /\ quarantined = FALSE
      /\ issued = 0 /\ verdict = NoVerdict
  BY DEF Init
<1>2. Disconnected /\ ~Busy
  BY <1>1 DEF HttpInit, Disconnected, Busy, Idle
<1>3. Connected
  <2>1. Budget
    BY <1>2, BoundsAreNat DEF Disconnected, Budget
  <2>2. evidence \in Verbose \cup Silent
    BY <1>2 DEF Disconnected, Silent, NoEvidence
  <2>3. server \in [fixture : Nat, dirt : SUBSET (1 .. issued), armed : Nat]
    BY <1>2 DEF Disconnected, NoCase
  <2> QED BY <1>2, <2>1, <2>2, <2>3 DEF Disconnected, Connected, Between, Within
<1>4. Looped
  <2>1. Trials(trials) /\ Len(trials) = 0
    BY <1>1 DEF Trials
  <2>2. TrialCount \in Nat /\ Len(trials) <= TrialCount /\ Len(trials) < TrialCount
        /\ issued \in Nat
    BY <1>1, <2>1, CountsArePositive
  <2>3. stage = "plan" /\ verdict = NoVerdict
    BY <1>1
  <2> QED BY <1>1, <2>1, <2>2, <2>3 DEF Looped
<1>5. FilesOK(files)
  BY <1>1 DEF FilesFound, FilesOK, Absent, Foreign
<1>6. Kept
  BY <1>1, <1>5, CampaignsAreNotEmpty DEF Kept, Stages, ExitIsBacked
<1> QED
  BY <1>2, <1>3, <1>4, <1>6 DEF IInv

LEMMA NextIsSound == IInv /\ [Next]_vars => IInv'
<1> SUFFICES ASSUME IInv, [Next]_vars PROVE IInv'
  OBVIOUS
<1>1. CASE UNCHANGED vars
  <2>1. /\ UNCHANGED shell /\ UNCHANGED loop
        /\ command' = command /\ stage' = stage /\ request' = request
        /\ files' = files /\ exit' = exit /\ invocations' = invocations
        /\ trials' = trials /\ pair' = pair /\ doubted' = doubted
        /\ quarantined' = quarantined /\ issued' = issued /\ verdict' = verdict
        /\ lifecycleUncertain' = lifecycleUncertain
        /\ composedUncertain' = composedUncertain
        /\ remaining' = remaining /\ posted' = posted /\ call' = call
        /\ evidence' = evidence /\ wire' = wire /\ server' = server
    BY <1>1 DEF vars, shell, loop, httpVars, client, outside
  <2>2. Connected'
    BY <2>1 DEF IInv, Connected, Budget, Between, Within, Undoubted, Trusted, Request,
                Operation, ArmAttempted, Busy, Uncertain
  <2>3. stage' # "run" => Disconnected'
    BY <2>1 DEF IInv, Disconnected
  <2>4. Looped'
    BY <2>1, LoopedStays DEF IInv, Looped, Busy
  <2>5. Kept'
    <3>1. FilesOK(files)' /\ (Publishes' <=> Publishes)
      BY <2>1, FilesOKStays, CommandStays DEF IInv, Kept
    <3>2. VerdictOf(files.output.all)' = VerdictOf(files.output.all)
          /\ FindingsOf(files.output.all)' = FindingsOf(files.output.all)
      BY <2>1, CommandStays
    <3>3. ExitIsBacked'
      BY <2>1, <3>1, <3>2 DEF ExitIsBacked, IInv, Kept
    <3> QED BY <2>1, <3>1, <3>3 DEF IInv, Kept
  <2> QED BY <2>2, <2>3, <2>4, <2>5 DEF IInv
<1>2. CASE Begin
  BY <1>2, BeginKeeps
<1>3. CASE Loop
  BY <1>3, TrialKeeps, StartTrialKeeps, TakeBaselineKeeps, LeavingKeeps, ConcludeKeeps DEF Loop
<1>4. CASE Save
  BY <1>4, SaveKeeps
<1>5. CASE FailToSave \/ Kill
  BY <1>5, LeavingKeeps
<1>6. CASE Again
  BY <1>6, AgainKeeps
<1>7. CASE Connection \/ Environment \/ Interruption
  BY <1>7, ConnectionKeeps
<1> QED
  BY <1>1, <1>2, <1>3, <1>4, <1>5, <1>6, <1>7 DEF Next

(* IInv holds in every state of every behaviour.                           *)
THEOREM Invariance == Spec => []IInv
<1>1. Init => IInv
  BY InitIsSound
<1>2. IInv /\ [Next]_vars => IInv'
  BY NextIsSound
<1> QED
  BY <1>1, <1>2, PTL DEF Spec

(* The connection keeps its promises to the loops above it: the state is   *)
(* well-formed, no case posts more than was reserved for it, and what is   *)
(* returned as a success was read from the case's own fixture only         *)
(* (_execute_stateful, _reserve_environment_api_calls).                    *)
THEOREM ConnectionHolds == Spec => []ConnectionIsSound
<1>1. IInv => ConnectionIsSound
  <2> SUFFICES ASSUME IInv PROVE ConnectionIsSound
    OBVIOUS
  <2>1. Connected /\ Looped /\ Kept
    BY DEF IInv
  <2>2. posted <= Calls - remaining /\ posted \in Nat /\ remaining \in Nat /\ Calls \in Nat
        /\ remaining <= Calls
    <3>1. posted \in Nat /\ remaining \in Nat /\ Calls \in Nat /\ remaining <= Calls
      BY <2>1, BoundsAreNat DEF Connected, Budget
    <3>2. CASE Busy
      <4>1. call \in CallType /\ call.at <= Len(call.script) /\ Len(call.script) \in Nat
            /\ call.at \in Nat
        BY <2>1, <3>2, BusyIs, RequestIs DEF Looped, CallType
      <4>2. ToCome(call) \in Nat
        BY <4>1 DEF ToCome, CallType, Unposted, EventCalls
      <4> QED BY <2>1, <3>1, <3>2, <4>2 DEF Connected, Budget
    <3> QED BY <2>1, <3>1, <3>2 DEF Connected, Budget
  <2>3. TypeOK
    BY <2>1, <2>2 DEF TypeOK, Connected, Looped, Kept
  <2>4. TrustedEvidenceIsClean
    BY <2>1 DEF TrustedEvidenceIsClean, Connected, Verbose, Silent
  <2> QED BY <2>2, <2>3, <2>4 DEF ConnectionIsSound, CallsStayInBudget
<1> QED
  BY <1>1, Invariance, PTL

(* A verdict is earned by trials that ran to their end on an undisturbed   *)
(* environment; so is a result on disk, in whatever invocation it was      *)
(* written, with its packages and the exit status; and no file that was    *)
(* there before is touched, nor the target called for it.                  *)
THEOREM VerdictHolds == Spec => []VerdictIsEarned
<1>1. IInv => VerdictIsEarned
  <2> SUFFICES ASSUME IInv PROVE VerdictIsEarned
    OBVIOUS
  <2>1. Connected /\ Looped /\ Kept /\ (stage # "run" => Disconnected)
    BY DEF IInv
  <2>2. verdict # NoVerdict => Earned(trials, verdict)
    BY <2>1, VerdictsAreEarned DEF Looped, Kept, AllTrials
  <2>3. ResultIsEarned
    BY <2>1, WholeIsEarned DEF Kept
  <2>4. ExitIsBacked
    BY <2>1 DEF Kept
  <2>5. FilesAreRespected
    BY <2>1 DEF FilesAreRespected, Kept, Disconnected
  <2> QED BY <2>2, <2>3, <2>4, <2>5 DEF VerdictIsEarned
<1> QED
  BY <1>1, Invariance, PTL

(* Nothing is posted for a case while a request of an earlier one may      *)
(* still be processed, or while an event of an earlier one is armed.       *)
THEOREM PostsAreUndoubted == Spec => NothingIsPostedInDoubt
<1> DEFINE Sound1 == posted' > posted =>
        /\ \A r \in wire : r.case = call.case
        /\ server.armed \in {NoCase, call.case}
<1>1. IInv /\ [Next]_vars => [Sound1]_httpVars
  <2> SUFFICES ASSUME IInv, [Next]_vars, posted' > posted
               PROVE  /\ \A r \in wire : r.case = call.case
                      /\ server.armed \in {NoCase, call.case}
    OBVIOUS
  <2>1. posted \in Nat
    BY DEF IInv, Connected, Budget
  <2>2. posted' # posted /\ posted' # 0
    BY <2>1
  <2>3. ~UNCHANGED httpVars /\ ~Disconnect
    BY <2>2 DEF httpVars, client, Disconnect
  <2>4. Post
    BY <2>2, <2>3 DEF Next, vars, Begin, BeginEarly, BeginRegressions, BeginRegressionCase,
        BeginReplay, BeginPaired, Refuse, Plan, Reconcile, Leave, Enter, Loop, SkipTrial,
        StartTrial, Execute, TakeFailure, TakeTimeout, TakeBaseline, Complete, Taken,
        TakeInterrupt, Conclude, Save, CreateOutput, WriteOutput, Publish, Saving, FailToSave,
        Kill, Again, Connection, Step, Environment, Serve, Interruption, Interrupt, Reply,
        FailWrong, FailLost, Fail, Return
  <2> QED BY <2>4 DEF Post, IInv, Connected, Within
<1> QED
  BY <1>1, Invariance, PTL DEF Spec, NothingIsPostedInDoubt
=============================================================================
