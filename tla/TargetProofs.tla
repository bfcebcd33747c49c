----------------------------- MODULE TargetProofs -----------------------------
(***************************************************************************)
(* Theorems about what UL calls: the target that runs as a child process   *)
(* (LocalTarget), for any number of invocations and sessions, any limits,  *)
(* cancellations and faults, and the command that probes one target from   *)
(* several shells (ProbeCommand), for any number of shells, outputs,       *)
(* trials, invocations and kills.  The two parts share no state.           *)
(*                                                                         *)
(* The argument for the child process: a worker has at most one message to *)
(* read, and what the invoker's worker wrote answers an earlier message    *)
(* than the one to be sent; so the line that is taken for an answer is     *)
(* one.  An invocation is counted before it is sent, to one worker, and    *)
(* not sent at all when it fails without doubt.  A worker is forgotten     *)
(* only in the step that asks it to stop.                                  *)
(*                                                                         *)
(* The argument for the command: that a call is made under the lock and a  *)
(* reusable receipt rests on where each invocation took the lock and read  *)
(* the receipt, and on nobody but the holder writing it; a doubt has to be *)
(* followed from the call that raised it to the handler that writes it     *)
(* down.                                                                   *)
(***************************************************************************)
EXTENDS LocalTarget, ProbeCommand, FiniteSetTheorems, SequenceTheorems, TLAPS

(***************************************************************************)
(* What the variables may hold.                                            *)
(***************************************************************************)
Names == {NoSession} \cup Sessions
Kind == {"none", "start", "session", "invoke", "shutdown"}
Message == {m \in Kind \X (0 .. Requests) \X Names : m[1] = "invoke" => m[2] # 0}
Answer == [to : Message, good : BOOLEAN]
Mind == [session : Names, stdin : Seq(Message), stdout : Seq(Answer)]
Stage == {"idle", "spawning", "sending", "waiting", "stopping", "closed"}
Status == {"none", "ok", "failed", "refused", "cancelled", "closed"}
Outcome == [status : Status, doubt : BOOLEAN, worker : {NoWorker} \cup Worker]
Waits == [stage : Stage, message : Message, request : 0 .. Requests,
          old : {NoWorker} \cup Worker, result : Status, doubt : BOOLEAN]

StateOK ==
    /\ process \in {NoWorker} \cup Worker /\ active \in Names
    /\ attempts \in Nat /\ executions \in Nat /\ spent \in Nat
    /\ cancels \in Nat /\ faults \in Nat /\ overflow \in BOOLEAN
    /\ drains \subseteq Worker /\ reaped \subseteq Worker
    /\ leader \in [Worker -> {"absent", "up", "stopping", "down"}]
    /\ helper \in [Worker -> {"absent", "up", "down"}]
    /\ invoker \in Waits /\ results \in Seq(Outcome)
    /\ worker \in [Worker -> Mind]
    /\ executed \subseteq (1 .. Requests) \X Worker

(***************************************************************************)
(* Where the invoker stands: it works on the invocation after those that   *)
(* ended, for which it starts at most one worker, and it forgets a worker  *)
(* before it asks it to stop.                                              *)
(***************************************************************************)
Current == Len(results) + 1
Working == invoker.stage \in {"sending", "waiting", "stopping"} /\ Type # "shutdown"

StagesOK ==
    /\ Len(results) <= Requests
    /\ invoker.stage = "idle" => invoker = Free
    /\ Working \/ invoker.stage = "spawning" => invoker.request = Current /\ Current <= Requests
    /\ invoker.stage = "spawning" => Type \in {"session", "invoke"} /\ ~Alive
    /\ invoker.stage \in {"sending", "waiting"} =>
           /\ process # NoWorker /\ Type # "none"
           /\ Type = "start" => invoker.message[2] = 0
           /\ Type \in {"session", "invoke"} => invoker.message[2] = Current
    /\ invoker.stage \in {"stopping", "closed"} => process = NoWorker
    /\ invoker.stage = "stopping" <=> invoker.old # NoWorker
    /\ invoker.stage = "stopping" => invoker.result \in {"failed", "cancelled", "closed"}
    /\ attempts <= Len(results) + (IF Working THEN 1 ELSE 0)

(***************************************************************************)
(* A worker that is up is the invoker's; one that ignores the request to   *)
(* stop and is not waited for any more cost a cancellation.                *)
(***************************************************************************)
Abandoned == {w \in Worker : leader[w] = "stopping" /\ invoker.old # w}

ProcessesOK ==
    /\ process <= attempts /\ invoker.old <= attempts
    /\ \A w \in drains : w <= attempts
    /\ \A w \in Worker : w > attempts => leader[w] = "absent" /\ worker[w] = Fresh
    /\ \A w \in Worker : w \in reaped => leader[w] = "down"
    /\ \A w \in Worker : leader[w] = "up" => w = process
    /\ Cardinality(Abandoned) <= cancels

(***************************************************************************)
(* The pipes: a worker has at most one message to read, and what the       *)
(* invoker's worker wrote answers an earlier message than the one that is  *)
(* to be sent, or the one that was sent and read.                          *)
(***************************************************************************)
LinesOf(s) == {s[i] : i \in 1 .. Len(s)}
Lines(w) == LinesOf(worker[w].stdout)

Earlier(m) ==
    /\ m[1] # "shutdown" /\ Type # "start"
    /\ m[2] <= Len(results) \/ (m[2] = Current /\ m[1] = "session" /\ Type = "invoke")

WasRead == invoker.stage = "waiting" /\ worker[process].stdin = <<>>

Holding == invoker.stage \in {"idle", "sending", "waiting"} /\ process # NoWorker

WireOK ==
    /\ \A w \in Worker : worker[w].stdin = <<>> \/ \E m \in Message : worker[w].stdin = <<m>>
    /\ Holding => \/ worker[process].stdin = <<>>
                  \/ invoker.stage = "waiting" /\ worker[process].stdin = <<invoker.message>>
    /\ Holding => \A line \in Lines(process) :
                      Earlier(line.to) \/ (WasRead /\ line.to = invoker.message)
    /\ \A w \in Worker : \A line \in Lines(w) :
           line.good /\ line.to[1] = "invoke" => <<line.to[2], w>> \in executed

(***************************************************************************)
(* The invocations that were sent: every one was counted, to one worker.   *)
(***************************************************************************)
Pending == {w \in Worker : worker[w].stdin # <<>> /\ worker[w].stdin[1][1] = "invoke"}
Sent == executed \cup {<<worker[w].stdin[1][2], w>> : w \in Pending}

SentOK ==
    /\ \A e \in Sent : \/ e[1] <= Len(results)
                       \/ /\ e[1] = Current /\ Type = "invoke"
                          /\ invoker.stage \in {"waiting", "stopping"}
    /\ invoker.stage = "stopping" /\ invoker.result = "failed" /\ ~invoker.doubt =>
           \A e \in Sent : e[1] <= Len(results)
    /\ \A e, f \in Sent : e[1] = f[1] => e = f
    /\ Cardinality(Sent) <= executions

ResultsOK ==
    \A r \in DOMAIN results :
        /\ results[r].status = "ok" => <<r, results[r].worker>> \in executed
        /\ results[r].status \in {"failed", "refused"} /\ ~results[r].doubt =>
               \A e \in Sent : e[1] # r

(***************************************************************************)
(* The two limits.                                                         *)
(***************************************************************************)
ToBeSent ==
    \/ invoker.stage = "spawning"
    \/ invoker.stage = "sending" /\ Type # "shutdown"
    \/ invoker.stage = "waiting" /\ Type \in {"start", "session"}

LimitsOK ==
    /\ executions <= MaxExecutions /\ spent <= TotalTime
    /\ ToBeSent => executions < MaxExecutions
    /\ invoker.stage = "waiting" /\ Type # "shutdown" => spent < TotalTime

IInv == /\ StateOK /\ StagesOK /\ ProcessesOK /\ WireOK /\ SentOK /\ ResultsOK
        /\ LimitsOK
-----------------------------------------------------------------------------
(* What is fixed, and sequences.                                           *)
LEMMA Constants ==
    /\ Requests \in Nat /\ MaxExecutions \in Nat /\ TotalTime \in Nat
    /\ NoWorker \notin Worker /\ NoSession \in Names
    /\ \A r \in 1 .. Requests : SessionOf[r] \in Sessions /\ SessionOf[r] \in Names
    /\ Free \in Waits /\ Fresh \in Mind
    /\ IsFiniteSet(Worker) /\ IsFiniteSet((1 .. Requests) \X Worker)
  <1>1. Requests \in Nat /\ MaxExecutions \in Nat /\ TotalTime \in Nat
    BY LimitsAreNat
  <1>2. \A r \in 1 .. Requests : SessionOf[r] \in Sessions /\ SessionOf[r] \in Names
    BY DEF Sessions, Names
  <1>3. <<"none", 0, NoSession>> \in Message
    BY <1>1 DEF Message, Kind, Names
  <1>4. Free \in Waits
    BY <1>1, <1>3 DEF Free, Waits, Stage, Status
  <1>5. Fresh \in Mind
    BY EmptySeq DEF Fresh, Mind, Names
  <1>6. IsFiniteSet(Worker) /\ IsFiniteSet(1 .. Requests)
    BY <1>1, FS_Interval DEF Worker
  <1> QED
    BY <1>1, <1>2, <1>4, <1>5, <1>6, FS_Product DEF Worker, NoWorker, Names

LEMMA LinesOfSequences ==
    ASSUME NEW S, NEW s \in Seq(S)
    PROVE  /\ LinesOf(<<>>) = {}
           /\ s # <<>> => /\ Head(s) \in LinesOf(s) /\ Head(s) \in S
                          /\ Tail(s) \in Seq(S) /\ LinesOf(Tail(s)) \subseteq LinesOf(s)
           /\ \A t \in Seq(S) : /\ s \o t \in Seq(S)
                                /\ LinesOf(s \o t) \subseteq LinesOf(s) \cup LinesOf(t)
  <1>1. LinesOf(<<>>) = {}
    BY DEF LinesOf
  <1>2. ASSUME s # <<>>
        PROVE  /\ Head(s) \in LinesOf(s) /\ Head(s) \in S
               /\ Tail(s) \in Seq(S) /\ LinesOf(Tail(s)) \subseteq LinesOf(s)
    <2>1. Len(s) \in Nat \ {0} /\ Head(s) = s[1]
      BY <1>2, EmptySeq
    <2>2. /\ Head(s) \in S /\ Tail(s) \in Seq(S) /\ Len(Tail(s)) = Len(s) - 1
          /\ \A i \in 1 .. Len(Tail(s)) : Tail(s)[i] = s[i + 1]
      BY <1>2, HeadTailProperties
    <2>3. ASSUME NEW x \in LinesOf(Tail(s)) PROVE x \in LinesOf(s)
      <3>1. PICK i \in 1 .. Len(Tail(s)) : x = Tail(s)[i]
        BY <2>3 DEF LinesOf
      <3>2. i + 1 \in 1 .. Len(s) /\ x = s[i + 1]
        BY <2>1, <2>2, <3>1
      <3> QED BY <3>2 DEF LinesOf
    <2>4. Head(s) \in LinesOf(s)
      BY <2>1 DEF LinesOf
    <2> QED BY <2>2, <2>3, <2>4
  <1>3. ASSUME NEW t \in Seq(S)
        PROVE  s \o t \in Seq(S) /\ LinesOf(s \o t) \subseteq LinesOf(s) \cup LinesOf(t)
    <2>1. /\ s \o t \in Seq(S) /\ Len(s \o t) = Len(s) + Len(t)
          /\ \A i \in 1 .. Len(s) + Len(t) :
                 (s \o t)[i] = IF i <= Len(s) THEN s[i] ELSE t[i - Len(s)]
      BY ConcatProperties
    <2>2. ASSUME NEW x \in LinesOf(s \o t) PROVE x \in LinesOf(s) \cup LinesOf(t)
      <3>1. PICK i \in 1 .. Len(s) + Len(t) : x = (s \o t)[i]
        BY <2>1, <2>2 DEF LinesOf
      <3>2. Len(s) \in Nat /\ Len(t) \in Nat
        BY LenProperties
      <3>3. CASE i <= Len(s)
        BY <2>1, <3>1, <3>2, <3>3 DEF LinesOf
      <3>4. CASE ~(i <= Len(s))
        <4>1. i - Len(s) \in 1 .. Len(t) /\ x = t[i - Len(s)]
          BY <2>1, <3>1, <3>2, <3>4
        <4> QED BY <4>1 DEF LinesOf
      <3> QED BY <3>3, <3>4
    <2> QED BY <2>1, <2>2
  <1> QED BY <1>1, <1>2, <1>3

(* The invocations that were sent are finitely many.                       *)
LEMMA SentIsFinite ==
    ASSUME StateOK, WireOK
    PROVE  /\ IsFiniteSet(Sent) /\ Cardinality(Sent) \in Nat
           /\ \A e \in Sent : e[1] \in 0 .. Requests
           /\ \A T \in SUBSET Sent : Cardinality(T) \in Nat /\ Cardinality(T) <= Cardinality(Sent)
  <1>1. ASSUME NEW w \in Pending PROVE <<worker[w].stdin[1][2], w>> \in (0 .. Requests) \X Worker
    <2>1. PICK m \in Message : worker[w].stdin = <<m>>
      BY <1>1 DEF WireOK, Pending
    <2> QED BY <1>1, <2>1 DEF Message, Pending
  <1>2. Sent \subseteq (0 .. Requests) \X Worker
    <2>1. executed \subseteq (0 .. Requests) \X Worker
      BY Constants DEF StateOK
    <2> QED BY <1>1, <2>1 DEF Sent
  <1>3. IsFiniteSet(0 .. Requests) /\ IsFiniteSet(Worker)
    BY Constants, FS_Interval
  <1>4. IsFiniteSet((0 .. Requests) \X Worker)
    BY <1>3, FS_Product
  <1>5. IsFiniteSet(Sent)
    BY <1>2, <1>4, FS_Subset
  <1>6. \A e \in Sent : e[1] \in 0 .. Requests
    BY <1>2
  <1> QED BY <1>5, <1>6, FS_Subset, FS_CardinalityType

LEMMA LinesAreTyped ==
    ASSUME StateOK
    PROVE  \A w \in Worker : \A line \in Lines(w) :
               line \in Answer /\ line.to \in Message /\ line.to[2] \in Nat
  <1> SUFFICES ASSUME NEW w \in Worker, NEW line \in Lines(w)
               PROVE  line \in Answer /\ line.to \in Message /\ line.to[2] \in Nat
    OBVIOUS
  <1>1. worker[w].stdout \in Seq(Answer)
    BY DEF StateOK, Mind
  <1>2. line \in Answer
    BY <1>1, LenProperties DEF Lines, LinesOf
  <1> QED BY <1>2, Constants DEF Answer, Message

LEMMA InitHolds == Init => IInv
  <1> SUFFICES ASSUME Init PROVE IInv
    OBVIOUS
  <1> USE Constants
  <1>1. Len(results) = 0 /\ DOMAIN results = {} /\ results \in Seq(Outcome)
    BY EmptySeq DEF Init
  <1>2. \A w \in Worker : worker[w] = Fresh /\ leader[w] = "absent"
    BY DEF Init
  <1>3. StateOK
    BY <1>1, LimitsAreNat DEF Init, StateOK, Names
  <1>4. Sent = {}
    BY <1>2 DEF Sent, Pending, Fresh, Init
  <1>5. Cardinality(Sent) = 0
    BY <1>4, FS_EmptySet
  <1>6. Abandoned = {}
    BY <1>2 DEF Abandoned
  <1>7. StagesOK
    BY <1>1 DEF Init, StagesOK, Free, Working, Current, Type, NoWorker
  <1>8. ProcessesOK
    BY <1>2, <1>6, FS_EmptySet DEF Init, ProcessesOK, NoWorker, Free
  <1>9. WireOK
    <2>1. \A w \in Worker : worker[w].stdin = <<>> /\ Lines(w) = {}
      BY <1>2, EmptySeq DEF Fresh, Lines, LinesOf
    <2> QED BY <2>1 DEF WireOK, Init, Holding
  <1>10. SentOK /\ ResultsOK
    BY <1>1, <1>4, <1>5 DEF SentOK, ResultsOK, Init, Free
  <1>11. LimitsOK
    BY DEF LimitsOK, ToBeSent, Init, Free
  <1> QED BY <1>3, <1>7, <1>8, <1>9, <1>10, <1>11 DEF IInv

(* The invocation in hand ends.                                            *)
LEMMA OneMoreResult ==
    ASSUME StateOK, NEW result \in Status, NEW doubt \in BOOLEAN,
           results' = Append(results, [status |-> result, doubt |-> doubt, worker |-> process])
    PROVE  /\ results' \in Seq(Outcome) /\ Len(results') = Len(results) + 1
           /\ Len(results) \in Nat /\ DOMAIN results = 1 .. Len(results)
           /\ DOMAIN results' = 1 .. Len(results) + 1
           /\ \A r \in DOMAIN results : results'[r] = results[r]
           /\ results'[Current] = [status |-> result, doubt |-> doubt, worker |-> process]
  <1>1. [status |-> result, doubt |-> doubt, worker |-> process] \in Outcome
    BY DEF StateOK, Outcome
  <1>2. results \in Seq(Outcome)
    BY DEF StateOK
  <1> QED BY <1>1, <1>2, AppendProperties, LenProperties DEF Current

(* Nothing was sent that was not sent before.                              *)
LEMMA SentShrinks ==
    ASSUME executed' = executed,
           \A w \in Worker : worker'[w].stdin = worker[w].stdin \/ worker'[w].stdin = <<>>
    PROVE  Sent' \subseteq Sent
  BY DEF Sent, Pending

(* The results stay true when one is added that is true.                   *)
LEMMA ResultsStay ==
    ASSUME StateOK, WireOK, ResultsOK, SentOK, NEW result \in Status, NEW doubt \in BOOLEAN,
           results' = Append(results, [status |-> result, doubt |-> doubt, worker |-> process]),
           executed' = executed, Sent' \subseteq Sent,
           result = "ok" => <<Current, process>> \in executed,
           result \in {"failed", "refused"} /\ ~doubt => \A e \in Sent : e[1] <= Len(results)
    PROVE  ResultsOK' /\ \A e \in Sent' : e[1] <= Len(results')
  <1> DEFINE rec == [status |-> result, doubt |-> doubt, worker |-> process]
  <1>0. rec.status = result /\ rec.doubt = doubt /\ rec.worker = process
    OBVIOUS
  <1> HIDE DEF rec
  <1>1. /\ Len(results') = Len(results) + 1 /\ Len(results) \in Nat
        /\ DOMAIN results' = DOMAIN results \cup {Current} /\ DOMAIN results = 1 .. Len(results)
        /\ \A r \in DOMAIN results : results'[r] = results[r]
        /\ results'[Current] = rec
    <2>1. /\ Len(results') = Len(results) + 1 /\ Len(results) \in Nat
          /\ DOMAIN results' = 1 .. Len(results) + 1 /\ DOMAIN results = 1 .. Len(results)
          /\ \A r \in DOMAIN results : results'[r] = results[r]
          /\ results'[Current] = rec
      BY OneMoreResult DEF rec
    <2> QED BY <2>1 DEF Current
  <1>2. ASSUME NEW r \in DOMAIN results
        PROVE  /\ results'[r].status = "ok" => <<r, results'[r].worker>> \in executed'
               /\ results'[r].status \in {"failed", "refused"} /\ ~results'[r].doubt =>
                      \A e \in Sent' : e[1] # r
    BY <1>1, <1>2 DEF ResultsOK
  <1>3. /\ rec.status = "ok" => <<Current, rec.worker>> \in executed'
        /\ rec.status \in {"failed", "refused"} /\ ~rec.doubt =>
               \A e \in Sent' : e[1] # Current
    <2>1. \A e \in Sent : e[1] <= Len(results) => e[1] # Current
      BY <1>1 DEF Current
    <2> QED BY <1>0, <2>1
  <1>4. ResultsOK'
    BY <1>1, <1>2, <1>3 DEF ResultsOK
  <1>5. \A e \in Sent : e[1] <= Len(results')
    BY <1>1, SentIsFinite DEF SentOK, Current
  <1> QED BY <1>4, <1>5

(* The invocation or the close that was in hand ends, and its worker with  *)
(* it: the invariant holds after it.                                       *)
LEMMA EndKeeps ==
    ASSUME IInv, NEW result \in {"failed", "cancelled", "closed"}, NEW doubt \in BOOLEAN,
           Settle(result, doubt),
           invoker.stage \in {"spawning", "sending", "waiting", "stopping"},
           result = "failed" /\ ~doubt => \A e \in Sent : e[1] <= Len(results),
           \A w \in Worker : leader[w] # "up",
           process' = NoWorker, active' \in Names,
           attempts' = attempts + (IF invoker.stage = "spawning" THEN 1 ELSE 0),
           reaped' = reaped, executed' = executed, drains' \subseteq drains,
           executions' \in executions .. MaxExecutions, spent' \in 0 .. TotalTime,
           cancels' \in Nat, faults' \in Nat, overflow' \in BOOLEAN,
           leader' \in [Worker -> {"absent", "up", "stopping", "down"}],
           helper' \in [Worker -> {"absent", "up", "down"}],
           \A w \in Worker : leader'[w] = leader[w] \/ (w <= attempts /\ leader'[w] = "down"),
           Cardinality({w \in Worker : leader'[w] = "stopping"}) <= cancels',
           worker' \in [Worker -> Mind],
           \A w \in Worker : /\ worker'[w].stdin = worker[w].stdin \/ worker'[w].stdin = <<>>
                             /\ Lines(w)' \subseteq Lines(w)
                             /\ w > attempts' => worker'[w] = Fresh
    PROVE  IInv'
  <1>0. /\ StateOK /\ StagesOK /\ ProcessesOK /\ WireOK /\ SentOK /\ ResultsOK /\ LimitsOK
        /\ Requests \in Nat /\ MaxExecutions \in Nat /\ TotalTime \in Nat
    BY Constants DEF IInv
  <1>1. /\ executions' \in Nat /\ executions' <= MaxExecutions /\ executions' >= executions
        /\ spent' \in Nat /\ spent' <= TotalTime /\ attempts' \in Nat
    BY <1>0 DEF StateOK
  <1>2. Sent' \subseteq Sent
    BY SentShrinks
  <1>3. /\ \A e, f \in Sent' : e[1] = f[1] => e = f
        /\ Cardinality(Sent') <= executions'
    <2>1. Cardinality(Sent) <= executions /\ \A e, f \in Sent : e[1] = f[1] => e = f
      BY <1>0 DEF SentOK
    <2>2. /\ Cardinality(Sent) \in Nat /\ Cardinality(Sent') \in Nat /\ executions \in Nat
          /\ Cardinality(Sent') <= Cardinality(Sent)
      BY <1>0, <1>2, SentIsFinite DEF StateOK
    <2> QED BY <1>1, <1>2, <2>1, <2>2
  <1>4. /\ invoker' \in Waits /\ invoker'.stage \in {"idle", "closed"} /\ invoker'.old = NoWorker
        /\ Type' = "none"
        /\ invoker'.stage = "idle" => invoker' = Free
    <2>1. invoker' = Free \/ invoker' = [Free EXCEPT !.stage = "closed"]
      BY DEF Settle
    <2>2. Free.stage = "idle" /\ Free.old = NoWorker /\ Free.message[1] = "none"
      BY DEF Free
    <2>3. [Free EXCEPT !.stage = "closed"] \in Waits /\ Free \in Waits
      BY Constants DEF Waits, Stage
    <2>4. CASE invoker' = Free
      BY <2>2, <2>3, <2>4 DEF Type
    <2>5. CASE invoker' = [Free EXCEPT !.stage = "closed"]
      <3>1. /\ invoker'.stage = "closed" /\ invoker'.old = Free.old
            /\ invoker'.message = Free.message
        BY <2>5, Constants DEF Waits
      <3> QED BY <2>2, <2>3, <2>5, <3>1 DEF Type
    <2> QED BY <2>1, <2>4, <2>5
  <1>5. /\ results' \in Seq(Outcome) /\ ResultsOK' /\ Len(results') <= Requests
        /\ attempts' <= Len(results') /\ \A e \in Sent' : e[1] <= Len(results')
    <2>1. CASE Type = "shutdown"
      <3>1. results' = results
        BY <2>1 DEF Settle, Type
      <3>2. \A e \in Sent' : e[1] <= Len(results')
        BY <1>0, <1>2, <2>1, <3>1 DEF SentOK
      <3>3. attempts' <= Len(results') /\ Len(results') <= Requests
        BY <1>0, <2>1, <3>1 DEF StagesOK, Working, StateOK
      <3> QED BY <1>0, <1>2, <3>1, <3>2, <3>3 DEF ResultsOK, StateOK
    <2>2. CASE Type # "shutdown"
      <3>1. results' = Append(results, [status |-> result, doubt |-> doubt, worker |-> process])
        BY <2>2 DEF Settle, Type
      <3>2. result \in Status
        BY DEF Status
      <3>3. ResultsOK' /\ \A e \in Sent' : e[1] <= Len(results')
        BY <1>0, <1>2, <3>1, <3>2, ResultsStay
      <3>4. results' \in Seq(Outcome) /\ Len(results') = Len(results) + 1 /\ Len(results) \in Nat
        BY <1>0, <3>1, <3>2, OneMoreResult
      <3>5. attempts' <= Len(results') /\ Len(results') <= Requests
        BY <1>0, <2>2, <3>4 DEF StagesOK, Working, Current, StateOK
      <3> QED BY <3>3, <3>4, <3>5
    <2> QED BY <2>1, <2>2
  <1>6. StateOK'
    BY <1>0, <1>1, <1>4, <1>5 DEF StateOK
  <1>7. StagesOK'
    <2>1. ~Working' /\ Len(results') \in Nat
      BY <1>4, <1>5, LenProperties DEF Working
    <2> QED BY <1>1, <1>4, <1>5, <2>1 DEF StagesOK
  <1>8. ProcessesOK'
    <2>1. Abandoned' = {w \in Worker : leader'[w] = "stopping"}
      BY <1>4, Constants DEF Abandoned
    <2>2. \A w \in Worker : w > attempts' => leader'[w] = "absent" /\ worker'[w] = Fresh
      <3>1. \A w \in Worker : w > attempts' => w > attempts /\ ~(w <= attempts)
        BY <1>0 DEF StateOK, Worker
      <3> QED BY <1>0, <3>1 DEF ProcessesOK
    <2>3. \A w \in Worker : w \in reaped' => leader'[w] = "down"
      BY <1>0 DEF ProcessesOK
    <2>4. process' <= attempts' /\ invoker'.old <= attempts'
      BY <1>1, <1>4 DEF NoWorker
    <2>5. \A w \in Worker : leader'[w] # "up"
      OBVIOUS
    <2>6. \A w \in drains' : w <= attempts'
      BY <1>0 DEF ProcessesOK, StateOK, Worker
    <2> QED BY <2>1, <2>2, <2>3, <2>4, <2>5, <2>6 DEF ProcessesOK
  <1>9. SentOK'
    BY <1>3, <1>4, <1>5 DEF SentOK
  <1>10. LimitsOK'
    BY <1>1, <1>4 DEF LimitsOK, ToBeSent
  <1>11. WireOK'
    BY <1>0 DEF WireOK, Holding
  <1> QED BY <1>5, <1>6, <1>7, <1>8, <1>9, <1>10, <1>11 DEF IInv

(* _terminate, whatever it ends: the invariant holds after it.             *)
LEMMA TerminateKeeps ==
    ASSUME IInv, NEW result \in {"failed", "cancelled", "closed"}, NEW doubt \in BOOLEAN,
           Terminate(result, doubt),
           invoker.stage \in {"spawning", "sending", "waiting"},
           result = "failed" /\ ~doubt => \A e \in Sent : e[1] <= Len(results),
           attempts' = attempts + (IF invoker.stage = "spawning" THEN 1 ELSE 0),
           reaped' = reaped, executed' = executed,
           executions' \in executions .. MaxExecutions, spent' \in 0 .. TotalTime,
           cancels' \in Nat, cancels' >= cancels, faults' \in Nat, overflow' \in BOOLEAN,
           worker' \in [Worker -> Mind],
           \A w \in Worker : /\ worker'[w].stdin = worker[w].stdin
                             /\ Lines(w)' \subseteq Lines(w)
                             /\ w > attempts' => worker'[w] = Fresh
    PROVE  IInv'
  <1>0. /\ StateOK /\ StagesOK /\ ProcessesOK /\ WireOK /\ SentOK /\ ResultsOK /\ LimitsOK
        /\ Requests \in Nat /\ MaxExecutions \in Nat /\ TotalTime \in Nat
    BY Constants DEF IInv
  <1>1. process' = NoWorker /\ active' = NoSession /\ attempts' \in Nat
    BY <1>0 DEF Terminate, StateOK
  <1>2. /\ Sent' = Sent /\ executions' \in Nat /\ executions' <= MaxExecutions
        /\ spent' \in Nat /\ spent' <= TotalTime
    BY <1>0 DEF Sent, Pending, StateOK
  <1>3. /\ \A e, f \in Sent' : e[1] = f[1] => e = f
        /\ Cardinality(Sent') <= executions'
    <2>1. Cardinality(Sent) <= executions /\ \A e, f \in Sent : e[1] = f[1] => e = f
      BY <1>0 DEF SentOK
    <2>2. Cardinality(Sent) \in Nat /\ executions \in Nat
      BY <1>0, SentIsFinite DEF StateOK
    <2> QED BY <1>2, <2>1, <2>2
  <1>4. WireOK' \/ invoker'.stage \notin {"stopping", "idle", "closed"}
    <2>1. ~Holding'
      BY <1>1 DEF Holding
    <2> QED BY <1>0, <2>1 DEF WireOK
  <1>5. CASE Alive
    <2>1. /\ Terminated(process) /\ results' = results /\ drains' = drains
          /\ invoker' = [invoker EXCEPT !.stage = "stopping", !.old = process,
                                        !.result = result, !.doubt = doubt]
      BY <1>5 DEF Terminate
    <2>2. process \in Worker /\ invoker.stage \in {"sending", "waiting"} /\ attempts' = attempts
      BY <1>0, <1>5 DEF Alive, StateOK, StagesOK
    <2>3. /\ invoker'.stage = "stopping" /\ invoker'.old = process /\ Type' = Type
          /\ invoker'.result = result /\ invoker'.doubt = doubt
          /\ invoker'.request = invoker.request /\ invoker' \in Waits
          /\ invoker.old = NoWorker
      BY <1>0, <2>1, <2>2 DEF StateOK, StagesOK, Waits, Stage, Status, Type
    <2>4. /\ leader' \in [Worker -> {"absent", "up", "stopping", "down"}]
          /\ helper' \in [Worker -> {"absent", "up", "down"}]
          /\ \A w \in Worker : leader'[w] = IF w = process /\ leader[w] = "up" THEN "stopping"
                                            ELSE leader[w]
      BY <1>0, <2>1, <2>2 DEF Terminated, StateOK
    <2>5. StateOK'
      BY <1>0, <1>1, <1>2, <2>1, <2>3, <2>4 DEF StateOK, Names
    <2>6. StagesOK'
      BY <1>0, <1>1, <2>1, <2>2, <2>3, Constants DEF StagesOK, Working, Current, NoWorker
    <2>7. Abandoned' \subseteq Abandoned
      BY <2>3, <2>4, Constants DEF Abandoned
    <2>8. Cardinality(Abandoned') <= cancels'
      <3>1. IsFiniteSet(Abandoned) /\ Abandoned \subseteq Worker
        BY Constants, FS_Subset DEF Abandoned
      <3>2. Cardinality(Abandoned') <= Cardinality(Abandoned) /\ IsFiniteSet(Abandoned')
        BY <2>7, <3>1, FS_Subset
      <3>3. Cardinality(Abandoned) \in Nat /\ Cardinality(Abandoned') \in Nat /\ cancels \in Nat
        BY <1>0, <3>1, <3>2, FS_CardinalityType DEF StateOK
      <3> QED BY <1>0, <3>2, <3>3 DEF ProcessesOK
    <2>9. ProcessesOK'
      <3>1. \A w \in Worker : leader'[w] = "up" => FALSE
        BY <1>0, <2>4 DEF ProcessesOK
      <3>2. \A w \in Worker : w > attempts' => leader'[w] = "absent" /\ worker'[w] = Fresh
        BY <1>0, <2>2, <2>4 DEF ProcessesOK
      <3>3. \A w \in Worker : w \in reaped' => leader'[w] = "down"
        BY <1>0, <2>4 DEF ProcessesOK
      <3>4. process' <= attempts'
        BY <1>1 DEF NoWorker
      <3>5. invoker'.old <= attempts' /\ \A w \in drains' : w <= attempts'
        BY <1>0, <2>1, <2>2, <2>3 DEF ProcessesOK
      <3> QED BY <2>8, <3>1, <3>2, <3>3, <3>4, <3>5 DEF ProcessesOK
    <2>10. SentOK'
      <3>1. Len(results') = Len(results) /\ Current' = Current
        BY <2>1 DEF Current
      <3>2. \A e \in Sent' : \/ e[1] <= Len(results')
                             \/ e[1] = Current' /\ Type' = "invoke" /\ invoker'.stage = "stopping"
        BY <1>0, <1>2, <2>3, <3>1 DEF SentOK
      <3>3. invoker'.result = "failed" /\ ~invoker'.doubt => \A e \in Sent' : e[1] <= Len(results')
        BY <1>2, <2>3, <3>1
      <3> QED BY <1>3, <3>2, <3>3 DEF SentOK
    <2>11. ResultsOK'
      BY <1>0, <1>2, <2>1 DEF ResultsOK
    <2>12. LimitsOK'
      BY <1>2, <2>3 DEF LimitsOK, ToBeSent
    <2>13. WireOK'
      BY <1>4, <2>3
    <2> QED BY <2>5, <2>6, <2>9, <2>10, <2>11, <2>12, <2>13 DEF IInv
  <1>6. CASE ~Alive
    <2>1. /\ Settle(result, doubt) /\ leader' = leader /\ helper' = helper
          /\ drains' = drains \ {process}
      BY <1>6 DEF Terminate
    <2>2. \A w \in Worker : leader[w] # "up"
      BY <1>0, <1>6, Constants DEF ProcessesOK, Alive
    <2> DEFINE Left == {w \in Worker : leader'[w] = "stopping"}
    <2>3. Left = Abandoned
      BY <1>0, <2>1, Constants DEF Abandoned, StagesOK
    <2> HIDE DEF Left
    <2>4. Cardinality(Left) <= cancels'
      <3>1. Cardinality(Abandoned) \in Nat /\ cancels \in Nat
        BY <1>0, Constants, FS_Subset, FS_CardinalityType DEF Abandoned, StateOK
      <3> QED BY <1>0, <2>3, <3>1 DEF ProcessesOK
    <2> QED BY <1>0, <1>1, <2>1, <2>2, <2>4, EndKeeps DEF StateOK, Names, Left
  <1> QED BY <1>5, <1>6

-----------------------------------------------------------------------------
(* The actions of the invoker.                                             *)
LEMMA ReadLineShrinks ==
    ASSUME IInv, process \in Worker, Stdout # <<>>, ReadLine
    PROVE  /\ worker' \in [Worker -> Mind] /\ Head(Stdout) \in Lines(process)
           /\ \A w \in Worker : /\ worker'[w].stdin = worker[w].stdin
                                /\ Lines(w)' \subseteq Lines(w)
                                /\ w > attempts => worker'[w] = Fresh
  <1>1. /\ worker \in [Worker -> Mind] /\ worker[process].stdout \in Seq(Answer)
        /\ process <= attempts /\ attempts \in Nat /\ Worker \subseteq Nat
        /\ \A w \in Worker : w > attempts => worker[w] = Fresh
    BY DEF IInv, StateOK, ProcessesOK, Mind, Worker
  <1>2. /\ Tail(Stdout) \in Seq(Answer) /\ LinesOf(Tail(Stdout)) \subseteq LinesOf(Stdout)
        /\ Head(Stdout) \in LinesOf(Stdout)
    BY <1>1, LinesOfSequences DEF Stdout
  <1>3. worker' = [worker EXCEPT ![process].stdout = Tail(Stdout)]
    BY DEF ReadLine, Stdout
  <1>4. worker' \in [Worker -> Mind]
    BY <1>1, <1>2, <1>3 DEF Mind
  <1>5. \A w \in Worker : w # process => worker'[w] = worker[w]
    BY <1>1, <1>3
  <1>6. /\ worker'[process].stdin = worker[process].stdin
        /\ worker'[process].stdout = Tail(Stdout)
    BY <1>1, <1>3 DEF Mind
  <1>7. \A w \in Worker : Lines(w)' \subseteq Lines(w)
    BY <1>2, <1>5, <1>6 DEF Lines, Stdout
  <1>8. \A w \in Worker : w > attempts => w # process
    BY <1>1
  <1> QED BY <1>1, <1>2, <1>4, <1>5, <1>6, <1>7, <1>8 DEF Lines, Stdout

(* Whoever is not waited for as an invocation was not sent.                *)
LEMMA UnsentIsUnsent ==
    ASSUME IInv, Type # "invoke" \/ invoker.stage \notin {"waiting", "stopping"}
    PROVE  \A e \in Sent : e[1] <= Len(results)
  BY DEF IInv, SentOK

LEMMA BeginKeeps == IInv /\ Begin => IInv'
  <1> SUFFICES ASSUME IInv, Begin PROVE IInv'
    OBVIOUS
  <1>0. /\ StateOK /\ StagesOK /\ ProcessesOK /\ WireOK /\ SentOK /\ ResultsOK /\ LimitsOK
        /\ Requests \in Nat /\ MaxExecutions \in Nat
    BY Constants DEF IInv
  <1>1. /\ invoker.stage = "idle" /\ invoker = Free /\ Type = "none" /\ invoker.old = NoWorker
        /\ Len(results) \in Nat /\ Current \in 1 .. Requests
        /\ UNCHANGED <<process, active, attempts, executions, spent, overflow, drains, leader,
                       helper, reaped, worker, executed, cancels, faults>>
    BY <1>0, LenProperties DEF Begin, StagesOK, StateOK, Free, Type, Current, counters, processes
  <1>2. /\ Sent' = Sent /\ Worker \subseteq Nat /\ \A w : Lines(w)' = Lines(w)
        /\ Alive' = Alive
    BY <1>1 DEF Sent, Pending, Lines, Worker, Alive
  <1>3. CASE executions >= MaxExecutions
    <2>1. /\ invoker' = invoker
          /\ results' = Append(results, [status |-> "refused", doubt |-> FALSE, worker |-> NoWorker])
      BY <1>3 DEF Begin
    <2>2. [status |-> "refused", doubt |-> FALSE, worker |-> NoWorker] \in Outcome
      BY DEF Outcome, Status
    <2>3. /\ results' \in Seq(Outcome) /\ Len(results') = Len(results) + 1
          /\ DOMAIN results = 1 .. Len(results) /\ DOMAIN results' = 1 .. Len(results')
          /\ \A r \in 1 .. Len(results) : results'[r] = results[r]
          /\ results'[Current].status = "refused"
      BY <1>0, <2>1, <2>2, AppendProperties, LenProperties DEF StateOK, Current
    <2>4. StateOK' /\ StagesOK' /\ ProcessesOK' /\ LimitsOK'
      <3>1. Type' = "none" /\ ~Working' /\ Abandoned' = Abandoned
        BY <1>1, <2>1 DEF Type, Working, Abandoned
      <3>2. StateOK'
        BY <1>0, <1>1, <2>1, <2>3 DEF StateOK
      <3>3. attempts \in Nat /\ attempts <= Len(results)
        BY <1>0, <1>1 DEF StateOK, StagesOK, Working
      <3>4. StagesOK'
        BY <1>1, <2>1, <2>3, <3>1, <3>3 DEF StagesOK, Current
      <3>5. ProcessesOK'
        BY <1>0, <1>1, <2>1, <3>1 DEF ProcessesOK
      <3>6. LimitsOK'
        BY <1>0, <1>1, <2>1 DEF LimitsOK, ToBeSent
      <3> QED BY <3>2, <3>4, <3>5, <3>6
    <2>5. WireOK'
      <3>1. Holding => worker[process].stdin = <<>> /\ \A line \in Lines(process) : Earlier(line.to)
        BY <1>0, <1>1 DEF WireOK, WasRead
      <3>2. \A m : m[2] \in Nat /\ Earlier(m) => Earlier(m)'
        BY <1>1, <2>1, <2>3 DEF Earlier, Type
      <3>3. (Holding' => Holding) /\ (Holding => process \in Worker)
        BY <1>0, <1>1, <2>1 DEF Holding, StateOK
      <3>4. Holding => \A line \in Lines(process) : Earlier(line.to)'
        BY <1>0, <3>1, <3>2, <3>3, LinesAreTyped
      <3> QED BY <1>0, <1>1, <1>2, <3>1, <3>3, <3>4 DEF WireOK
    <2>6. \A e \in Sent' : e[1] <= Len(results) /\ e[1] \in Nat
      BY <1>0, <1>1, <1>2, SentIsFinite DEF SentOK
    <2>7. SentOK'
      BY <1>0, <1>1, <1>2, <2>1, <2>3, <2>6 DEF SentOK
    <2>8. ASSUME NEW r \in DOMAIN results'
          PROVE  /\ results'[r].status = "ok" => <<r, results'[r].worker>> \in executed'
                 /\ results'[r].status \in {"failed", "refused"} /\ ~results'[r].doubt =>
                        \A e \in Sent' : e[1] # r
      <3>1. CASE r = Current
        BY <1>1, <2>3, <2>6, <3>1 DEF Current
      <3>2. CASE r # Current
        <4>1. r \in DOMAIN results /\ results'[r] = results[r]
          BY <1>1, <2>3, <3>2 DEF Current
        <4> QED BY <1>0, <1>1, <1>2, <4>1 DEF ResultsOK
      <3> QED BY <3>1, <3>2
    <2> QED BY <2>4, <2>5, <2>7, <2>8 DEF IInv, ResultsOK
  <1>4. CASE ~(executions >= MaxExecutions)
    <2>1. PICK type \in {"invoke", "session"}, stage \in {"sending", "spawning"} :
             /\ stage = "sending" <=> Alive
             /\ invoker' = [Free EXCEPT !.stage = stage,
                                        !.message = <<type, Current, SessionOf[Current]>>,
                                        !.request = Current]
             /\ results' = results
      BY <1>4 DEF Begin, Current
    <2>2. <<type, Current, SessionOf[Current]>> \in Message
      BY <1>1, <2>1, Constants DEF Message, Kind
    <2>3. /\ invoker' \in Waits /\ invoker'.stage = stage /\ invoker'.old = NoWorker
          /\ invoker'.request = Current /\ Type' = type /\ invoker'.message[2] = Current
          /\ Current' = Current
      <3>1. invoker'.stage = stage /\ invoker'.old = NoWorker /\ invoker'.request = Current
        BY <2>1, Constants DEF Waits, Free
      <3>2. invoker'.message = <<type, Current, SessionOf[Current]>>
        BY <2>1, Constants DEF Waits
      <3>3. stage \in Stage /\ Current \in 0 .. Requests
        BY <1>1 DEF Stage
      <3>4. invoker' \in Waits
        BY <2>1, <2>2, <3>3, Constants DEF Waits
      <3> QED BY <2>1, <3>1, <3>2, <3>4 DEF Type, Current
    <2>4. StateOK'
      BY <1>0, <1>1, <2>1, <2>3 DEF StateOK
    <2>5. StagesOK'
      BY <1>0, <1>1, <1>2, <2>1, <2>3 DEF StagesOK, Working, Current, Alive, StateOK
    <2>6. ProcessesOK'
      BY <1>0, <1>1, <2>3 DEF ProcessesOK, Abandoned
    <2>7. WireOK'
      <3>1. Holding' => Holding
        BY <1>1, <2>3 DEF Holding
      <3>2. Holding => worker[process].stdin = <<>> /\ \A line \in Lines(process) : Earlier(line.to)
        BY <1>0, <1>1 DEF WireOK, WasRead
      <3>3. \A m : Earlier(m) => Earlier(m)'
        BY <1>1, <2>1, <2>3 DEF Earlier, Type
      <3> QED BY <1>0, <1>1, <1>2, <3>1, <3>2, <3>3 DEF WireOK
    <2>8. SentOK'
      BY <1>0, <1>1, <1>2, <2>1, <2>3 DEF SentOK
    <2>9. ResultsOK'
      BY <1>0, <1>1, <1>2, <2>1 DEF ResultsOK
    <2>10. LimitsOK'
      BY <1>0, <1>1, <1>4, <2>1, <2>3 DEF LimitsOK, ToBeSent, StateOK
    <2> QED BY <2>4, <2>5, <2>6, <2>7, <2>8, <2>9, <2>10 DEF IInv
  <1> QED BY <1>3, <1>4

LEMMA CloseKeeps == IInv /\ Close => IInv'
  <1> SUFFICES ASSUME IInv, Close PROVE IInv'
    OBVIOUS
  <1>0. /\ StateOK /\ StagesOK /\ ProcessesOK /\ WireOK /\ SentOK /\ ResultsOK /\ LimitsOK
        /\ Requests \in Nat
    BY Constants DEF IInv
  <1>1. /\ invoker.stage = "idle" /\ invoker = Free /\ Type = "none" /\ invoker.old = NoWorker
        /\ UNCHANGED <<process, active, attempts, executions, spent, overflow, drains, results,
                       leader, helper, reaped, worker, executed, cancels, faults>>
    BY <1>0 DEF Close, StagesOK, Free, Type, counters, processes
  <1>2. Sent' = Sent /\ Current' = Current /\ \A w : Lines(w)' = Lines(w)
    BY <1>1 DEF Sent, Pending, Lines, Current
  <1>3. /\ invoker' \in Waits /\ invoker'.old = NoWorker
        /\ \/ invoker'.stage = "closed" /\ process = NoWorker
           \/ /\ invoker'.stage = "sending" /\ process # NoWorker
              /\ Type' = "shutdown"
    <2>1. <<"shutdown", 0, NoSession>> \in Message
      BY <1>0, Constants DEF Message, Kind
    <2>2. CASE process = NoWorker
      <3>1. invoker' = [Free EXCEPT !.stage = "closed"]
        BY <2>2 DEF Close
      <3> QED BY <2>2, <3>1, Constants DEF Waits, Stage, Free
    <2>3. CASE process # NoWorker
      <3>1. invoker' = [Free EXCEPT !.stage = "sending", !.message = <<"shutdown", 0, NoSession>>]
        BY <2>3 DEF Close
      <3> QED BY <2>1, <2>3, <3>1, Constants DEF Waits, Stage, Free, Type
    <2> QED BY <2>2, <2>3
  <1>4. StateOK' /\ StagesOK' /\ ProcessesOK' /\ SentOK' /\ ResultsOK' /\ LimitsOK'
    BY <1>0, <1>1, <1>2, <1>3 DEF StateOK, StagesOK, ProcessesOK, SentOK, ResultsOK, LimitsOK,
       Working, ToBeSent, Abandoned
  <1>5. WireOK'
    <2>1. Holding' => Holding
      BY <1>1, <1>3 DEF Holding
    <2>2. Holding => worker[process].stdin = <<>> /\ \A line \in Lines(process) : Earlier(line.to)
      BY <1>0, <1>1 DEF WireOK, WasRead
    <2>3. \A m : Holding' /\ Earlier(m) => Earlier(m)'
      BY <1>1, <1>2, <1>3 DEF Earlier, Type, Holding
    <2> QED BY <1>0, <1>1, <1>2, <2>1, <2>2, <2>3 DEF WireOK
  <1> QED BY <1>4, <1>5 DEF IInv

LEMMA SpawnKeeps == IInv /\ Spawn => IInv'
  <1> SUFFICES ASSUME IInv, Spawn PROVE IInv'
    OBVIOUS
  <1>0. /\ StateOK /\ StagesOK /\ ProcessesOK /\ WireOK /\ SentOK /\ ResultsOK /\ LimitsOK
        /\ Requests \in Nat /\ MaxExecutions \in Nat /\ TotalTime \in Nat
    BY Constants DEF IInv
  <1>1. /\ invoker.stage = "spawning" /\ attempts' = attempts + 1 /\ overflow' = FALSE
        /\ UNCHANGED <<executions, spent, reaped, worker, executed, cancels>>
        /\ \A e \in Sent : e[1] <= Len(results)
    BY UnsentIsUnsent DEF Spawn
  <1>2. \A w \in Worker : /\ worker'[w].stdin = worker[w].stdin
                          /\ Lines(w)' \subseteq Lines(w)
                          /\ w > attempts' => worker'[w] = Fresh
    BY <1>0, <1>1 DEF Lines, ProcessesOK, StateOK, Worker
  <1>3. CASE SpawnFailed
    <2>1. /\ executions' \in executions .. MaxExecutions /\ spent' \in 0 .. TotalTime
          /\ cancels' \in Nat /\ cancels' >= cancels
          /\ worker' \in [Worker -> Mind]
      BY <1>0, <1>1 DEF StateOK, LimitsOK
    <2>2. overflow' \in BOOLEAN
      BY <1>1
    <2>3. faults' \in Nat
      BY <1>0, <1>3 DEF SpawnFailed, StateOK
    <2>4. Terminate("failed", FALSE)
      BY <1>3 DEF SpawnFailed
    <2> QED BY <1>1, <1>2, <2>1, <2>2, <2>3, <2>4, TerminateKeeps
  <1>4. CASE Spawned
    <2>1. PICK new \in Worker : new = attempts + 1
      BY <1>0, <1>1 DEF StagesOK, StateOK, Worker, Working, Current
    <2>2. /\ process' = new /\ active' = NoSession /\ leader' = [leader EXCEPT ![new] = "up"]
          /\ drains' = drains \cup {new}
          /\ invoker' = [invoker EXCEPT !.stage = "sending", !.message = <<"start", 0, NoSession>>]
          /\ UNCHANGED <<helper, results, faults>>
      BY <1>4, <2>1 DEF Spawned
    <2>3. <<"start", 0, NoSession>> \in Message
      BY <1>0, Constants DEF Message, Kind
    <2>4. /\ invoker' \in Waits /\ invoker'.stage = "sending" /\ Type' = "start"
          /\ invoker'.message[2] = 0 /\ invoker'.request = invoker.request
          /\ invoker'.old = invoker.old /\ invoker.old = NoWorker
      BY <1>0, <1>1, <2>2, <2>3 DEF Waits, Stage, StateOK, StagesOK, Type
    <2>5. /\ leader' \in [Worker -> {"absent", "up", "stopping", "down"}]
          /\ leader[new] = "absent" /\ worker[new] = Fresh /\ leader'[new] = "up"
          /\ \A w \in Worker : w # new => leader'[w] = leader[w]
      BY <1>0, <2>1, <2>2 DEF StateOK, ProcessesOK, Worker
    <2>6. StateOK'
      <3>1. overflow' \in BOOLEAN
        BY <1>1
      <3> QED BY <1>0, <1>1, <2>2, <2>4, <2>5, <3>1, Constants DEF StateOK
    <2>7. StagesOK'
      BY <1>0, <1>1, <2>1, <2>2, <2>4, Constants DEF StagesOK, Working, Current, StateOK
    <2>8. ProcessesOK'
      <3>1. Abandoned' = Abandoned
        BY <2>4, <2>5 DEF Abandoned
      <3>2. \A w \in Worker : leader[w] # "up"
        BY <1>0, <1>1, Constants DEF ProcessesOK, StagesOK, Alive
      <3>3. \A w \in Worker : w > attempts' => leader'[w] = "absent"
        BY <1>0, <1>1, <2>1, <2>5 DEF ProcessesOK, StateOK, Worker
      <3>4. \A w \in Worker : w \in reaped' => leader'[w] = "down"
        BY <1>0, <1>1, <2>5 DEF ProcessesOK
      <3>5. process' <= attempts' /\ invoker'.old <= attempts'
        BY <1>0, <1>1, <2>1, <2>2, <2>4 DEF StateOK, NoWorker
      <3>6. \A w \in drains' : w <= attempts'
        BY <1>0, <1>1, <2>1, <2>2 DEF ProcessesOK, StateOK, Worker
      <3>7. \A w \in Worker : leader'[w] = "up" => w = process'
        BY <2>2, <2>5, <3>2
      <3> QED BY <1>0, <1>1, <1>2, <3>1, <3>3, <3>4, <3>5, <3>6, <3>7 DEF ProcessesOK
    <2>9. WireOK'
      <3>1. worker'[new].stdin = <<>> /\ Lines(new)' = {}
        BY <1>1, <2>5, EmptySeq DEF Fresh, Lines, LinesOf
      <3> QED BY <1>0, <1>1, <2>2, <3>1 DEF WireOK, Lines
    <2>10. SentOK' /\ ResultsOK'
      <3>1. Sent' = Sent /\ results' = results
        BY <1>1, <2>2 DEF Sent, Pending
      <3> QED BY <1>0, <1>1, <2>4, <3>1 DEF SentOK, ResultsOK
    <2>11. LimitsOK'
      BY <1>0, <1>1, <2>4 DEF LimitsOK, ToBeSent
    <2> QED BY <2>6, <2>7, <2>8, <2>9, <2>10, <2>11 DEF IInv
  <1> QED BY <1>3, <1>4 DEF Spawn

LEMMA SendKeeps == IInv /\ Send => IInv'
  <1> SUFFICES ASSUME IInv, Send PROVE IInv'
    OBVIOUS
  <1>0. /\ StateOK /\ StagesOK /\ ProcessesOK /\ WireOK /\ SentOK /\ ResultsOK /\ LimitsOK
        /\ Requests \in Nat /\ MaxExecutions \in Nat /\ TotalTime \in Nat
    BY Constants DEF IInv
  <1>1. /\ invoker.stage = "sending" /\ process \in Worker /\ invoker.old = NoWorker
        /\ executions' = executions + (IF Type = "invoke" THEN 1 ELSE 0)
        /\ UNCHANGED <<attempts, spent, overflow, reaped, executed, cancels>>
        /\ \A e \in Sent : e[1] <= Len(results)
        /\ executions' \in executions .. MaxExecutions /\ spent' \in 0 .. TotalTime
    <2>1. invoker.stage = "sending" /\ executions' = executions + (IF Type = "invoke" THEN 1 ELSE 0)
      BY DEF Send
    <2>2. process \in Worker /\ invoker.old = NoWorker
      BY <1>0, <2>1 DEF StagesOK, StateOK
    <2>3. UNCHANGED <<attempts, spent, overflow, reaped, executed, cancels>>
      BY DEF Send
    <2>4. executions' \in executions .. MaxExecutions /\ spent' \in 0 .. TotalTime
      BY <1>0, <2>1, <2>3 DEF LimitsOK, ToBeSent, StateOK
    <2> QED BY <2>1, <2>2, <2>3, <2>4, UnsentIsUnsent
  <1>2. ASSUME Terminate("failed", FALSE), worker' = worker, faults' \in Nat
        PROVE  IInv'
    <2>1. \A w \in Worker : /\ worker'[w].stdin = worker[w].stdin
                            /\ Lines(w)' \subseteq Lines(w)
                            /\ w > attempts' => worker'[w] = Fresh
      BY <1>0, <1>1, <1>2 DEF Lines, ProcessesOK
    <2>2. overflow' \in BOOLEAN
      BY <1>0, <1>1 DEF StateOK
    <2>3. /\ cancels' \in Nat /\ cancels' >= cancels /\ worker' \in [Worker -> Mind]
          /\ attempts' = attempts + (IF invoker.stage = "spawning" THEN 1 ELSE 0)
      BY <1>0, <1>1, <1>2 DEF StateOK
    <2> QED BY <1>1, <1>2, <2>1, <2>2, <2>3, TerminateKeeps
  <1>3. ASSUME Type = "shutdown" \/ spent < TotalTime,
               invoker' = [invoker EXCEPT !.stage = "waiting"],
               worker' = [worker EXCEPT ![process].stdin = Append(@, invoker.message)],
               UNCHANGED <<process, active, leader, helper, drains, results, faults>>
        PROVE  IInv'
    <2>1. /\ invoker' \in Waits /\ invoker'.stage = "waiting" /\ invoker'.old = NoWorker
          /\ invoker'.message = invoker.message /\ invoker'.request = invoker.request
          /\ invoker.message \in Message /\ Type' = Type
      BY <1>0, <1>1, <1>3 DEF Waits, Stage, StateOK, Type
    <2>2. worker[process].stdin = <<>> /\ \A line \in Lines(process) : Earlier(line.to)
      BY <1>0, <1>1, Constants DEF WireOK, Holding, WasRead
    <2>3. worker' = [worker EXCEPT ![process].stdin = <<invoker.message>>]
      BY <1>3, <2>2
    <2>4. <<invoker.message>> \in Seq(Message)
      BY <2>1
    <2>5. /\ worker' \in [Worker -> Mind]
          /\ worker'[process].stdin = <<invoker.message>>
          /\ worker'[process].stdout = worker[process].stdout
          /\ \A w \in Worker \ {process} : worker'[w] = worker[w]
      BY <1>0, <1>1, <2>3, <2>4 DEF StateOK, Mind
    <2>6. \A w \in Worker : Lines(w)' = Lines(w)
      BY <2>5 DEF Lines
    <2>7. StateOK'
      BY <1>0, <1>1, <1>3, <2>1, <2>5 DEF StateOK
    <2>8. StagesOK'
      BY <1>0, <1>1, <1>3, <2>1 DEF StagesOK, Working, Current, Alive
    <2>9. ProcessesOK'
      <3>1. Abandoned' = Abandoned
        BY <1>1, <1>3, <2>1 DEF Abandoned
      <3>2. \A w \in Worker : w > attempts => w # process
        BY <1>0, <1>1 DEF ProcessesOK, StateOK, Worker
      <3> QED BY <1>0, <1>1, <1>3, <2>5, <3>1, <3>2 DEF ProcessesOK
    <2>10. WireOK'
      <3>1. \A w \in Worker : worker'[w].stdin = <<>> \/ \E m \in Message : worker'[w].stdin = <<m>>
        BY <1>0, <2>1, <2>5 DEF WireOK
      <3>2. \A m : Earlier(m) => Earlier(m)'
        BY <1>3, <2>1 DEF Earlier, Current
      <3>3. \A line \in Lines(process) : Earlier(line.to)'
        BY <2>2, <3>2
      <3>4. \A w \in Worker : \A line \in Lines(w)' :
                line.good /\ line.to[1] = "invoke" => <<line.to[2], w>> \in executed'
        BY <1>0, <1>1, <2>6 DEF WireOK
      <3>5. process' = process /\ Lines(process)' = Lines(process)
        BY <1>1, <1>3, <2>6
      <3> QED BY <1>1, <2>1, <2>5, <3>1, <3>3, <3>4, <3>5 DEF WireOK
    <2>11. /\ Sent' \subseteq Sent \cup (IF Type = "invoke" THEN {<<Current, process>>} ELSE {})
           /\ Len(results') = Len(results) /\ Current' = Current
      <3>1. Pending' \subseteq Pending \cup (IF Type = "invoke" THEN {process} ELSE {})
        BY <2>5 DEF Pending, Type
      <3>2. Type = "invoke" => invoker.message[2] = Current
        BY <1>0, <1>1 DEF StagesOK
      <3>3. process \notin Pending
        BY <2>2 DEF Pending
      <3>4. ASSUME NEW w \in Pending'
            PROVE  <<worker'[w].stdin[1][2], w>> \in
                       Sent \cup (IF Type = "invoke" THEN {<<Current, process>>} ELSE {})
        <4>1. CASE w = process
          BY <2>5, <3>1, <3>2, <3>3, <3>4, <4>1
        <4>2. CASE w # process
          <5>1. w \in Pending /\ worker'[w] = worker[w]
            BY <2>5, <3>1, <3>4, <4>2 DEF Pending
          <5> QED BY <5>1 DEF Sent
        <4> QED BY <4>1, <4>2
      <3> QED BY <1>1, <1>3, <3>4 DEF Sent, Current
    <2>12. SentOK' /\ ResultsOK'
      <3>1. /\ \A e \in Sent : e[1] \in Nat /\ e[1] <= Len(results)
            /\ IsFiniteSet(Sent) /\ Cardinality(Sent) \in Nat /\ Cardinality(Sent) <= executions
            /\ Len(results) \in Nat /\ executions \in Nat
            /\ \A e, f \in Sent : e[1] = f[1] => e = f
        BY <1>0, <1>1, SentIsFinite, LenProperties DEF SentOK, StateOK
      <3>2. CASE Type # "invoke"
        <4>1. /\ Sent' \subseteq Sent /\ executions' = executions
          BY <1>1, <2>11, <3>1, <3>2
        <4>2. Cardinality(Sent') <= executions'
          BY <1>0, <3>1, <4>1, SentIsFinite
        <4> QED BY <1>0, <1>1, <1>3, <2>1, <2>11, <3>1, <4>1, <4>2 DEF SentOK, ResultsOK
      <3>3. CASE Type = "invoke"
        <4>1. /\ Sent' \subseteq Sent \cup {<<Current, process>>} /\ executions' = executions + 1
          BY <1>1, <2>11, <3>3
        <4>2. Cardinality(Sent') <= executions'
          <5>1. /\ IsFiniteSet(Sent \cup {<<Current, process>>})
                /\ Cardinality(Sent \cup {<<Current, process>>}) <= executions + 1
            <6>1. /\ IsFiniteSet(Sent \cup {<<Current, process>>})
                  /\ \/ Cardinality(Sent \cup {<<Current, process>>}) = Cardinality(Sent)
                     \/ Cardinality(Sent \cup {<<Current, process>>}) = Cardinality(Sent) + 1
              <7> DEFINE new == <<Current, process>>
              <7> HIDE DEF new
              <7>1. /\ IsFiniteSet(Sent \cup {new})
                    /\ Cardinality(Sent \cup {new}) =
                          IF new \in Sent THEN Cardinality(Sent) ELSE Cardinality(Sent) + 1
                BY <3>1, FS_AddElement
              <7> QED BY <7>1 DEF new
            <6> QED BY <3>1, <6>1
          <5>2. /\ Cardinality(Sent') <= Cardinality(Sent \cup {<<Current, process>>})
                /\ IsFiniteSet(Sent')
            BY <4>1, <5>1, FS_Subset
          <5>3. Cardinality(Sent') \in Nat /\ Cardinality(Sent \cup {<<Current, process>>}) \in Nat
            BY <5>1, <5>2, FS_CardinalityType
          <5> QED BY <3>1, <4>1, <5>1, <5>2, <5>3
        <4>3. \A e \in Sent' : (e[1] <= Len(results) /\ e \in Sent) \/ e = <<Current, process>>
          BY <3>1, <4>1
        <4>4. ~(Current <= Len(results)) /\ \A r \in DOMAIN results : r # Current
          BY <1>0, <3>1, LenProperties DEF Current, StateOK
        <4>5. \A e, f \in Sent' : e[1] = f[1] => e = f
          BY <3>1, <4>3, <4>4
        <4>6. SentOK'
          BY <2>1, <2>11, <3>3, <4>2, <4>3, <4>5 DEF SentOK
        <4>7. ResultsOK'
          BY <1>0, <1>1, <1>3, <4>3, <4>4 DEF ResultsOK
        <4> QED BY <4>6, <4>7
      <3> QED BY <3>2, <3>3
    <2>13. LimitsOK'
      BY <1>0, <1>1, <1>3, <2>1 DEF LimitsOK, ToBeSent, StateOK
    <2> QED BY <2>7, <2>8, <2>9, <2>10, <2>12, <2>13 DEF IInv
  <1>4. CASE Terminate("failed", FALSE) /\ UNCHANGED <<worker, faults>>
    BY <1>0, <1>2, <1>4 DEF StateOK
  <1>5. CASE /\ Terminate("failed", FALSE) /\ UNCHANGED worker
             /\ faults' = faults + 1
    BY <1>0, <1>2, <1>5 DEF StateOK
  <1> QED BY <1>3, <1>4, <1>5 DEF Send

(* An await of an answer that ends uses time that was left.                *)
LEMMA WaitedUsesTime ==
    ASSUME IInv, invoker.stage = "waiting",
           spent' \in IF Type = "shutdown" THEN {spent} ELSE {spent, spent + 1}
    PROVE  process \in Worker /\ invoker.old = NoWorker /\ spent' \in 0 .. TotalTime
  <1>1. process \in Worker /\ invoker.old = NoWorker
    BY DEF IInv, StagesOK, StateOK
  <1>2. /\ spent \in Nat /\ spent <= TotalTime /\ TotalTime \in Nat
        /\ Type # "shutdown" => spent < TotalTime
    BY Constants DEF IInv, StateOK, LimitsOK
  <1>3. CASE Type = "shutdown"
    BY <1>1, <1>2, <1>3
  <1>4. CASE Type # "shutdown"
    BY <1>1, <1>2, <1>4
  <1> QED BY <1>3, <1>4

LEMMA WaitedFrame ==
    ASSUME IInv, Waited
    PROVE  /\ invoker.stage = "waiting" /\ process \in Worker /\ invoker.old = NoWorker
           /\ UNCHANGED <<attempts, executions, overflow, reaped, executed, cancels, faults>>
           /\ spent' \in 0 .. TotalTime /\ executions' \in executions .. MaxExecutions
           /\ overflow' \in BOOLEAN
           /\ cancels' \in Nat /\ cancels' >= cancels /\ faults' \in Nat
           /\ attempts' = attempts + (IF invoker.stage = "spawning" THEN 1 ELSE 0)
  <1>1. /\ invoker.stage = "waiting"
        /\ spent' \in IF Type = "shutdown" THEN {spent} ELSE {spent, spent + 1}
        /\ UNCHANGED <<attempts, executions, overflow, reaped, executed, cancels, faults>>
    BY DEF Waited
  <1>2. process \in Worker /\ invoker.old = NoWorker /\ spent' \in 0 .. TotalTime
    BY <1>1, WaitedUsesTime
  <1>3. overflow' \in BOOLEAN
    BY <1>1 DEF IInv, StateOK
  <1>4. /\ executions' \in executions .. MaxExecutions
        /\ cancels' \in Nat /\ cancels' >= cancels /\ faults' \in Nat
        /\ attempts' = attempts + (IF invoker.stage = "spawning" THEN 1 ELSE 0)
    BY <1>1, Constants DEF IInv, StateOK, LimitsOK
  <1> QED BY <1>1, <1>2, <1>3, <1>4

(* Whatever ends an await but the expected answer.                         *)
LEMMA GivingUpKeeps ==
    ASSUME IInv, Waited, Terminate("failed", InDoubt),
           (Stdout # <<>> /\ ReadLine) \/ UNCHANGED worker
    PROVE  IInv'
  <1>1. /\ worker' \in [Worker -> Mind]
        /\ \A w \in Worker : /\ worker'[w].stdin = worker[w].stdin
                             /\ Lines(w)' \subseteq Lines(w)
                             /\ w > attempts => worker'[w] = Fresh
    <2>1. CASE Stdout # <<>> /\ ReadLine
      BY <2>1, WaitedFrame, ReadLineShrinks
    <2>2. CASE UNCHANGED worker
      BY <2>2 DEF IInv, StateOK, ProcessesOK, Lines
    <2> QED BY <2>1, <2>2
  <1>2. "failed" = "failed" /\ ~InDoubt => \A e \in Sent : e[1] <= Len(results)
    BY UnsentIsUnsent DEF InDoubt
  <1>3. PICK doubt \in BOOLEAN : doubt = InDoubt
    BY DEF InDoubt
  <1>4. Terminate("failed", doubt)
    BY <1>3
  <1>5. attempts' = attempts
    BY WaitedFrame
  <1> QED BY <1>1, <1>2, <1>3, <1>4, <1>5, WaitedFrame, TerminateKeeps

LEMMA RefusedKeeps == IInv /\ Refused => IInv'
  BY GivingUpKeeps DEF Refused

LEMMA EndOfFileKeeps == IInv /\ EndOfFile => IInv'
  BY GivingUpKeeps DEF EndOfFile

LEMMA TimedOutKeeps == IInv /\ TimedOut => IInv'
  BY GivingUpKeeps DEF TimedOut

(* The line that is taken for the answer is one: the message was read.     *)
LEMMA TheAnswerIsOne ==
    ASSUME IInv, invoker.stage = "waiting", process \in Worker,
           NEW line \in Lines(process), line.to = invoker.message
    PROVE  worker[process].stdin = <<>>
  <1>1. ~Earlier(invoker.message)
    <2>1. /\ invoker.message \in Message /\ Len(results) \in Nat
          /\ Type # "none"
          /\ Type = "start" => invoker.message[2] = 0
          /\ Type \in {"session", "invoke"} => invoker.message[2] = Current
      BY LenProperties DEF IInv, StagesOK, StateOK, Waits
    <2>2. Type \in {"start", "session", "invoke", "shutdown"}
      BY <2>1 DEF Message, Kind, Type
    <2> QED BY <2>1, <2>2 DEF Earlier, Current, Type
  <1>2. Holding
    BY Constants DEF Holding
  <1>3. Earlier(line.to) \/ (WasRead /\ line.to = invoker.message)
    BY <1>2 DEF IInv, WireOK
  <1> QED BY <1>1, <1>3 DEF WasRead

(* An answer that leads to the next message.                               *)
LEMMA NextMessageKeeps ==
    ASSUME IInv, Waited, Stdout # <<>>, Head(Stdout).to = invoker.message, ReadLine,
           NEW type \in {"session", "invoke"},
           <<Type, type>> \in {<<"start", "session">>, <<"session", "invoke">>},
           invoker' = [invoker EXCEPT !.stage = "sending",
                                      !.message = <<type, invoker.request,
                                                    SessionOf[invoker.request]>>],
           active' \in Names,
           UNCHANGED <<process, leader, helper, drains, results>>
    PROVE  IInv'
  <1>0. /\ StateOK /\ StagesOK /\ ProcessesOK /\ WireOK /\ SentOK /\ ResultsOK /\ LimitsOK
        /\ Requests \in Nat /\ MaxExecutions \in Nat /\ TotalTime \in Nat /\ Len(results) \in Nat
    BY Constants, LenProperties DEF IInv, StateOK
  <1>1. /\ invoker.stage = "waiting" /\ process \in Worker /\ invoker.old = NoWorker
        /\ UNCHANGED <<attempts, executions, overflow, reaped, executed, cancels, faults>>
        /\ spent' \in 0 .. TotalTime
    BY WaitedFrame
  <1>2. /\ worker' \in [Worker -> Mind] /\ Head(Stdout) \in Lines(process)
        /\ \A w \in Worker : /\ worker'[w].stdin = worker[w].stdin
                             /\ Lines(w)' \subseteq Lines(w)
                             /\ w > attempts => worker'[w] = Fresh
    BY <1>1, ReadLineShrinks
  <1>3. worker[process].stdin = <<>>
    BY <1>1, <1>2, TheAnswerIsOne
  <1>4. /\ Working /\ invoker.request = Current /\ Current \in 1 .. Requests
        /\ Type = "start" => invoker.message[2] = 0
        /\ Type = "session" => invoker.message[2] = Current
    BY <1>0, <1>1 DEF StagesOK, Working, Current
  <1>5. <<type, Current, SessionOf[Current]>> \in Message
    BY <1>4, Constants DEF Message, Kind
  <1>6. /\ invoker' \in Waits /\ invoker'.stage = "sending" /\ Type' = type
        /\ invoker'.message[2] = Current /\ invoker'.request = Current
        /\ invoker'.old = NoWorker /\ Current' = Current
    BY <1>0, <1>1, <1>4, <1>5 DEF StateOK, Waits, Stage, Type, Current
  <1>7. StateOK'
    BY <1>0, <1>1, <1>2, <1>6 DEF StateOK
  <1>8. StagesOK'
    BY <1>0, <1>1, <1>4, <1>6, Constants DEF StagesOK, Working
  <1>9. ProcessesOK'
    <2>1. Abandoned' = Abandoned
      BY <1>1, <1>6 DEF Abandoned
    <2> QED BY <1>0, <1>1, <1>2, <2>1 DEF ProcessesOK
  <1>10. WireOK'
    <2>1. Holding
      BY <1>1, Constants DEF Holding
    <2>2. \A line \in Lines(process) : Earlier(line.to)'
      <3> SUFFICES ASSUME NEW line \in Lines(process) PROVE Earlier(line.to)'
        OBVIOUS
      <3>1. Earlier(line.to) \/ line.to = invoker.message
        BY <1>0, <2>1 DEF WireOK
      <3>2. CASE Earlier(line.to)
        BY <1>6, <3>2 DEF Earlier
      <3>3. CASE line.to = invoker.message
        <4>1. line.to[1] = Type
          BY <3>3 DEF Type
        <4>2. CASE Type = "start"
          BY <1>0, <1>4, <1>6, <3>3, <4>1, <4>2 DEF Earlier
        <4>3. CASE Type = "session"
          BY <1>4, <1>6, <3>3, <4>1, <4>3 DEF Earlier
        <4> QED BY <4>2, <4>3
      <3> QED BY <3>1, <3>2, <3>3
    <2>3. \A w \in Worker : worker'[w].stdin = <<>> \/ \E m \in Message : worker'[w].stdin = <<m>>
      BY <1>0, <1>2 DEF WireOK
    <2>4. \A w \in Worker : \A line \in Lines(w)' :
              line.good /\ line.to[1] = "invoke" => <<line.to[2], w>> \in executed'
      BY <1>0, <1>1, <1>2 DEF WireOK
    <2>5. \A line \in Lines(process)' : Earlier(line.to)'
      BY <1>1, <1>2, <2>2 DEF Lines
    <2> QED BY <1>1, <1>2, <1>3, <2>3, <2>4, <2>5 DEF WireOK
  <1>11. SentOK' /\ ResultsOK'
    <2>1. Sent' = Sent
      BY <1>1, <1>2 DEF Sent, Pending
    <2> QED BY <1>0, <1>1, <1>6, <2>1 DEF SentOK, ResultsOK
  <1>12. LimitsOK'
    BY <1>0, <1>1, <1>6 DEF LimitsOK, ToBeSent
  <1> QED BY <1>7, <1>8, <1>9, <1>10, <1>11, <1>12 DEF IInv

(* An answer that is the result.                                           *)
LEMMA ResultKeeps ==
    ASSUME IInv, Waited, Stdout # <<>>, Expected(Head(Stdout)), ReadLine, Type = "invoke",
           Settle("ok", FALSE), UNCHANGED <<process, active, leader, helper, drains>>
    PROVE  IInv'
  <1>0. /\ StateOK /\ StagesOK /\ ProcessesOK /\ WireOK /\ SentOK /\ ResultsOK /\ LimitsOK
        /\ Requests \in Nat /\ MaxExecutions \in Nat /\ TotalTime \in Nat /\ Len(results) \in Nat
    BY Constants, LenProperties DEF IInv, StateOK
  <1>1. /\ invoker.stage = "waiting" /\ process \in Worker /\ invoker.old = NoWorker
        /\ UNCHANGED <<attempts, executions, overflow, reaped, executed, cancels, faults>>
        /\ spent' \in 0 .. TotalTime
    BY WaitedFrame
  <1>2. /\ worker' \in [Worker -> Mind] /\ Head(Stdout) \in Lines(process)
        /\ \A w \in Worker : /\ worker'[w].stdin = worker[w].stdin
                             /\ Lines(w)' \subseteq Lines(w)
                             /\ w > attempts => worker'[w] = Fresh
    BY <1>1, ReadLineShrinks
  <1>3. worker[process].stdin = <<>> /\ Head(Stdout).to = invoker.message /\ Head(Stdout).good
    BY <1>1, <1>2, TheAnswerIsOne DEF Expected
  <1>4. /\ Working /\ Current \in 1 .. Requests /\ invoker.message[2] = Current
    BY <1>0, <1>1 DEF StagesOK, Working, Current
  <1>5. <<Current, process>> \in executed
    BY <1>0, <1>1, <1>2, <1>3, <1>4 DEF WireOK, Type
  <1>6. /\ invoker' = Free /\ Type' = "none"
        /\ results' = Append(results, [status |-> "ok", doubt |-> FALSE, worker |-> process])
    BY DEF Settle, Type, Free
  <1>7. /\ results' \in Seq(Outcome) /\ Len(results') = Len(results) + 1
        /\ Sent' = Sent /\ ResultsOK' /\ \A e \in Sent' : e[1] <= Len(results')
    <2>1. "ok" \in Status /\ FALSE \in BOOLEAN
      BY DEF Status
    <2>2. Sent' = Sent
      BY <1>1, <1>2 DEF Sent, Pending
    <2>3. ResultsOK' /\ \A e \in Sent' : e[1] <= Len(results')
      BY <1>0, <1>1, <1>5, <1>6, <2>1, <2>2, ResultsStay
    <2> QED BY <1>0, <1>6, <2>1, <2>2, <2>3, OneMoreResult
  <1>8. StateOK'
    BY <1>0, <1>1, <1>2, <1>6, <1>7, Constants DEF StateOK
  <1>9. StagesOK'
    <2>1. invoker'.stage = "idle" /\ invoker'.old = NoWorker
      BY <1>6 DEF Free
    <2>2. attempts \in Nat /\ attempts <= Len(results) + 1
      BY <1>0, <1>4 DEF StateOK, StagesOK
    <2> QED BY <1>1, <1>4, <1>6, <1>7, <2>1, <2>2 DEF StagesOK, Working, Current
  <1>10. ProcessesOK'
    <2>1. Abandoned' = Abandoned
      BY <1>1, <1>6 DEF Abandoned, Free
    <2>2. invoker'.old = invoker.old
      BY <1>1, <1>6 DEF Free
    <2> QED BY <1>0, <1>1, <1>2, <2>1, <2>2 DEF ProcessesOK
  <1>11. WireOK'
    <2>1. Holding
      BY <1>1, Constants DEF Holding
    <2>2. \A line \in Lines(process) : Earlier(line.to)'
      <3> SUFFICES ASSUME NEW line \in Lines(process) PROVE Earlier(line.to)'
        OBVIOUS
      <3>1. Earlier(line.to) \/ line.to = invoker.message
        BY <1>0, <2>1 DEF WireOK
      <3>2. line.to[2] \in Nat
        BY <1>0, <1>1, LinesAreTyped
      <3>3. line.to[1] # "shutdown" /\ line.to[2] <= Current
        BY <1>0, <1>4, <3>1, <3>2 DEF Earlier, Current, Type
      <3> QED BY <1>6, <1>7, <3>3 DEF Earlier, Current
    <2>3. \A w \in Worker : worker'[w].stdin = <<>> \/ \E m \in Message : worker'[w].stdin = <<m>>
      BY <1>0, <1>2 DEF WireOK
    <2>4. \A w \in Worker : \A line \in Lines(w)' :
              line.good /\ line.to[1] = "invoke" => <<line.to[2], w>> \in executed'
      BY <1>0, <1>1, <1>2 DEF WireOK
    <2>5. \A line \in Lines(process)' : Earlier(line.to)'
      BY <1>1, <1>2, <2>2 DEF Lines
    <2> QED BY <1>1, <1>2, <1>3, <2>3, <2>4, <2>5 DEF WireOK
  <1>12. SentOK'
    BY <1>0, <1>1, <1>6, <1>7 DEF SentOK, Free
  <1>13. LimitsOK'
    BY <1>0, <1>1, <1>6 DEF LimitsOK, ToBeSent, Free
  <1> QED BY <1>7, <1>8, <1>9, <1>10, <1>11, <1>12, <1>13 DEF IInv

LEMMA AnsweredKeeps == IInv /\ Answered => IInv'
  <1> SUFFICES ASSUME IInv, Answered PROVE IInv'
    OBVIOUS
  <1>1. Waited /\ Stdout # <<>> /\ Expected(Head(Stdout)) /\ ReadLine
    BY DEF Answered
  <1>2. Head(Stdout).to = invoker.message
    BY <1>1 DEF Expected
  <1>3. /\ active \in Names /\ invoker.stage = "waiting"
        /\ Type # "shutdown" => invoker.request \in 1 .. Requests
    <2>1. invoker.stage = "waiting"
      BY <1>1 DEF Waited
    <2> QED BY <2>1, LenProperties DEF IInv, StateOK, StagesOK, Working, Current
  <1>4. CASE Type = "start"
    <2>1. /\ invoker' = [invoker EXCEPT !.stage = "sending",
                                        !.message = <<"session", invoker.request,
                                                      SessionOf[invoker.request]>>]
          /\ UNCHANGED <<process, active, leader, helper, drains, results>>
      BY <1>4 DEF Answered
    <2>2. active' \in Names
      BY <1>3, <2>1
    <2>3. PICK type \in {"session", "invoke"} : type = "session"
      OBVIOUS
    <2>4. invoker' = [invoker EXCEPT !.stage = "sending",
                                     !.message = <<type, invoker.request,
                                                   SessionOf[invoker.request]>>]
      BY <2>1, <2>3
    <2>5. <<Type, type>> \in {<<"start", "session">>, <<"session", "invoke">>}
      BY <1>4, <2>3
    <2> QED BY <1>1, <1>2, <2>1, <2>2, <2>4, <2>5, NextMessageKeeps
  <1>5. CASE Type = "session"
    <2>1. /\ invoker' = [invoker EXCEPT !.stage = "sending",
                                        !.message = <<"invoke", invoker.request,
                                                      SessionOf[invoker.request]>>]
          /\ active' = SessionOf[invoker.request]
          /\ UNCHANGED <<process, leader, helper, drains, results>>
      BY <1>5 DEF Answered
    <2>2. active' \in Names
      BY <1>3, <1>5, <2>1, Constants
    <2>3. <<Type, "invoke">> \in {<<"start", "session">>, <<"session", "invoke">>}
      BY <1>5
    <2> QED BY <1>1, <1>2, <2>1, <2>2, <2>3, NextMessageKeeps
  <1>6. CASE Type = "invoke"
    <2>1. Settle("ok", FALSE) /\ UNCHANGED <<process, active, leader, helper, drains>>
      BY <1>6 DEF Answered
    <2> QED BY <1>1, <1>6, <2>1, ResultKeeps
  <1>7. CASE Type \notin {"start", "session", "invoke"}
    <2>1. Terminate("closed", FALSE)
      BY <1>7 DEF Answered
    <2>2. process \in Worker /\ attempts' = attempts
      BY <1>1, WaitedFrame
    <2>3. /\ worker' \in [Worker -> Mind]
          /\ \A w \in Worker : /\ worker'[w].stdin = worker[w].stdin
                               /\ Lines(w)' \subseteq Lines(w)
                               /\ w > attempts' => worker'[w] = Fresh
      BY <1>1, <2>2, ReadLineShrinks
    <2>4. /\ invoker.stage \in {"spawning", "sending", "waiting"}
          /\ attempts' = attempts + (IF invoker.stage = "spawning" THEN 1 ELSE 0)
          /\ reaped' = reaped /\ executed' = executed
          /\ executions' \in executions .. MaxExecutions /\ spent' \in 0 .. TotalTime
          /\ cancels' \in Nat /\ cancels' >= cancels /\ faults' \in Nat
      BY <1>1, WaitedFrame
    <2>5. overflow' \in BOOLEAN
      BY <1>1, WaitedFrame
    <2>6. PICK result \in {"failed", "cancelled", "closed"}, doubt \in BOOLEAN :
             result = "closed" /\ doubt = FALSE
      OBVIOUS
    <2>7. Terminate(result, doubt)
      BY <2>1, <2>6
    <2>8. result = "failed" /\ ~doubt => \A e \in Sent : e[1] <= Len(results)
      BY <2>6
    <2> QED BY <2>3, <2>4, <2>5, <2>7, <2>8, TerminateKeeps
  <1> QED BY <1>4, <1>5, <1>6, <1>7

(* The workers that ignore the request to stop.                            *)
LEMMA AbandonedIsFinite ==
    ASSUME IInv
    PROVE  /\ IsFiniteSet(Abandoned) /\ Cardinality(Abandoned) \in Nat
           /\ cancels \in Nat /\ Cardinality(Abandoned) <= cancels
           /\ \A T \in SUBSET Abandoned : Cardinality(T) \in Nat /\ Cardinality(T) <= cancels
  <1>1. IsFiniteSet(Abandoned) /\ cancels \in Nat /\ Cardinality(Abandoned) <= cancels
    BY Constants, FS_Subset DEF Abandoned, IInv, StateOK, ProcessesOK
  <1>2. Cardinality(Abandoned) \in Nat
    BY <1>1, FS_CardinalityType
  <1>3. ASSUME NEW T \in SUBSET Abandoned
        PROVE  Cardinality(T) \in Nat /\ Cardinality(T) <= cancels
    <2>1. IsFiniteSet(T) /\ Cardinality(T) <= Cardinality(Abandoned)
      BY <1>1, FS_Subset
    <2>2. Cardinality(T) \in Nat
      BY <2>1, FS_CardinalityType
    <2> QED BY <1>1, <1>2, <2>1, <2>2
  <1> QED BY <1>1, <1>2, <1>3

(* While a worker is being stopped none is up.                             *)
LEMMA StoppingFacts ==
    ASSUME IInv, invoker.stage = "stopping"
    PROVE  /\ process = NoWorker /\ invoker.old \in Worker /\ invoker.old <= attempts
           /\ \A w \in Worker : leader[w] # "up"
           /\ invoker.result \in {"failed", "cancelled", "closed"} /\ invoker.doubt \in BOOLEAN
           /\ spent \in 0 .. TotalTime /\ executions \in executions .. MaxExecutions
           /\ invoker.result = "failed" /\ ~invoker.doubt => \A e \in Sent : e[1] <= Len(results)
  <1>1. /\ process = NoWorker /\ invoker.old \in Worker /\ invoker.old <= attempts
        /\ \A w \in Worker : leader[w] # "up"
    BY Constants DEF IInv, StateOK, StagesOK, ProcessesOK, Waits
  <1>2. invoker.result \in {"failed", "cancelled", "closed"} /\ invoker.doubt \in BOOLEAN
    BY DEF IInv, StateOK, StagesOK, Waits
  <1>3. spent \in 0 .. TotalTime /\ executions \in executions .. MaxExecutions
    BY Constants DEF IInv, StateOK, LimitsOK
  <1>4. invoker.result = "failed" /\ ~invoker.doubt => \A e \in Sent : e[1] <= Len(results)
    BY DEF IInv, SentOK
  <1> QED BY <1>1, <1>2, <1>3, <1>4

LEMMA StoppedKeeps == IInv /\ Stopped => IInv'
  <1> SUFFICES ASSUME IInv, Stopped PROVE IInv'
    OBVIOUS
  <1>1. PICK old, result, doubt :
            old = invoker.old /\ result = invoker.result /\ doubt = invoker.doubt
    OBVIOUS
  <1>2. /\ invoker.stage = "stopping" /\ Settle(result, doubt)
        /\ drains' = drains \ {old} /\ worker' = [worker EXCEPT ![old] = Fresh]
        /\ UNCHANGED <<process, active, attempts, executions, spent, overflow, reaped, executed,
                       cancels, faults>>
    BY <1>1 DEF Stopped, counters
  <1>3. /\ process' = NoWorker /\ old \in Worker /\ old <= attempts
        /\ result \in {"failed", "cancelled", "closed"} /\ doubt \in BOOLEAN
        /\ \A w \in Worker : leader[w] # "up"
        /\ spent' \in 0 .. TotalTime /\ executions' \in executions .. MaxExecutions
        /\ result = "failed" /\ ~doubt => \A e \in Sent : e[1] <= Len(results)
    BY <1>1, <1>2, StoppingFacts
  <1>4. /\ leader' \in [Worker -> {"absent", "up", "stopping", "down"}]
        /\ helper' \in [Worker -> {"absent", "up", "down"}]
        /\ \A w \in Worker : w # old => leader'[w] = leader[w]
        /\ leader'[old] = "down"
    <2>1. CASE old \in reaped
      <3>1. UNCHANGED <<leader, helper>>
        BY <1>1, <2>1 DEF Stopped
      <3> QED BY <1>3, <2>1, <3>1 DEF IInv, StateOK, ProcessesOK
    <2>2. CASE old \notin reaped
      <3>1. Killed(old)
        BY <1>1, <2>2 DEF Stopped
      <3> QED BY <1>3, <3>1 DEF Killed, IInv, StateOK
    <2> QED BY <2>1, <2>2
  <1> DEFINE Left == {w \in Worker : leader'[w] = "stopping"}
  <1>5. Left \subseteq Abandoned
    BY <1>1, <1>4 DEF Abandoned
  <1> HIDE DEF Left
  <1>6. Cardinality(Left) <= cancels'
    BY <1>2, <1>5, AbandonedIsFinite
  <1>7. /\ worker' \in [Worker -> Mind]
        /\ \A w \in Worker : /\ worker'[w].stdin = worker[w].stdin \/ worker'[w].stdin = <<>>
                             /\ Lines(w)' \subseteq Lines(w)
                             /\ w > attempts => worker'[w] = Fresh
    <2>1. worker' \in [Worker -> Mind] /\ worker'[old] = Fresh
      BY <1>2, <1>3, Constants DEF IInv, StateOK
    <2>2. \A w \in Worker : w # old => worker'[w] = worker[w]
      BY <1>2, <1>3 DEF IInv, StateOK
    <2>3. worker'[old].stdin = <<>> /\ Lines(old)' = {}
      BY <2>1, EmptySeq DEF Fresh, Lines, LinesOf
    <2> QED BY <2>1, <2>2, <2>3 DEF IInv, ProcessesOK, Lines
  <1>8. overflow' \in BOOLEAN
    BY <1>2 DEF IInv, StateOK
  <1>9. /\ active' \in Names /\ cancels' \in Nat /\ faults' \in Nat /\ drains' \subseteq drains
        /\ attempts' = attempts + (IF invoker.stage = "spawning" THEN 1 ELSE 0)
    BY <1>2 DEF IInv, StateOK
  <1>10. \A w \in Worker : leader'[w] = leader[w] \/ (w <= attempts /\ leader'[w] = "down")
    BY <1>3, <1>4
  <1> QED BY <1>2, <1>3, <1>4, <1>6, <1>7, <1>8, <1>9, <1>10, EndKeeps DEF Left

LEMMA CancelKeeps == IInv /\ Cancel => IInv'
  <1> SUFFICES ASSUME IInv, Cancel PROVE IInv'
    OBVIOUS
  <1>1. /\ cancels' = cancels + 1 /\ cancels \in Nat /\ cancels' \in Nat /\ cancels' >= cancels
        /\ UNCHANGED <<executions, overflow, reaped, worker, executed, faults>>
    BY DEF Cancel, IInv, StateOK
  <1>2. /\ executions' \in executions .. MaxExecutions /\ faults' \in Nat
        /\ worker' \in [Worker -> Mind] /\ attempts \in Nat
        /\ \A w \in Worker : /\ worker'[w].stdin = worker[w].stdin
                             /\ Lines(w)' \subseteq Lines(w)
                             /\ w > attempts => worker'[w] = Fresh
    BY <1>1, Constants DEF IInv, StateOK, LimitsOK, ProcessesOK, Lines
  <1>3. overflow' \in BOOLEAN
    BY <1>1 DEF IInv, StateOK
  <1>4. CASE /\ invoker.stage = "spawning" /\ attempts' = attempts + 1 /\ UNCHANGED spent
             /\ Terminate("cancelled", TRUE)
    <2>1. spent' \in 0 .. TotalTime
      BY <1>4, Constants DEF IInv, StateOK, LimitsOK
    <2>2. \A w \in Worker : w > attempts' => w > attempts
      BY <1>2, <1>4 DEF Worker
    <2> QED BY <1>1, <1>2, <1>3, <1>4, <2>1, <2>2, TerminateKeeps
  <1>5. CASE /\ invoker.stage = "waiting"
             /\ spent' \in IF Type = "shutdown" THEN {spent} ELSE {spent, spent + 1}
             /\ Terminate("cancelled", TRUE) /\ UNCHANGED attempts
    <2>1. spent' \in 0 .. TotalTime
      BY <1>5, WaitedUsesTime
    <2>2. attempts' = attempts + (IF invoker.stage = "spawning" THEN 1 ELSE 0)
      BY <1>2, <1>5
    <2> QED BY <1>1, <1>2, <1>3, <1>5, <2>1, <2>2, TerminateKeeps
  <1>6. CASE /\ invoker.stage = "stopping" /\ Settle("cancelled", TRUE)
             /\ UNCHANGED <<process, active, drains, leader, helper, attempts, spent>>
    <2>1. /\ process' = NoWorker /\ \A w \in Worker : leader[w] # "up"
          /\ spent' \in 0 .. TotalTime
      BY <1>6, StoppingFacts
    <2> DEFINE Left == {w \in Worker : leader'[w] = "stopping"}
    <2>2. Left \subseteq Abandoned \cup {invoker.old}
      BY <1>6 DEF Abandoned
    <2> HIDE DEF Left
    <2>3. Cardinality(Left) <= cancels'
      <3>1. /\ IsFiniteSet(Abandoned) /\ Cardinality(Abandoned) \in Nat
            /\ Cardinality(Abandoned) <= cancels
        BY AbandonedIsFinite
      <3>2. PICK more, old : old = invoker.old /\ more = Abandoned \cup {old}
        OBVIOUS
      <3>3. IsFiniteSet(more) /\ Cardinality(more) <= cancels + 1
        BY <1>1, <3>1, <3>2, FS_AddElement
      <3>4. IsFiniteSet(Left) /\ Cardinality(Left) <= Cardinality(more)
        BY <2>2, <3>2, <3>3, FS_Subset
      <3>5. Cardinality(Left) \in Nat /\ Cardinality(more) \in Nat
        BY <3>3, <3>4, FS_CardinalityType
      <3> QED BY <1>1, <3>3, <3>4, <3>5
    <2>4. /\ active' \in Names /\ drains' \subseteq drains
          /\ leader' \in [Worker -> {"absent", "up", "stopping", "down"}]
          /\ helper' \in [Worker -> {"absent", "up", "down"}]
          /\ \A w \in Worker : leader'[w] = leader[w]
          /\ attempts' = attempts + (IF invoker.stage = "spawning" THEN 1 ELSE 0)
          /\ \A w \in Worker : w > attempts' => worker'[w] = Fresh
      BY <1>2, <1>6 DEF IInv, StateOK
    <2> QED BY <1>1, <1>2, <1>3, <1>6, <2>1, <2>3, <2>4, EndKeeps DEF Left
  <1> QED BY <1>4, <1>5, <1>6 DEF Cancel

-----------------------------------------------------------------------------
(* The workers.                                                            *)
LEMMA WorldKeeps ==
    ASSUME IInv, UNCHANGED <<process, active, attempts, executions, spent, invoker, results, cancels>>,
           drains' \subseteq drains, reaped' \in SUBSET Worker, overflow' \in BOOLEAN,
           faults' \in Nat, reaped \subseteq reaped',
           leader' \in [Worker -> {"absent", "up", "stopping", "down"}],
           helper' \in [Worker -> {"absent", "up", "down"}],
           \A w \in Worker : leader'[w] = leader[w] \/ (w <= attempts /\ leader'[w] = "down"),
           \A w \in reaped' : leader'[w] = "down",
           worker' \in [Worker -> Mind], \A w \in Worker : w > attempts => worker'[w] = Fresh,
           executed \subseteq executed', executed' \subseteq (1 .. Requests) \X Worker,
           Sent' \subseteq Sent, WireOK'
    PROVE  IInv'
  <1>0. /\ StateOK /\ StagesOK /\ ProcessesOK /\ WireOK /\ SentOK /\ ResultsOK /\ LimitsOK
    BY DEF IInv
  <1>1. StateOK'
    BY <1>0 DEF StateOK
  <1>2. Type' = Type /\ Current' = Current /\ (Alive' => Alive)
    BY DEF Type, Current, Alive
  <1>3. StagesOK'
    BY <1>0, <1>2 DEF StagesOK, Working
  <1>4. ProcessesOK'
    <2>1. Abandoned' \subseteq Abandoned
      BY DEF Abandoned
    <2>2. Cardinality(Abandoned') <= cancels'
      BY <2>1, AbandonedIsFinite
    <2>3. \A w \in Worker : w > attempts' => leader'[w] = "absent" /\ worker'[w] = Fresh
      <3>1. \A w \in Worker : w > attempts => ~(w <= attempts)
        BY <1>0 DEF StateOK, Worker
      <3> QED BY <1>0, <3>1 DEF ProcessesOK
    <2>4. \A w \in Worker : leader'[w] = "up" => w = process'
      BY <1>0 DEF ProcessesOK
    <2>5. \A w \in drains' : w <= attempts'
      BY <1>0 DEF ProcessesOK
    <2>6. process' <= attempts' /\ invoker'.old <= attempts'
      BY <1>0 DEF ProcessesOK
    <2> QED BY <2>2, <2>3, <2>4, <2>5, <2>6 DEF ProcessesOK
  <1>5. SentOK'
    <2>1. Cardinality(Sent') <= executions'
      <3>1. /\ Cardinality(Sent) \in Nat /\ executions \in Nat /\ Cardinality(Sent) <= executions
            /\ Cardinality(Sent') \in Nat /\ Cardinality(Sent') <= Cardinality(Sent)
        BY <1>0, SentIsFinite DEF SentOK, StateOK
      <3> QED BY <3>1
    <2> QED BY <1>0, <1>2, <2>1 DEF SentOK
  <1>6. ResultsOK'
    BY <1>0 DEF ResultsOK
  <1>7. LimitsOK'
    BY <1>0, <1>2 DEF LimitsOK, ToBeSent
  <1> QED BY <1>1, <1>3, <1>4, <1>5, <1>6, <1>7 DEF IInv

(* The pipes of a worker that is gone and is not the invoker's any more.   *)
LEMMA WiresStay ==
    ASSUME IInv, UNCHANGED <<process, invoker, results, executed>>,
           worker' \in [Worker -> Mind],
           \A w \in Worker : worker'[w] = worker[w] \/ (w # process /\ worker'[w] = Fresh)
    PROVE  WireOK' /\ Sent' \subseteq Sent /\ \A w \in Worker : w > attempts => worker'[w] = Fresh
  <1>1. \A w \in Worker : \/ worker'[w].stdin = worker[w].stdin /\ Lines(w)' = Lines(w)
                          \/ w # process /\ worker'[w].stdin = <<>> /\ Lines(w)' = {}
    BY EmptySeq DEF Fresh, Lines, LinesOf
  <1>2. Sent' \subseteq Sent
    BY <1>1, SentShrinks
  <1>3. Holding' => Holding /\ process \in Worker
    BY DEF Holding, IInv, StateOK
  <1>4. Holding => worker'[process].stdin = worker[process].stdin /\ Lines(process)' = Lines(process)
    <2>1. Holding => process \in Worker
      BY DEF Holding, IInv, StateOK
    <2>2. Holding => worker'[process] = worker[process] /\ process' = process
      BY <2>1
    <2> QED BY <2>2 DEF Lines
  <1>5. /\ \A m : Earlier(m) => Earlier(m)'
        /\ Holding /\ WasRead => WasRead'
    BY <1>4 DEF Earlier, Type, Current, WasRead
  <1>6. \A w \in Worker : worker'[w].stdin = <<>> \/ \E m \in Message : worker'[w].stdin = <<m>>
    BY <1>1 DEF IInv, WireOK
  <1>7. \A w \in Worker : \A line \in Lines(w)' :
            line.good /\ line.to[1] = "invoke" => <<line.to[2], w>> \in executed'
    BY <1>1 DEF IInv, WireOK
  <1>8. WireOK'
    BY <1>3, <1>4, <1>5, <1>6, <1>7 DEF IInv, WireOK
  <1>9. \A w \in Worker : w > attempts => worker'[w] = Fresh
    BY DEF IInv, ProcessesOK
  <1> QED BY <1>2, <1>8, <1>9

LEMMA StartHelperKeeps == \A w \in Worker : IInv /\ StartHelper(w) => IInv'
  <1> SUFFICES ASSUME NEW w \in Worker, IInv, StartHelper(w) PROVE IInv'
    OBVIOUS
  <1>1. /\ UNCHANGED <<process, active, attempts, executions, spent, overflow, drains, invoker,
                       results, leader, reaped, worker, executed, cancels>>
        /\ helper' = [helper EXCEPT ![w] = "up"] /\ faults' = faults + 1
    BY DEF StartHelper, counters
  <1>2. WireOK' /\ Sent' \subseteq Sent /\ \A v \in Worker : v > attempts => worker'[v] = Fresh
    BY <1>1, WiresStay DEF IInv, StateOK
  <1>3. overflow' \in BOOLEAN
    BY <1>1 DEF IInv, StateOK
  <1>4. /\ faults' \in Nat /\ helper' \in [Worker -> {"absent", "up", "down"}]
        /\ leader' \in [Worker -> {"absent", "up", "stopping", "down"}]
        /\ reaped' \in SUBSET Worker /\ \A v \in reaped' : leader'[v] = "down"
        /\ worker' \in [Worker -> Mind] /\ executed' \subseteq (1 .. Requests) \X Worker
    BY <1>1 DEF IInv, StateOK, ProcessesOK
  <1> QED BY <1>1, <1>2, <1>3, <1>4, WorldKeeps

(* A worker that runs was started.                                         *)
LEMMA RunningWasStarted ==
    ASSUME IInv, NEW w \in Worker, leader[w] # "absent"
    PROVE  w <= attempts
  BY DEF IInv, StateOK, ProcessesOK, Worker

LEMMA ExitKeeps == \A w \in Worker : IInv /\ Exit(w) => IInv'
  <1> SUFFICES ASSUME NEW w \in Worker, IInv, Exit(w) PROVE IInv'
    OBVIOUS
  <1>1. /\ UNCHANGED <<process, active, attempts, executions, spent, overflow, drains, invoker,
                       results, helper, reaped, executed, cancels>>
        /\ leader' = [leader EXCEPT ![w] = "down"] /\ leader[w] # "absent"
        /\ worker' = IF w = process THEN worker ELSE [worker EXCEPT ![w] = Fresh]
        /\ faults' \in {faults, faults + 1}
    BY DEF Exit, counters
  <1>2. w <= attempts
    BY <1>1, RunningWasStarted
  <1>3. /\ worker' \in [Worker -> Mind]
        /\ \A v \in Worker : worker'[v] = worker[v] \/ (v # process /\ worker'[v] = Fresh)
    <2>1. CASE w = process
      BY <1>1, <2>1 DEF IInv, StateOK
    <2>2. CASE w # process
      BY <1>1, <2>2, Constants DEF IInv, StateOK
    <2> QED BY <2>1, <2>2
  <1>4. WireOK' /\ Sent' \subseteq Sent /\ \A v \in Worker : v > attempts => worker'[v] = Fresh
    BY <1>1, <1>3, WiresStay
  <1>5. overflow' \in BOOLEAN
    BY <1>1 DEF IInv, StateOK
  <1>6. /\ faults' \in Nat /\ helper' \in [Worker -> {"absent", "up", "down"}]
        /\ leader' \in [Worker -> {"absent", "up", "stopping", "down"}]
        /\ \A v \in Worker : leader'[v] = leader[v] \/ (v <= attempts /\ leader'[v] = "down")
        /\ reaped' \in SUBSET Worker /\ \A v \in reaped' : leader'[v] = "down"
        /\ executed' \subseteq (1 .. Requests) \X Worker
    BY <1>1, <1>2 DEF IInv, StateOK, ProcessesOK
  <1> QED BY <1>1, <1>3, <1>4, <1>5, <1>6, WorldKeeps

LEMMA ReapKeeps == \A w \in Worker : IInv /\ Reap(w) => IInv'
  <1> SUFFICES ASSUME NEW w \in Worker, IInv, Reap(w) PROVE IInv'
    OBVIOUS
  <1>1. /\ UNCHANGED <<process, active, attempts, executions, spent, overflow, drains, invoker,
                       results, leader, helper, worker, executed, cancels, faults>>
        /\ reaped' = reaped \cup {w} /\ leader[w] = "down"
    BY DEF Reap, counters
  <1>2. WireOK' /\ Sent' \subseteq Sent /\ \A v \in Worker : v > attempts => worker'[v] = Fresh
    BY <1>1, WiresStay DEF IInv, StateOK
  <1>3. overflow' \in BOOLEAN
    BY <1>1 DEF IInv, StateOK
  <1>4. /\ faults' \in Nat /\ helper' \in [Worker -> {"absent", "up", "down"}]
        /\ leader' \in [Worker -> {"absent", "up", "stopping", "down"}]
        /\ reaped' \in SUBSET Worker /\ \A v \in reaped' : leader'[v] = "down"
        /\ worker' \in [Worker -> Mind] /\ executed' \subseteq (1 .. Requests) \X Worker
    BY <1>1 DEF IInv, StateOK, ProcessesOK
  <1> QED BY <1>1, <1>2, <1>3, <1>4, WorldKeeps

LEMMA OverflowKeeps == \A w \in Worker : IInv /\ Overflow(w) => IInv'
  <1> SUFFICES ASSUME NEW w \in Worker, IInv, Overflow(w) PROVE IInv'
    OBVIOUS
  <1>1. /\ UNCHANGED <<process, active, attempts, executions, spent, invoker, results, reaped,
                       worker, executed, cancels>>
        /\ w \in drains /\ faults' = faults + 1 /\ drains' = drains \ {w}
    BY DEF Overflow, counters
  <1>2. WireOK' /\ Sent' \subseteq Sent /\ \A v \in Worker : v > attempts => worker'[v] = Fresh
    BY <1>1, WiresStay DEF IInv, StateOK
  <1>3. overflow' \in BOOLEAN
    BY DEF Overflow
  <1>4. /\ helper' \in [Worker -> {"absent", "up", "down"}]
        /\ leader' \in [Worker -> {"absent", "up", "stopping", "down"}]
        /\ \A v \in Worker : leader'[v] = leader[v] \/ (v <= attempts /\ leader'[v] = "down")
        /\ \A v \in reaped' : leader'[v] = "down"
    <2>1. w <= attempts
      BY <1>1 DEF IInv, ProcessesOK
    <2>2. CASE UNCHANGED <<leader, helper>>
      BY <1>1, <2>2 DEF IInv, StateOK, ProcessesOK
    <2>3. CASE Killed(w)
      BY <1>1, <2>1, <2>3 DEF Killed, IInv, StateOK, ProcessesOK
    <2> QED BY <2>2, <2>3 DEF Overflow
  <1>5. /\ faults' \in Nat /\ reaped' \in SUBSET Worker
        /\ worker' \in [Worker -> Mind] /\ executed' \subseteq (1 .. Requests) \X Worker
    BY <1>1 DEF IInv, StateOK
  <1> QED BY <1>1, <1>2, <1>3, <1>4, <1>5, WorldKeeps

(* A worker reads its message, runs the invocation if it is one of its     *)
(* session, and answers it, once or twice.                                 *)
LEMMA HandleKeeps ==
    ASSUME IInv, NEW w \in Worker, Running(w), worker[w].stdin # <<>>,
           NEW good \in BOOLEAN, NEW copies \in {1, 2}, Handle(w, good, copies),
           faults' \in Nat,
           UNCHANGED <<process, active, attempts, executions, spent, overflow, drains, invoker,
                       results, helper, reaped, cancels>>
    PROVE  IInv'
  <1>0. /\ StateOK /\ StagesOK /\ ProcessesOK /\ WireOK /\ SentOK /\ ResultsOK /\ LimitsOK
    BY DEF IInv
  <1>1. PICK m \in Message : worker[w].stdin = <<m>>
    BY <1>0 DEF WireOK
  <1>2. PICK answer : answer = Line(m, good /\ (m[1] # "invoke" \/ Runs(w, m)))
    OBVIOUS
  <1>3. /\ answer \in Answer /\ answer.to = m
        /\ answer.good /\ m[1] = "invoke" => Runs(w, m)
    BY <1>2 DEF Line, Answer
  <1>4. PICK out, session :
            /\ out = IF w # process THEN <<>>
                     ELSE worker[w].stdout \o [i \in 1 .. copies |-> answer]
            /\ session = IF m[1] = "session" THEN m[3] ELSE worker[w].session
    OBVIOUS
  <1>5. /\ worker' = [worker EXCEPT ![w].stdin = <<>>, ![w].stdout = out, ![w].session = session]
        /\ executed' = IF Runs(w, m) THEN executed \cup {<<m[2], w>>} ELSE executed
        /\ leader' = [leader EXCEPT ![w] = IF m[1] = "shutdown" THEN "down" ELSE @]
    <2>1. Head(<<m>>) = m /\ Tail(<<m>>) = <<>>
      OBVIOUS
    <2> QED BY <1>1, <1>2, <1>4, <2>1 DEF Handle
  <1>6. out \in Seq(Answer) /\ LinesOf(out) \subseteq
            IF w = process THEN Lines(w) \cup {answer} ELSE {}
    <2>1. CASE w # process
      BY <1>4, <2>1, EmptySeq, LinesOfSequences
    <2>2. CASE w = process
      <3>1. PICK more : more = [i \in 1 .. copies |-> answer]
        OBVIOUS
      <3>2. more \in Seq(Answer) /\ LinesOf(more) \subseteq {answer}
        <4>1. more \in [1 .. copies -> Answer] /\ copies \in Nat
          BY <1>3, <3>1
        <4>2. more \in Seq(Answer)
          BY <4>1, IsASeq
        <4>3. Len(more) = copies
          BY <4>1, <4>2, LenProperties
        <4> QED BY <3>1, <4>2, <4>3 DEF LinesOf
      <3>3. worker[w].stdout \in Seq(Answer)
        BY <1>0 DEF StateOK, Mind
      <3>4. out = worker[w].stdout \o more
        BY <1>4, <2>2, <3>1
      <3> QED BY <2>2, <3>2, <3>3, <3>4, LinesOfSequences DEF Lines
    <2> QED BY <2>1, <2>2
  <1>7. session \in Names
    BY <1>0, <1>4 DEF StateOK, Mind, Message
  <1>8. /\ worker' \in [Worker -> Mind]
        /\ worker'[w].stdin = <<>> /\ worker'[w].stdout = out
        /\ \A v \in Worker \ {w} : worker'[v] = worker[v]
    <2>1. <<>> \in Seq(Message)
      BY EmptySeq
    <2> QED BY <1>0, <1>5, <1>6, <1>7, <2>1 DEF StateOK, Mind
  <1>9. \A v \in Worker \ {w} : Lines(v)' = Lines(v)
    BY <1>8 DEF Lines
  <1>10. Lines(w)' \subseteq IF w = process THEN Lines(w) \cup {answer} ELSE {}
    BY <1>6, <1>8 DEF Lines
  <1>11. /\ executed \subseteq executed' /\ executed' \subseteq (1 .. Requests) \X Worker
         /\ Runs(w, m) => <<m[2], w>> \in executed'
    <2>1. Runs(w, m) => m[2] \in 1 .. Requests
      BY Constants DEF Runs, Message
    <2> QED BY <1>0, <1>5, <2>1 DEF StateOK
  <1>12. Sent' \subseteq Sent
    <2>1. Runs(w, m) => <<m[2], w>> \in Sent
      BY <1>1 DEF Runs, Sent, Pending
    <2>2. executed' \subseteq Sent
      BY <1>5, <2>1 DEF Sent
    <2>3. ASSUME NEW v \in Pending' PROVE <<worker'[v].stdin[1][2], v>> \in Sent
      <3>1. v \in Worker /\ v # w
        BY <1>8 DEF Pending
      <3>2. v \in Pending /\ worker'[v] = worker[v]
        BY <1>8, <2>3, <3>1 DEF Pending
      <3> QED BY <3>2 DEF Sent
    <2> QED BY <2>2, <2>3 DEF Sent
  <1>13. WireOK'
    <2>1. \A v \in Worker : worker'[v].stdin = <<>> \/ \E n \in Message : worker'[v].stdin = <<n>>
      BY <1>0, <1>8 DEF WireOK
    <2>2. \A v \in Worker : \A line \in Lines(v)' :
              line.good /\ line.to[1] = "invoke" => <<line.to[2], v>> \in executed'
      <3> SUFFICES ASSUME NEW v \in Worker, NEW line \in Lines(v)',
                          line.good, line.to[1] = "invoke"
                   PROVE  <<line.to[2], v>> \in executed'
        OBVIOUS
      <3>1. CASE line \in Lines(v)
        BY <1>0, <1>11, <3>1 DEF WireOK
      <3>2. CASE line \notin Lines(v)
        <4>1. v = w /\ line = answer
          BY <1>9, <1>10, <3>2
        <4> QED BY <1>3, <1>11, <4>1
      <3> QED BY <3>1, <3>2
    <2>3. Holding' => Holding /\ process \in Worker
      BY <1>0 DEF Holding, StateOK
    <2>4. /\ \A n : Earlier(n) => Earlier(n)'
      BY DEF Earlier, Type, Current
    <2>5. CASE w = process
      <3>1. Holding => invoker.stage = "waiting" /\ m = invoker.message /\ ~WasRead
        <4>1. <<m>> # <<>> /\ <<m>>[1] = m
          OBVIOUS
        <4>2. HAVE Holding
        <4>3. worker[process].stdin = <<m>>
          BY <1>1, <2>5
        <4>4. invoker.stage = "waiting" /\ <<m>> = <<invoker.message>>
          BY <1>0, <4>1, <4>2, <4>3 DEF WireOK
        <4>5. <<invoker.message>>[1] = invoker.message
          OBVIOUS
        <4>6. m = invoker.message
          BY <4>1, <4>4, <4>5
        <4>7. ~WasRead
          BY <4>1, <4>3 DEF WasRead
        <4> QED BY <4>4, <4>6, <4>7
      <3>2. Holding => \A line \in Lines(process) : Earlier(line.to)
        BY <1>0, <3>1 DEF WireOK
      <3>3. Holding => WasRead'
        BY <1>8, <2>5, <3>1 DEF WasRead
      <3>4. Holding => \A line \in Lines(w)' :
                          Earlier(line.to)' \/ (WasRead' /\ line.to = invoker'.message)
        BY <1>3, <1>10, <2>4, <2>5, <3>1, <3>2, <3>3
      <3> QED BY <1>8, <2>1, <2>2, <2>3, <2>5, <3>4 DEF WireOK, Lines
    <2>6. CASE w # process
      <3>1. Holding => worker'[process] = worker[process] /\ process' = process
        BY <1>8, <2>3, <2>6 DEF Holding
      <3>2. Holding /\ WasRead => WasRead'
        BY <3>1 DEF WasRead
      <3>3. Holding => Lines(process)' = Lines(process)
        BY <3>1 DEF Lines
      <3> QED BY <1>0, <2>1, <2>2, <2>3, <2>4, <3>1, <3>2, <3>3 DEF WireOK
    <2> QED BY <2>5, <2>6
  <1>14. overflow' \in BOOLEAN
    BY <1>0 DEF StateOK
  <1>15. w <= attempts
    BY RunningWasStarted DEF Running
  <1>16. /\ leader' \in [Worker -> {"absent", "up", "stopping", "down"}]
         /\ \A v \in Worker : leader'[v] = leader[v] \/ (v <= attempts /\ leader'[v] = "down")
         /\ \A v \in reaped' : leader'[v] = "down"
    BY <1>0, <1>5, <1>15 DEF StateOK, ProcessesOK
  <1>17. \A v \in Worker : v > attempts => worker'[v] = Fresh
    <2>1. \A v \in Worker : v > attempts => v # w
      BY <1>0, <1>15 DEF StateOK, Worker
    <2> QED BY <1>0, <1>8, <2>1 DEF ProcessesOK
  <1>18. reaped' \in SUBSET Worker /\ helper' \in [Worker -> {"absent", "up", "down"}]
    BY <1>0 DEF StateOK
  <1> QED BY <1>8, <1>11, <1>12, <1>13, <1>14, <1>16, <1>17, <1>18, WorldKeeps

LEMMA RespondKeeps == \A w \in Worker : IInv /\ Respond(w) => IInv'
  <1> SUFFICES ASSUME NEW w \in Worker, IInv, Respond(w) PROVE IInv'
    OBVIOUS
  <1>1. /\ Running(w) /\ worker[w].stdin # <<>>
        /\ UNCHANGED <<process, active, attempts, executions, spent, overflow, drains, invoker,
                       results, helper, reaped, cancels>>
    BY DEF Respond, counters
  <1>2. PICK good \in BOOLEAN, copies \in {1, 2} : Handle(w, good, copies)
    BY DEF Respond
  <1>3. faults' \in Nat
    <2>1. faults \in Nat /\ faults + 1 \in Nat
      BY DEF IInv, StateOK
    <2>2. faults' = faults \/ faults' = faults + 1
      BY DEF Respond
    <2> QED BY <2>1, <2>2
  <1> QED BY <1>1, <1>2, <1>3, HandleKeeps

LEMMA NextKeeps == IInv /\ [Next]_vars => IInv'
  <1> SUFFICES ASSUME IInv, [Next]_vars PROVE IInv'
    OBVIOUS
  <1>1. CASE Invoker
    BY <1>1, BeginKeeps, CloseKeeps, SpawnKeeps, SendKeeps, AnsweredKeeps, RefusedKeeps,
       EndOfFileKeeps, TimedOutKeeps, StoppedKeeps DEF Invoker
  <1>2. CASE Cancel
    BY <1>2, CancelKeeps
  <1>3. ASSUME NEW w \in Worker, External(w) PROVE IInv'
    BY <1>3, RespondKeeps, StartHelperKeeps, ExitKeeps, ReapKeeps, OverflowKeeps DEF External
  <1>4. CASE UNCHANGED vars
    <2>1. UNCHANGED <<process, active, attempts, executions, spent, overflow, drains, invoker,
                      results, leader, helper, reaped, worker, executed, cancels, faults>>
      BY <1>4 DEF vars, counters, processes
    <2>2. WireOK' /\ Sent' \subseteq Sent /\ \A v \in Worker : v > attempts => worker'[v] = Fresh
      BY <2>1, WiresStay DEF IInv, StateOK
    <2>3. overflow' \in BOOLEAN
      BY <2>1 DEF IInv, StateOK
    <2>4. /\ faults' \in Nat /\ helper' \in [Worker -> {"absent", "up", "down"}]
          /\ leader' \in [Worker -> {"absent", "up", "stopping", "down"}]
          /\ reaped' \in SUBSET Worker /\ \A v \in reaped' : leader'[v] = "down"
          /\ worker' \in [Worker -> Mind] /\ executed' \subseteq (1 .. Requests) \X Worker
      BY <2>1 DEF IInv, StateOK, ProcessesOK
    <2> QED BY <2>1, <2>2, <2>3, <2>4, WorldKeeps
  <1> QED BY <1>1, <1>2, <1>3, <1>4 DEF Next
-----------------------------------------------------------------------------
(* The inductive invariant holds, whatever the workers do and whoever is   *)
(* cancelled.                                                              *)
THEOREM Invariance == Spec => []IInv
  <1> QED BY InitHolds, NextKeeps, PTL DEF Spec

(* What invoke() returns is the answer of the worker that ran that very    *)
(* invocation, once and in its session; what fails without doubt never ran;*)
(* restarts renew neither limit; and every worker that UL lost track of    *)
(* was asked to stop.                                                      *)
THEOREM SoundInvocations == Spec => []InvocationsAreSound
  <1>1. ASSUME IInv PROVE InvocationsAreSound
    <2>0. /\ StateOK /\ StagesOK /\ ProcessesOK /\ WireOK /\ SentOK /\ ResultsOK /\ LimitsOK
      BY <1>1 DEF IInv
    <2>1. executed \subseteq Sent
      BY DEF Sent
    <2>2. AnswersAreTheirOwn
      BY <2>0, <2>1 DEF AnswersAreTheirOwn, SentOK, ResultsOK
    <2>3. CertainFailuresRanNothing
      BY <2>0, <2>1 DEF CertainFailuresRanNothing, ResultsOK
    <2>4. TypeOK
      <3>1. attempts \in 0 .. Requests
        BY <2>0, Constants, LenProperties DEF StateOK, StagesOK, Working, Current
      <3> QED BY <2>0, <3>1 DEF TypeOK, StateOK, Names
    <2>5. LimitsSpanWorkers
      <3>1. /\ Cardinality(executed) \in Nat /\ Cardinality(executed) <= Cardinality(Sent)
            /\ Cardinality(Sent) \in Nat /\ Cardinality(Sent) <= executions
            /\ executions \in Nat /\ executions <= MaxExecutions /\ MaxExecutions \in Nat
        BY <2>0, <2>1, SentIsFinite, Constants DEF SentOK, StateOK, LimitsOK
      <3> QED BY <2>0, <3>1 DEF LimitsSpanWorkers, LimitsOK
    <2>6. NoWorkerIsForgotten
      <3>1. invoker.stage = "closed" => \A w \in Worker : leader[w] # "up"
        BY <2>0, Constants DEF StagesOK, ProcessesOK
      <3> QED BY <2>0, <3>1 DEF NoWorkerIsForgotten, ProcessesOK, Abandoned
    <2> QED BY <2>2, <2>3, <2>4, <2>5, <2>6 DEF InvocationsAreSound, ResultsAreTrue,
               WorkersAreAccounted
  <1> QED BY <1>1, Invariance, PTL

-----------------------------------------------------------------------------
(***************************************************************************)
(* The probe command.                                                      *)
(***************************************************************************)
\* The stages from the first look at the receipt to the end, and those after
\* the receipt was found or made reusable.
Cleared == {"prepared", "smoke", "smoked", "saved", "budget", "opening",
            "preflight", "campaign", "trial"}
Held == Cleared \cup {"locked", "unsafe"}

LockInv ==
    \A s \in Shells :
        /\ runs[s].stage \in Held => holder = s
        /\ runs[s].stage \in {"ended", "open", "waiting"} => holder # s
        /\ holder = s /\ runs[s].stage \in Cleared \cup {"confirm"} => receipt = "reusable"

DoubtInv ==
    /\ told => receipt = "quarantined"
    /\ doubted => \/ receipt = "quarantined"
                  \/ holder \in Shells /\ runs[holder].stage = "unsafe"

CallInv ==
    \A o \in Outputs, t \in Trials :
        /\ calls[o][t] <= 1
        /\ journal[o][t] = "planned" => calls[o][t] = 0

ProbeInv == ProbeTypeOK /\ LockInv /\ DoubtInv /\ CallInv

-----------------------------------------------------------------------------
(* Type correctness. *)

LEMMA EndedType == Ended \in Run /\ Ended.stage = "ended"
<1>1. AnOutput \in Outputs
  BY OutputsExist DEF AnOutput
<1> HIDE DEF AnOutput
<1> QED
  BY <1>1 DEF Ended, Run, Stages

\* What an action does to the invocations.
Moved(s, stage) ==
    /\ runs' \in [Shells -> Run]
    /\ runs'[s].stage = stage
    /\ \A r \in Shells : r # s => runs'[r] = runs[r]

LEMMA GotoMoves ==
    ASSUME runs \in [Shells -> Run], NEW s \in Shells
    PROVE  \A stage \in Stages : Goto(s, stage) => Moved(s, stage)
BY DEF Goto, Moved, Run

LEMMA LeaveMoves ==
    ASSUME runs \in [Shells -> Run], NEW s \in Shells, Leave(s)
    PROVE  Moved(s, "ended") /\ holder' = IF holder = s THEN Nobody ELSE holder
BY EndedType DEF Leave, Unlocked, Moved

LEMMA StartMoves ==
    ASSUME ProbeTypeOK, NEW s \in Shells, Start(s)
    PROVE  Moved(s, IF lockFile THEN "open" ELSE "confirm")
<1>1. PICK o \in Outputs, resume \in BOOLEAN, attested \in BOOLEAN :
        runs' = [runs EXCEPT ![s] =
               [Ended EXCEPT !.stage = IF lockFile THEN "open" ELSE "confirm",
                             !.output = o, !.resume = resume, !.attested = attested,
                             !.configured = config]]
  BY DEF Start
<1> DEFINE new == [Ended EXCEPT !.stage = IF lockFile THEN "open" ELSE "confirm",
                             !.output = o, !.resume = resume, !.attested = attested,
                             !.configured = config]
<1>2. new \in Run /\ new.stage = IF lockFile THEN "open" ELSE "confirm"
  BY EndedType DEF Run, ProbeTypeOK, Stages
<1> HIDE DEF new
<1> QED
  BY <1>1, <1>2 DEF Moved, ProbeTypeOK, new

\* An invocation is replaced by another one.
LEMMA ReplacedMoves ==
    ASSUME runs \in [Shells -> Run], NEW s \in Shells, NEW new \in Run,
           runs' = [runs EXCEPT ![s] = new]
    PROVE  Moved(s, new.stage)
BY DEF Moved

LEMMA ConfirmMoves ==
    ASSUME ProbeTypeOK, NEW s \in Shells, Confirm(s)
    PROVE  Moved(s, IF holder = s THEN "prepared" ELSE "open")
<1> DEFINE stage == IF holder = s THEN "prepared" ELSE "open"
           new == [runs[s] EXCEPT !.confirmed = TRUE, !.stage = stage]
<1>1. runs[s] \in Run /\ stage \in Stages
  BY DEF ProbeTypeOK, Stages
<1>2. new \in Run /\ new.stage = stage
  BY <1>1 DEF Run
<1>3. runs' = [runs EXCEPT ![s] = new]
  BY DEF Confirm
<1> HIDE DEF new
<1> QED
  BY <1>2, <1>3, ReplacedMoves DEF ProbeTypeOK

LEMMA OpenLockMoves ==
    ASSUME ProbeTypeOK, NEW s \in Shells, OpenLock(s) PROVE Moved(s, "waiting")
<1> DEFINE new == [runs[s] EXCEPT !.created = ~lockFile, !.stage = "waiting"]
<1>1. runs[s] \in Run /\ "waiting" \in Stages
  BY DEF ProbeTypeOK, Stages
<1>0. (~lockFile) \in BOOLEAN
  OBVIOUS
<1>2. new \in Run /\ new.stage = "waiting"
  BY <1>0, <1>1 DEF Run
<1>3. runs' = [runs EXCEPT ![s] = new]
  BY DEF OpenLock
<1> HIDE DEF new
<1> QED
  BY <1>2, <1>3, ReplacedMoves DEF ProbeTypeOK

LEMMA EndTrialMoves ==
    ASSUME ProbeTypeOK, NEW s \in Shells, NEW t \in Trials, EndTrial(s, t)
    PROVE  \/ Moved(s, "campaign") /\ UNCHANGED doubted
           \/ Moved(s, "unsafe")
<1>1. CASE Goto(s, "unsafe")
  BY <1>1, GotoMoves DEF ProbeTypeOK, Stages
<1>2. ASSUME UNCHANGED doubted, NEW suspect \in BOOLEAN,
             runs' = [runs EXCEPT ![s] = [@ EXCEPT !.stage = "campaign",
                                                 !.suspect = suspect]]
      PROVE  Moved(s, "campaign") /\ UNCHANGED doubted
  <2> DEFINE new == [runs[s] EXCEPT !.stage = "campaign", !.suspect = suspect]
  <2>1. runs[s] \in Run /\ "campaign" \in Stages
    BY DEF ProbeTypeOK, Stages
  <2>2. new \in Run /\ new.stage = "campaign"
    BY <2>1 DEF Run
  <2>3. runs' = [runs EXCEPT ![s] = new]
    BY <1>2
  <2> HIDE DEF new
  <2> QED
    BY <1>2, <2>2, <2>3, ReplacedMoves DEF ProbeTypeOK
<1> QED
  BY <1>1, <1>2 DEF EndTrial

-----------------------------------------------------------------------------
(* The inductive invariant. *)

THEOREM InitInv == ProbeInit => ProbeInv
<1> SUFFICES ASSUME ProbeInit PROVE ProbeInv
  OBVIOUS
<1>1. ProbeTypeOK
  BY EndedType, NobodyIsNoShell DEF ProbeInit, ProbeTypeOK, Stages
<1>2. LockInv
  BY EndedType, NobodyIsNoShell DEF ProbeInit, LockInv, Held, Cleared
<1> QED
  BY <1>1, <1>2 DEF ProbeInit, DoubtInv, CallInv, ProbeInv

\* What does not touch the receipt, the campaigns or the doubts preserves
\* everything, if the shell moves to a stage it may be in.
Quiet == UNCHANGED <<receipt, campaign, journal, told, doubted, calls>>

OtherFilesTyped ==
    /\ lockFile' \in BOOLEAN /\ config' \in BOOLEAN
    /\ checkpoints' \subseteq Outputs /\ preflights' \subseteq Outputs
    /\ campaign' \in [Outputs -> {"absent", "partial", "durable"}]
    /\ starts' \in Nat /\ kills' \in Nat

\* A shell that leaves takes only its own lock with it.
LEMMA LeaveInv ==
    ASSUME ProbeInv, NEW s \in Shells, Leave(s), OtherFilesTyped,
           UNCHANGED <<receipt, journal, told, calls>>,
           doubted' \in BOOLEAN,
           doubted' => \/ receipt = "quarantined"
                       \/ doubted /\ ~At(s, "unsafe")
    PROVE  ProbeInv'
<1>1. Moved(s, "ended") /\ holder' = IF holder = s THEN Nobody ELSE holder
  BY LeaveMoves DEF ProbeInv, ProbeTypeOK
<1>2. ProbeTypeOK'
  BY <1>1 DEF ProbeInv, ProbeTypeOK, OtherFilesTyped, Moved
<1>3. LockInv'
  BY <1>1, NobodyIsNoShell DEF ProbeInv, LockInv, Moved, Held, Cleared
<1>4. DoubtInv'
  BY <1>1, NobodyIsNoShell DEF ProbeInv, DoubtInv, LockInv, Moved, At
<1>5. CallInv'
  BY DEF ProbeInv, CallInv
<1> QED
  BY <1>2, <1>3, <1>4, <1>5 DEF ProbeInv

\* A shell that holds the lock goes on working with it.
LEMMA HolderInv ==
    ASSUME ProbeInv, NEW s \in Shells, NEW stage \in Held \cup {"confirm"}, Moved(s, stage),
           holder = s, OtherFilesTyped, UNCHANGED holder,
           receipt' \in {"missing", "reusable", "quarantined"},
           stage \in Cleared \cup {"confirm"} => receipt' = "reusable",
           journal' \in [Outputs ->
               [Trials -> {"planned", "running", "settled", "quarantined"}]],
           calls' \in [Outputs -> [Trials -> Nat]],
           told' \in BOOLEAN, doubted' \in BOOLEAN,
           told' => receipt' = "quarantined",
           doubted' => receipt' = "quarantined" \/ stage = "unsafe",
           CallInv'
    PROVE  ProbeInv'
<1>1. ProbeTypeOK'
  BY DEF ProbeInv, ProbeTypeOK, OtherFilesTyped, Moved
<1>2. LockInv'
  BY DEF ProbeInv, LockInv, Moved, Held, Cleared
<1>3. DoubtInv'
  BY DEF ProbeInv, DoubtInv, Moved
<1> QED
  BY <1>1, <1>2, <1>3 DEF ProbeInv

\* A shell without the lock touches nothing but the lock file.
LEMMA WaiterInv ==
    ASSUME ProbeInv, NEW s \in Shells, NEW stage \in {"confirm", "open", "waiting"},
           Moved(s, stage), holder # s, OtherFilesTyped, UNCHANGED holder, Quiet
    PROVE  ProbeInv'
<1>1. ProbeTypeOK'
  BY DEF ProbeInv, ProbeTypeOK, OtherFilesTyped, Moved, Quiet
<1>2. LockInv'
  BY DEF ProbeInv, LockInv, Moved, Held, Cleared, Quiet
<1>3. DoubtInv'
  BY DEF ProbeInv, DoubtInv, Moved, Quiet
<1>4. CallInv'
  BY DEF ProbeInv, CallInv, Quiet
<1> QED
  BY <1>1, <1>2, <1>3, <1>4 DEF ProbeInv

\* What is known of the shell that acts, from the stage it is at.
LEMMA HolderFacts ==
    ASSUME ProbeInv, NEW s \in Shells
    PROVE  /\ runs \in [Shells -> Run] /\ runs[s].stage \in Stages
           /\ runs[s].stage \in Held => holder = s
           /\ holder = s /\ runs[s].stage \in Cleared \cup {"confirm"} =>
                receipt = "reusable" /\ ~told /\ ~doubted
           /\ holder = s /\ ~At(s, "unsafe") => (doubted => receipt = "quarantined")
BY DEF ProbeInv, ProbeTypeOK, LockInv, DoubtInv, At, Run, Held, Cleared

LEMMA StartInv ==
    ASSUME ProbeInv, NEW s \in Shells, Start(s) PROVE ProbeInv'
<1>1. Moved(s, IF lockFile THEN "open" ELSE "confirm")
  BY StartMoves DEF ProbeInv
<1>2. holder # s /\ OtherFilesTyped /\ Quiet /\ UNCHANGED holder
  BY DEF Start, ProbeInv, ProbeTypeOK, LockInv, At, OtherFilesTyped, Quiet, files, history
<1> QED
  BY <1>1, <1>2, WaiterInv

LEMMA ConfirmInv ==
    ASSUME ProbeInv, NEW s \in Shells, Confirm(s) PROVE ProbeInv'
<1>1. Moved(s, IF holder = s THEN "prepared" ELSE "open")
  BY ConfirmMoves DEF ProbeInv
<1>2. OtherFilesTyped /\ Quiet /\ UNCHANGED holder
  BY DEF Confirm, ProbeInv, ProbeTypeOK, OtherFilesTyped, Quiet, files, history
<1>3. CASE holder # s
  BY <1>1, <1>2, <1>3, WaiterInv
<1>4. CASE holder = s
  <2>1. receipt = "reusable" /\ ~told /\ ~doubted
    BY <1>4, HolderFacts DEF Confirm, At
  <2>2. CallInv' /\ ProbeTypeOK
    BY <1>2 DEF ProbeInv, CallInv, Quiet
  <2> QED
    BY <1>1, <1>2, <1>4, <2>1, <2>2, HolderInv DEF Quiet, ProbeTypeOK, Held, Cleared
<1> QED
  BY <1>3, <1>4

LEMMA OpenLockInv ==
    ASSUME ProbeInv, NEW s \in Shells, OpenLock(s) PROVE ProbeInv'
<1>1. Moved(s, "waiting")
  BY OpenLockMoves DEF ProbeInv
<1>2. holder # s /\ OtherFilesTyped /\ Quiet /\ UNCHANGED holder
  BY DEF OpenLock, ProbeInv, ProbeTypeOK, LockInv, At, OtherFilesTyped, Quiet, history
<1> QED
  BY <1>1, <1>2, WaiterInv

LEMMA LockStepInv ==
    ASSUME ProbeInv, NEW s \in Shells, Lock(s) PROVE ProbeInv'
<1>1. Moved(s, "locked")
  BY GotoMoves DEF Lock, ProbeInv, ProbeTypeOK, Stages
<1>2. holder = Nobody /\ holder' = s /\ Quiet
  BY DEF Lock, Quiet, files, history
<1>3. ProbeTypeOK'
  BY <1>1 DEF Lock, ProbeInv, ProbeTypeOK, Moved, files, history
<1>4. LockInv'
  BY <1>1, <1>2, NobodyIsNoShell DEF ProbeInv, LockInv, Moved, Held, Cleared, Quiet
<1>5. DoubtInv' /\ CallInv'
  BY <1>2, NobodyIsNoShell DEF ProbeInv, DoubtInv, CallInv, Quiet
<1> QED
  BY <1>3, <1>4, <1>5 DEF ProbeInv

LEMMA EnforceInv ==
    ASSUME ProbeInv, NEW s \in Shells, Enforce(s) PROVE ProbeInv'
<1>1. holder = s /\ runs \in [Shells -> Run] /\ UNCHANGED holder
  BY HolderFacts DEF Enforce, At, Held
<1>2. OtherFilesTyped /\ UNCHANGED <<journal, calls>> /\ CallInv' /\ ProbeTypeOK
  BY DEF Enforce, Attested, Receipt, ProbeInv, ProbeTypeOK, CallInv, OtherFilesTyped, files, history
<1>3. (doubted => receipt = "quarantined") /\ (told => receipt = "quarantined")
  BY <1>1, HolderFacts DEF Enforce, At, ProbeInv, DoubtInv
<1> DEFINE onwards == IF runs[s].confirmed THEN "prepared" ELSE "confirm"
<1>4. CASE Clear(s) /\ Receipt("reusable") /\ Goto(s, onwards) /\ UNCHANGED history
  <2>1. Moved(s, onwards) /\ onwards \in Held \cup {"confirm"}
    BY <1>1, <1>4, GotoMoves DEF Stages, Held, Cleared
  <2>2. receipt' = "reusable" /\ told' = FALSE /\ doubted' = FALSE
    BY <1>2, <1>3, <1>4 DEF Clear, Receipt, history, ProbeTypeOK
  <2> HIDE DEF onwards
  <2> QED
    BY <1>1, <1>2, <2>1, <2>2, HolderInv DEF ProbeTypeOK
<1>5. CASE Attested /\ Goto(s, onwards)
  <2>1. Moved(s, onwards) /\ onwards \in Held \cup {"confirm"}
    BY <1>1, <1>5, GotoMoves DEF Stages, Held, Cleared
  <2>2. receipt' = "reusable" /\ told' = FALSE /\ doubted' = FALSE
    BY <1>5 DEF Attested, Receipt
  <2> HIDE DEF onwards
  <2> QED
    BY <1>1, <1>2, <2>1, <2>2, HolderInv DEF ProbeTypeOK
<1>6. CASE Goto(s, "unsafe") /\ UNCHANGED <<files, history>>
  <2>1. Moved(s, "unsafe")
    BY <1>1, <1>6, GotoMoves DEF Stages
  <2>2. UNCHANGED <<receipt, told, doubted>>
    BY <1>6 DEF files, history
  <2> QED
    BY <1>1, <1>2, <1>3, <2>1, <2>2, HolderInv DEF ProbeTypeOK, Held, Cleared
<1> QED
  BY <1>4, <1>5, <1>6 DEF Enforce

LEMMA StopInv ==
    ASSUME ProbeInv, NEW s \in Shells, Leave(s), ~At(s, "unsafe"), OtherFilesTyped,
           UNCHANGED <<receipt, journal, history>>
    PROVE  ProbeInv'
BY LeaveInv DEF ProbeInv, ProbeTypeOK, history

\* The holder goes to its next stage and nothing else of note happens.
LEMMA OnwardsInv ==
    ASSUME ProbeInv, NEW s \in Shells, NEW stage \in Cleared, Goto(s, stage),
           runs[s].stage \in Cleared, OtherFilesTyped, UNCHANGED holder,
           UNCHANGED <<receipt, journal, history>>
    PROVE  ProbeInv'
<1>1. Moved(s, stage)
  BY GotoMoves DEF ProbeInv, ProbeTypeOK, Cleared, Stages
<1>2. holder = s /\ receipt = "reusable" /\ ~told /\ ~doubted
  BY HolderFacts DEF Held
<1>3. CallInv' /\ ProbeTypeOK
  BY DEF ProbeInv, CallInv, history
<1> QED
  BY <1>1, <1>2, <1>3, HolderInv DEF ProbeTypeOK, Held, history

\* The holder stops in a way that is not safe.
LEMMA UnsafeInv ==
    ASSUME ProbeInv, NEW s \in Shells, Goto(s, "unsafe"), runs[s].stage \in Cleared,
           OtherFilesTyped, UNCHANGED holder, UNCHANGED <<receipt, told, calls>>,
           doubted' \in BOOLEAN, CallInv',
           journal' \in [Outputs ->
               [Trials -> {"planned", "running", "settled", "quarantined"}]]
    PROVE  ProbeInv'
<1>1. Moved(s, "unsafe")
  BY GotoMoves DEF ProbeInv, ProbeTypeOK, Stages
<1>2. holder = s /\ receipt = "reusable" /\ ~told
  BY HolderFacts DEF Held
<1>3. ProbeTypeOK
  BY DEF ProbeInv
<1> QED
  BY <1>1, <1>2, <1>3, HolderInv DEF ProbeTypeOK, Held, Cleared

LEMMA SmokeStepsInv ==
    ASSUME ProbeInv, NEW s \in Shells,
           Smoke(s) \/ Smoked(s) \/ SaveConfig(s) \/ SaveCheckpoint(s)
           \/ LoadCheckpoint(s) \/ Pay(s)
    PROVE  ProbeInv'
<1>0. ProbeTypeOK /\ CallInv
  BY DEF ProbeInv
<1>1. OtherFilesTyped /\ UNCHANGED <<receipt, journal, told, calls>>
  BY <1>0 DEF Smoke, Smoked, SaveConfig, SaveCheckpoint, LoadCheckpoint, Pay, Output,
     ProbeTypeOK, OtherFilesTyped, files, history, Run
<1>2. runs[s].stage \in Cleared /\ ~At(s, "unsafe")
  BY DEF Smoke, Smoked, SaveConfig, SaveCheckpoint, LoadCheckpoint, Pay, At, Cleared
<1>3. CASE Leave(s) /\ UNCHANGED doubted
  BY <1>1, <1>2, <1>3, StopInv DEF history
<1>4. CASE \E stage \in Cleared : Goto(s, stage) /\ UNCHANGED <<holder, doubted>>
  BY <1>1, <1>2, <1>4, OnwardsInv DEF history
<1>5. CASE Goto(s, "unsafe") /\ doubted' = TRUE /\ UNCHANGED holder
  BY <1>0, <1>1, <1>2, <1>5, UnsafeInv DEF ProbeTypeOK, CallInv
<1>6. <1>3!1 \/ <1>4!1 \/ <1>5!1
  BY DEF Smoke, Smoked, SaveConfig, SaveCheckpoint, LoadCheckpoint, Pay, Cleared, history
<1> QED
  BY <1>3, <1>4, <1>5, <1>6

LEMMA CampaignStepsInv ==
    ASSUME ProbeInv, NEW s \in Shells,
           Create(s) \/ CannotReopen(s) \/ Preflight(s) \/ Abort(s) \/ Report(s)
    PROVE  ProbeInv'
<1>0. ProbeTypeOK /\ CallInv
  BY DEF ProbeInv
<1>1. OtherFilesTyped /\ UNCHANGED <<receipt, journal, told, calls>>
  BY <1>0 DEF Create, CannotReopen, Preflight, Abort, Report, Output,
     ProbeTypeOK, OtherFilesTyped, files, history, Run
<1>2. runs[s].stage \in Cleared /\ ~At(s, "unsafe")
  BY DEF Create, CannotReopen, Preflight, Abort, Report, At, Cleared
<1>3. CASE Leave(s) /\ UNCHANGED doubted
  BY <1>1, <1>2, <1>3, StopInv DEF history
<1>4. CASE \E stage \in Cleared : Goto(s, stage) /\ UNCHANGED <<holder, doubted>>
  BY <1>1, <1>2, <1>4, OnwardsInv DEF history
<1>5. CASE Goto(s, "unsafe") /\ doubted' \in BOOLEAN /\ UNCHANGED holder
  BY <1>0, <1>1, <1>2, <1>5, UnsafeInv DEF ProbeTypeOK, CallInv
<1>6. <1>3!1 \/ <1>4!1 \/ <1>5!1
  BY <1>0 DEF Create, CannotReopen, Preflight, Abort, Report, Cleared, history, ProbeTypeOK
<1> QED
  BY <1>3, <1>4, <1>5, <1>6

LEMMA ReopenInv ==
    ASSUME ProbeInv, NEW s \in Shells, Reopen(s) PROVE ProbeInv'
<1> DEFINE o == Output(s)
<1>0. ProbeTypeOK /\ CallInv /\ o \in Outputs
  BY DEF ProbeInv, ProbeTypeOK, Output, Run
<1>1. holder = s /\ receipt = "reusable" /\ ~told /\ ~doubted /\ UNCHANGED holder
  BY HolderFacts DEF Reopen, At, Held, Cleared
<1>2. OtherFilesTyped /\ UNCHANGED calls
  BY <1>0 DEF Reopen, ProbeTypeOK, OtherFilesTyped, history
<1>3. journal' = [journal EXCEPT ![o] = Recovered(o)]
  BY DEF Reopen
<1>4. /\ Recovered(o) \in [Trials -> {"planned", "running", "settled", "quarantined"}]
      /\ \A t \in Trials : Recovered(o)[t] = "planned" => journal[o][t] = "planned"
  BY <1>0 DEF Recovered, Journal, ProbeTypeOK
<1> HIDE DEF o
<1>5. /\ journal' \in [Outputs ->
            [Trials -> {"planned", "running", "settled", "quarantined"}]]
      /\ CallInv'
  BY <1>0, <1>2, <1>3, <1>4 DEF ProbeTypeOK, CallInv
<1>6. CASE /\ Goto(s, "campaign")
           /\ receipt' = "reusable" /\ told' = FALSE /\ doubted' = FALSE
  <2>1. Moved(s, "campaign")
    BY <1>0, <1>6, GotoMoves DEF ProbeTypeOK, Stages
  <2> QED
    BY <1>0, <1>1, <1>2, <1>5, <1>6, <2>1, HolderInv DEF ProbeTypeOK, Held, Cleared
<1>7. CASE /\ Goto(s, "unsafe")
           /\ receipt' = "quarantined" /\ told' = TRUE /\ doubted' = TRUE
  <2>1. Moved(s, "unsafe")
    BY <1>0, <1>7, GotoMoves DEF ProbeTypeOK, Stages
  <2> QED
    BY <1>0, <1>1, <1>2, <1>5, <1>7, <2>1, HolderInv DEF ProbeTypeOK, Held, Cleared
<1>8. <1>6!1 \/ <1>7!1
  BY <1>0, <1>1 DEF Reopen, history, ProbeTypeOK
<1> QED
  BY <1>6, <1>7, <1>8

LEMMA SendTrialInv ==
    ASSUME ProbeInv, NEW s \in Shells, NEW t \in Trials, SendTrial(s, t) PROVE ProbeInv'
<1> DEFINE o == Output(s)
<1>0. ProbeTypeOK /\ CallInv /\ o \in Outputs
  BY DEF ProbeInv, ProbeTypeOK, Output, Run
<1>1. holder = s /\ receipt = "reusable" /\ ~told /\ ~doubted /\ UNCHANGED holder
  BY HolderFacts DEF SendTrial, At, Held, Cleared
<1>2. OtherFilesTyped /\ UNCHANGED <<receipt, told, doubted>>
  BY <1>0 DEF SendTrial, ProbeTypeOK, OtherFilesTyped
<1>3. /\ journal[o][t] = "planned"
      /\ journal' = [journal EXCEPT ![o][t] = "running"]
      /\ calls' = [calls EXCEPT ![o][t] = @ + 1]
  BY DEF SendTrial
<1> HIDE DEF o
<1>4. /\ journal' \in [Outputs ->
            [Trials -> {"planned", "running", "settled", "quarantined"}]]
      /\ calls' \in [Outputs -> [Trials -> Nat]]
  BY <1>0, <1>3 DEF ProbeTypeOK
<1>5. calls[o][t] = 0
  BY <1>0, <1>3 DEF CallInv
<1>6. CallInv'
  <2> SUFFICES ASSUME NEW p \in Outputs, NEW u \in Trials
               PROVE  calls'[p][u] <= 1 /\ (journal'[p][u] = "planned" => calls'[p][u] = 0)
    BY DEF CallInv
  <2>1. CASE p = o /\ u = t
    BY <1>0, <1>3, <1>5, <2>1 DEF ProbeTypeOK
  <2>2. CASE ~(p = o /\ u = t)
    BY <1>0, <1>3, <2>2 DEF ProbeTypeOK, CallInv
  <2> QED
    BY <2>1, <2>2
<1>7. Moved(s, "trial")
  BY <1>0, GotoMoves DEF SendTrial, ProbeTypeOK, Stages
<1> QED
  BY <1>0, <1>1, <1>2, <1>4, <1>6, <1>7, HolderInv DEF ProbeTypeOK, Held, Cleared

\* A trial that is settled is not planned any more.
LEMMA SettleCalls ==
    ASSUME ProbeTypeOK, CallInv, NEW o \in Outputs, NEW t \in Trials,
           NEW state \in {"settled", "quarantined"},
           journal' = [journal EXCEPT ![o][t] = state], UNCHANGED calls
    PROVE  /\ journal' \in [Outputs ->
                [Trials -> {"planned", "running", "settled", "quarantined"}]]
           /\ CallInv'
<1>1. journal' \in [Outputs -> [Trials -> {"planned", "running", "settled", "quarantined"}]]
  BY DEF ProbeTypeOK
<1>2. \A p \in Outputs, u \in Trials :
        journal'[p][u] = "planned" => journal[p][u] = "planned"
  BY DEF ProbeTypeOK
<1> QED
  BY <1>1, <1>2 DEF CallInv

LEMMA EndTrialInv ==
    ASSUME ProbeInv, NEW s \in Shells, NEW t \in Trials, EndTrial(s, t) PROVE ProbeInv'
<1> DEFINE o == Output(s)
<1>0. ProbeTypeOK /\ CallInv /\ o \in Outputs
  BY DEF ProbeInv, ProbeTypeOK, Output, Run
<1>1. holder = s /\ receipt = "reusable" /\ ~told /\ ~doubted /\ UNCHANGED holder
  BY HolderFacts DEF EndTrial, At, Held, Cleared
<1>2. OtherFilesTyped /\ UNCHANGED <<receipt, told, calls>> /\ doubted' \in BOOLEAN
  BY <1>0 DEF EndTrial, ProbeTypeOK, OtherFilesTyped
<1>3. \E state \in {"settled", "quarantined"} : journal' = [journal EXCEPT ![o][t] = state]
  BY DEF EndTrial
<1> HIDE DEF o
<1>4. /\ journal' \in [Outputs ->
            [Trials -> {"planned", "running", "settled", "quarantined"}]]
      /\ CallInv'
  BY <1>0, <1>2, <1>3, SettleCalls
<1>5. CASE Moved(s, "campaign") /\ UNCHANGED doubted
  BY <1>0, <1>1, <1>2, <1>4, <1>5, HolderInv DEF ProbeTypeOK, Held, Cleared
<1>6. CASE Moved(s, "unsafe")
  BY <1>0, <1>1, <1>2, <1>4, <1>6, HolderInv DEF ProbeTypeOK, Held, Cleared
<1> QED
  BY <1>0, <1>5, <1>6, EndTrialMoves

LEMMA SkipTrialInv ==
    ASSUME ProbeInv, NEW s \in Shells, NEW t \in Trials, SkipTrial(s, t) PROVE ProbeInv'
<1>0. ProbeTypeOK /\ CallInv /\ Output(s) \in Outputs
  BY DEF ProbeInv, ProbeTypeOK, Output, Run
<1>1. journal' = [journal EXCEPT ![Output(s)][t] = "settled"] /\ UNCHANGED calls
  BY DEF SkipTrial, history
<1>2. /\ journal' \in [Outputs ->
            [Trials -> {"planned", "running", "settled", "quarantined"}]]
      /\ CallInv'
  BY <1>0, <1>1, SettleCalls
<1>3. ProbeTypeOK'
  BY <1>0, <1>2 DEF SkipTrial, ProbeTypeOK, history
<1>4. LockInv' /\ DoubtInv'
  BY DEF SkipTrial, ProbeInv, LockInv, DoubtInv, history
<1> QED
  BY <1>2, <1>3, <1>4 DEF ProbeInv

LEMMA LeavingInv ==
    ASSUME ProbeInv, NEW s \in Shells,
           \/ NotConfirmed(s) \/ NotPrepared(s) \/ NotAffordable(s)
           \/ NotSaved(s) \/ NotQualified(s) \/ Pause(s) \/ Kill(s)
    PROVE  ProbeInv'
<1>0. ProbeTypeOK /\ Leave(s)
  BY DEF ProbeInv, NotConfirmed, NotPrepared, NotAffordable, NotSaved, NotQualified,
     Pause, Kill, Stop
<1>1. CASE Kill(s)
  <2>1. OtherFilesTyped /\ UNCHANGED <<receipt, journal, told, calls>>
    BY <1>0, <1>1 DEF Kill, ProbeTypeOK, OtherFilesTyped, files
  <2>2. /\ doubted' \in BOOLEAN
        /\ doubted' => receipt = "quarantined" \/ (doubted /\ ~At(s, "unsafe"))
    BY <1>1 DEF Kill
  <2> QED
    BY <1>0, <2>1, <2>2, LeaveInv
<1>2. CASE ~Kill(s)
  <2>1. OtherFilesTyped /\ UNCHANGED <<receipt, journal, history>> /\ ~At(s, "unsafe")
    BY <1>0, <1>2 DEF NotConfirmed, NotPrepared, NotAffordable, NotSaved, NotQualified,
       Pause, Stop, ProbeTypeOK, OtherFilesTyped, files, At
  <2> QED
    BY <1>0, <2>1, StopInv
<1> QED
  BY <1>1, <1>2

LEMMA QuarantineInv ==
    ASSUME ProbeInv, NEW s \in Shells, Quarantine(s) PROVE ProbeInv'
<1>0. ProbeTypeOK /\ CallInv
  BY DEF ProbeInv
<1>1. holder = s
  BY HolderFacts DEF Quarantine, At, Held
<1>2. Moved(s, "ended") /\ holder' = Nobody
  BY <1>0, <1>1, LeaveMoves DEF Quarantine, ProbeTypeOK
<1>3. receipt' = "quarantined" /\ UNCHANGED <<doubted, calls, journal>> /\ told' = TRUE
  BY DEF Quarantine, Receipt
<1>4. ProbeTypeOK'
  BY <1>0, <1>2, <1>3 DEF Quarantine, Receipt, ProbeTypeOK, Moved
<1>5. LockInv'
  BY <1>1, <1>2, NobodyIsNoShell DEF ProbeInv, LockInv, Moved, Held, Cleared
<1>6. DoubtInv' /\ CallInv'
  BY <1>0, <1>3 DEF DoubtInv, CallInv
<1> QED
  BY <1>4, <1>5, <1>6 DEF ProbeInv

LEMMA NextInv == ProbeInv /\ [ProbeNext]_probeVars => ProbeInv'
<1> SUFFICES ASSUME ProbeInv, [ProbeNext]_probeVars PROVE ProbeInv'
  OBVIOUS
<1>1. CASE UNCHANGED probeVars
  BY <1>1 DEF probeVars, files, history, ProbeInv, ProbeTypeOK, LockInv, DoubtInv, CallInv
<1>2. ASSUME NEW s \in Shells, Start(s) \/ Step(s) \/ Kill(s) PROVE ProbeInv'
  <2>1. CASE Start(s) \/ Confirm(s) \/ OpenLock(s) \/ Lock(s) \/ Enforce(s)
    BY <2>1, StartInv, ConfirmInv, OpenLockInv, LockStepInv, EnforceInv
  <2>2. CASE \/ NotConfirmed(s) \/ NotPrepared(s) \/ NotAffordable(s)
             \/ NotSaved(s) \/ NotQualified(s) \/ Pause(s) \/ Kill(s)
    BY <2>2, LeavingInv
  <2>3. CASE Smoke(s) \/ Smoked(s) \/ SaveConfig(s) \/ SaveCheckpoint(s)
             \/ LoadCheckpoint(s) \/ Pay(s)
    BY <2>3, SmokeStepsInv
  <2>4. CASE Create(s) \/ CannotReopen(s) \/ Preflight(s) \/ Abort(s) \/ Report(s)
    BY <2>4, CampaignStepsInv
  <2>5. CASE Reopen(s) \/ Quarantine(s)
    BY <2>5, ReopenInv, QuarantineInv
  <2>6. CASE \E t \in Trials : SendTrial(s, t) \/ EndTrial(s, t) \/ SkipTrial(s, t)
    BY <2>6, SendTrialInv, EndTrialInv, SkipTrialInv
  <2> QED
    BY <1>2, <2>1, <2>2, <2>3, <2>4, <2>5, <2>6 DEF Step
<1> QED
  BY <1>1, <1>2 DEF ProbeNext

\* What the lock, the receipt, the doubts and the journals of probe.py keep
\* true together, for any number of shells, outputs, trials and kills.
THEOREM ProbeInvariance == ProbeSpec => []ProbeInv
BY InitInv, NextInv, PTL DEF ProbeSpec

-----------------------------------------------------------------------------
(* What it implies. *)

LEMMA InvIsSafe == ProbeInv => ProbesAreSafe
<1> SUFFICES ASSUME ProbeInv PROVE ProbesAreSafe
  OBVIOUS
<1>1. CallsAreAlone
  BY DEF ProbeInv, LockInv, CallsAreAlone, Calling, Held, Cleared
<1>2. TrialsAreSentOnce
  BY DEF ProbeInv, CallInv, TrialsAreSentOnce
<1>3. DoubtIsOnRecord
  BY NobodyIsNoShell DEF ProbeInv, DoubtInv, DoubtIsOnRecord
<1> QED
  BY <1>1, <1>2, <1>3 DEF ProbeInv, ProbesAreSafe

\* However many invocations of `ul probe` run, resume and are killed: the target
\* is called by one of them at a time, under the lock and a reusable receipt, no
\* trial is sent twice, and every recorded doubt is on disk when the lock is free.
THEOREM AlwaysSafe == ProbeSpec => []ProbesAreSafe
BY ProbeInvariance, InvIsSafe, PTL

\* Only Smoke and SendTrial begin a call.
Quietly == Stages \ {"smoke", "trial"}

LEMMA CallsBegin ==
    ASSUME ProbeTypeOK, NEW s \in Shells, Start(s) \/ Step(s) \/ Kill(s),
           NEW r \in Shells, Calling(r)', ~Calling(r)
    PROVE  r = s /\ (Smoke(s) \/ \E t \in Trials : SendTrial(s, t))
<1>1. (\E stage \in Quietly : Moved(s, stage)) => FALSE
  BY DEF Moved, Calling, Quietly
<1>2. (\E stage \in Quietly : Goto(s, stage)) => FALSE
  BY <1>1, GotoMoves DEF ProbeTypeOK, Quietly
<1>3. ~Leave(s)
  BY <1>1, LeaveMoves DEF ProbeTypeOK, Quietly, Stages
<1>4. ~UNCHANGED runs
  BY DEF Calling
<1>5. ~(Start(s) \/ Confirm(s) \/ OpenLock(s))
  BY <1>1, StartMoves, ConfirmMoves, OpenLockMoves DEF Quietly, Stages
<1>6. ~(Lock(s) \/ Enforce(s))
  BY <1>2 DEF Lock, Enforce, Quietly, Stages
<1>7. ~(\/ NotConfirmed(s) \/ NotPrepared(s) \/ NotAffordable(s) \/ NotSaved(s)
        \/ NotQualified(s) \/ Pause(s) \/ Quarantine(s) \/ Kill(s))
  BY <1>3 DEF NotConfirmed, NotPrepared, NotAffordable, NotSaved, NotQualified, Pause,
     Stop, Quarantine, Kill
<1>8. ~(Smoked(s) \/ SaveConfig(s) \/ SaveCheckpoint(s) \/ LoadCheckpoint(s) \/ Pay(s))
  BY <1>2, <1>3 DEF Smoked, SaveConfig, SaveCheckpoint, LoadCheckpoint, Pay, Quietly, Stages
<1>9. ~(\/ Create(s) \/ Reopen(s) \/ CannotReopen(s) \/ Preflight(s) \/ Abort(s)
        \/ Report(s))
  BY <1>2, <1>3 DEF Create, Reopen, CannotReopen, Preflight, Abort, Report, Quietly, Stages
<1>10. \A t \in Trials : ~EndTrial(s, t)
  BY <1>1, EndTrialMoves DEF Quietly, Stages
<1>11. \A t \in Trials : ~SkipTrial(s, t)
  BY <1>4 DEF SkipTrial
<1>12. Smoke(s) \/ \E t \in Trials : SendTrial(s, t)
  BY <1>5, <1>6, <1>7, <1>8, <1>9, <1>10, <1>11 DEF Step
<1>13. \E stage \in Stages : Moved(s, stage)
  BY <1>12, GotoMoves DEF Smoke, SendTrial, ProbeTypeOK, Stages
<1> QED
  BY <1>12, <1>13 DEF Moved, Calling

\* No call of the target begins while an invocation's doubt, or a quarantine
\* that was reported, has not been lifted by an attestation.
THEOREM NeverCalledInDoubt == ProbeSpec => NoCallInDoubt
<1>1. ProbeInv /\ [ProbeNext]_probeVars =>
        [\A s \in Shells : Calling(s)' /\ ~Calling(s) => ~told /\ ~doubted]_probeVars
  <2> SUFFICES ASSUME ProbeInv, ProbeNext, NEW r \in Shells, Calling(r)', ~Calling(r)
               PROVE  ~told /\ ~doubted
    OBVIOUS
  <2>1. PICK s \in Shells : Start(s) \/ Step(s) \/ Kill(s)
    BY DEF ProbeNext
  <2>2. r = s /\ (Smoke(s) \/ \E t \in Trials : SendTrial(s, t))
    BY <2>1, CallsBegin DEF ProbeInv
  <2>3. runs[s].stage \in Cleared
    BY <2>2 DEF Smoke, SendTrial, At, Cleared
  <2> QED
    BY <2>3, HolderFacts DEF Held
<1> QED
  BY <1>1, ProbeInvariance, PTL DEF ProbeSpec, NoCallInDoubt
=============================================================================
