---------------------------- MODULE EventProofs ----------------------------
(***************************************************************************)
(* Proofs about what comes in, what goes out and what is logged.           *)
(*                                                                         *)
(* Ingest, for any set of workers, any number of operations, any page limit*)
(* and any number of failures, and IngestLeader, for any number of replicas*)
(* and of faults.                                                          *)
(*                                                                         *)
(* AuditChain, for any number of writers, events, verifiers and rows from  *)
(* before the chain: what the service alone has written is one linear      *)
(* chain that ends at the head, the two tables implement the append-only   *)
(* log, and the verdicts of a verification are true.                       *)
(*                                                                         *)
(* Webhooks, for any endpoints, tasks, policy and threshold: the log tells *)
(* what was sent, and an endpoint is disabled for its own streak, once.    *)
(***************************************************************************)
EXTENDS Ingest, IngestLeader, AuditChain, Webhooks, SequenceTheorems, TLAPS

USE NAssumption, PageLimitAssumption, FaultAssumption

\* Init establishes the inductive invariant.
LEMMA InitIInv == Init => IInv
BY DEF Init, IInv, TypeOK, NoSkippedDeposit, WorkersCovered, WorkerCovered,
       NotifierOwnsDeposit, OwnsDeposit, NotifiedAtMostOnce, Notifying, Covered, Tasks,
       Idle, Ops

PCs == {"idle", "fetch", "listen", "process", "notify", "match", "advance"}

\* Moving a task to another program counter keeps it a task of the same record.
LEMMA TaskAtPC ==
    ASSUME NEW t \in Tasks, NEW p \in PCs
    PROVE  /\ [t EXCEPT !.pc = p] \in Tasks
           /\ [t EXCEPT !.pc = p].pc = p
           /\ [t EXCEPT !.pc = p].at = t.at
BY Zenon DEF Tasks, PCs

\* Taking the next record keeps it a task.
LEMMA TaskAtNext ==
    ASSUME NEW t \in Tasks, t.at < N
    PROVE  NextOf(t) \in Tasks /\ NextOf(t).pc = "process" /\ NextOf(t).at = t.at + 1
BY DEF Tasks, NextOf

\* The task of a worker between two polls or sessions.
LEMMA IdleTask == Idle \in Tasks /\ Idle.pc = "idle"
BY DEF Idle, Tasks

\* Become changes one worker's task and leaves the others alone.
LEMMA BecomeTask ==
    ASSUME task \in [Workers -> Tasks], NEW w \in Workers, NEW t \in Tasks, Become(w, t)
    PROVE  /\ task' \in [Workers -> Tasks]
           /\ task'[w] = t
           /\ \A v \in Workers : v # w => task'[v] = task[v]
BY Zenon DEF Become

\* A worker that only changes its program counter stays at its record.
LEMMA TaskMoved ==
    ASSUME task \in [Workers -> Tasks], NEW w \in Workers, NEW p \in PCs,
           Become(w, [task[w] EXCEPT !.pc = p])
    PROVE  /\ task'[w].pc = p /\ task'[w].at = task[w].at
           /\ \A v \in Workers : v # w => task'[v] = task[v]
<1>1. task[w] \in Tasks
  BY Zenon
<1>2. [task[w] EXCEPT !.pc = p] \in Tasks
  BY Zenon, <1>1, TaskAtPC
<1>3. /\ task'[w] = [task[w] EXCEPT !.pc = p]
      /\ \A v \in Workers : v # w => task'[v] = task[v]
  BY Zenon, <1>2, BecomeTask
<1> QED BY <1>1, <1>3, TaskAtPC

\* After its token was written a task stops, listens on, or has the next record.
LEMMA AdvancedTask ==
    ASSUME NEW t \in Tasks
    PROVE  /\ Advanced(t) \in Tasks
           /\ \/ Advanced(t).pc = "idle"
              \/ Advanced(t).pc = "listen" /\ Advanced(t).at = t.at
              \/ Advanced(t).pc = "process" /\ Advanced(t).at = t.at + 1 /\ t.at < N
<1>1. CASE t.mode = "stream"
  BY Zenon, <1>1, TaskAtPC DEF Advanced, PCs
<1>2. CASE t.mode # "stream" /\ t.at < t.last
  <2>1. t.at < N
    BY <1>2 DEF Tasks
  <2> QED BY Zenon, <1>2, <2>1, TaskAtNext DEF Advanced
<1>3. CASE t.mode # "stream" /\ ~ (t.at < t.last)
  BY Zenon, <1>3, IdleTask DEF Advanced
<1> QED BY Zenon, <1>1, <1>2, <1>3

\* The task a poll has after its page arrived.
LEMMA FetchedTask ==
    ASSUME NEW c \in 0..N, landed \in 0..N, c < landed
    PROVE  [pc |-> "process", mode |-> "poll", at |-> c + 1, last |-> PageEnd(c)] \in Tasks
<1>1. PageEnd(c) \in 0..N
  BY DEF PageEnd
<1> QED BY <1>1 DEF Tasks

\* record_deposit leaves a table of at most one row per operation.
LEMMA RecordType ==
    ASSUME deposits \in [Ops -> 0..1], NEW i \in Ops
    PROVE  /\ record_deposit(i) \in [Ops -> 0..1]
           /\ record_deposit(i)[i] = 1
           /\ \A j \in Ops : deposits[j] = 1 => record_deposit(i)[j] = 1
           /\ \A j \in Ops : j # i => record_deposit(i)[j] = deposits[j]
BY DEF record_deposit

\* Counting one more event changes one counter.
LEMMA CountOne ==
    ASSUME NEW f \in [Ops -> Nat], NEW i \in Ops
    PROVE  /\ [f EXCEPT ![i] = @ + 1] \in [Ops -> Nat]
           /\ [f EXCEPT ![i] = @ + 1][i] = f[i] + 1
           /\ \A j \in Ops : j # i => [f EXCEPT ![i] = @ + 1][j] = f[j]
<1>1. f[i] + 1 \in Nat
  OBVIOUS
<1> QED BY Zenon, <1>1

\* A step of a worker keeps every variable in its type.
LEMMA TypeWorker ==
    ASSUME TypeOK, WorkersCovered, NEW w \in Workers, Step(w) \/ Fault(w)
    PROVE  TypeOK'
<1> USE DEF TypeOK
<1>0. task[w] \in Tasks /\ task[w].at \in 0..N
  BY Zenon DEF Tasks
<1>1. CASE GetCursor(w)
  <2>1. PICK m \in {"poll", "stream"} :
          Become(w, [pc |-> "fetch", mode |-> m, at |-> cursor, last |-> 0])
    BY Zenon, <1>1 DEF GetCursor
  <2>2. [pc |-> "fetch", mode |-> m, at |-> cursor, last |-> 0] \in Tasks
    BY DEF Tasks
  <2> QED BY Zenon, <1>1, <2>1, <2>2, BecomeTask DEF GetCursor
<1>2. CASE Fetch(w)
  <2>1. CASE task[w].at < landed
    BY Zenon, <1>0, <1>2, <2>1, FetchedTask, BecomeTask DEF Fetch
  <2>2. CASE ~ (task[w].at < landed)
    BY Zenon, <1>2, <2>2, IdleTask, BecomeTask DEF Fetch
  <2> QED BY Zenon, <2>1, <2>2
<1>3. CASE OpenStream(w)
  BY Zenon, <1>0, <1>3, TaskAtPC, BecomeTask DEF OpenStream, PCs
<1>4. CASE NextRecord(w)
  <2>1. task[w].at < N
    BY <1>0, <1>4 DEF NextRecord
  <2> QED BY Zenon, <1>0, <1>4, <2>1, TaskAtNext, BecomeTask DEF NextRecord
<1>5. CASE CloseStream(w)
  BY Zenon, <1>5, IdleTask, BecomeTask DEF CloseStream
<1>6. CASE Process(w)
  <2> DEFINE p == IF task[w].at \in credit /\ deposits[task[w].at] = 0
                  THEN "notify" ELSE "advance"
  <2>1. task' \in [Workers -> Tasks]
    <3>1. p \in PCs
      BY Zenon DEF PCs
    <3>2. Become(w, [task[w] EXCEPT !.pc = p])
      BY Zenon, <1>6 DEF Process
    <3> HIDE DEF p
    <3> QED BY Zenon, <1>0, <3>1, <3>2, TaskAtPC, BecomeTask
  <2>2. deposits' \in [Ops -> 0..1]
    BY Zenon, <1>6, RecordType DEF Process
  <2> QED BY Zenon, <1>6, <2>1, <2>2 DEF Process
<1>7. CASE FireDepositWebhook(w)
  <2>1. task' \in [Workers -> Tasks]
    BY Zenon, <1>0, <1>7, TaskAtPC, BecomeTask DEF FireDepositWebhook, PCs
  <2>2. created' \in [Ops -> Nat]
    BY Zenon, <1>7, CountOne DEF FireDepositWebhook, WorkersCovered, WorkerCovered
  <2> QED BY Zenon, <1>7, <2>1, <2>2 DEF FireDepositWebhook
<1>8. CASE ConfirmPaymentLink(w)
  <2>1. task' \in [Workers -> Tasks]
    BY Zenon, <1>0, <1>8, TaskAtPC, BecomeTask DEF ConfirmPaymentLink, PCs
  <2>2. matched' \in [Ops -> Nat]
    BY Zenon, <1>8, CountOne DEF ConfirmPaymentLink, WorkersCovered, WorkerCovered
  <2> QED BY Zenon, <1>8, <2>1, <2>2 DEF ConfirmPaymentLink
<1>9. CASE SetCursor(w)
  <2>1. task' \in [Workers -> Tasks]
    BY Zenon, <1>0, <1>9, AdvancedTask, BecomeTask DEF SetCursor
  <2> QED BY Zenon, <1>0, <1>9, <2>1 DEF SetCursor, set_cursor
<1>10. CASE Abort(w)
  BY <1>10, IdleTask, BecomeTask DEF Abort
<1>11. CASE RecordDepositLostReply(w)
  <2>1. deposits' \in [Ops -> 0..1]
    BY Zenon, <1>11, RecordType DEF RecordDepositLostReply
  <2> QED BY <1>11, <2>1, IdleTask, BecomeTask DEF RecordDepositLostReply
<1>12. CASE SetCursorLostReply(w)
  BY <1>0, <1>12, IdleTask, BecomeTask DEF SetCursorLostReply, set_cursor
<1> QED BY Zenon, <1>1, <1>2, <1>3, <1>4, <1>5, <1>6, <1>7, <1>8, <1>9, <1>10, <1>11, <1>12
        DEF Step, Fault

\* Deposits are only added, so what was covered stays covered.
LEMMA DepositsGrow ==
    ASSUME TypeOK, NEW w \in Workers, Step(w) \/ Fault(w)
    PROVE  /\ credit' = credit
           /\ \A j \in Ops : deposits[j] = 1 => deposits'[j] = 1
           /\ \A c \in Int : Covered(c) => Covered(c)'
<1>1. credit' = credit
  BY Zenon DEF Step, Fault, GetCursor, Fetch, OpenStream, NextRecord, CloseStream, Process,
         FireDepositWebhook, ConfirmPaymentLink, SetCursor, Abort,
         RecordDepositLostReply, SetCursorLostReply
<1>2. \A j \in Ops : deposits[j] = 1 => deposits'[j] = 1
  <2>1. CASE Process(w)
    BY Zenon, <2>1, RecordType DEF Process, TypeOK
  <2>2. CASE RecordDepositLostReply(w)
    BY Zenon, <2>2, RecordType DEF RecordDepositLostReply, TypeOK
  <2>3. CASE ~ Process(w) /\ ~ RecordDepositLostReply(w)
    BY Zenon, <2>3 DEF Step, Fault, GetCursor, Fetch, OpenStream, NextRecord, CloseStream,
         FireDepositWebhook, ConfirmPaymentLink, SetCursor, Abort, SetCursorLostReply
  <2> QED BY Zenon, <2>1, <2>2, <2>3
<1> QED BY Zenon, <1>1, <1>2 DEF Covered, TypeOK

\* A step of a worker keeps the cursor and every worker behind the first
\* unrecorded deposit.
LEMMA CoveredWorker ==
    ASSUME TypeOK, TypeOK', NoSkippedDeposit, WorkersCovered,
           NEW w \in Workers, Step(w) \/ Fault(w)
    PROVE  NoSkippedDeposit' /\ WorkersCovered'
<1>0. /\ task \in [Workers -> Tasks] /\ task[w] \in Tasks /\ task[w].at \in 0..N
      /\ WorkerCovered(w) /\ cursor \in 0..N /\ landed \in 0..N
  BY Zenon DEF TypeOK, Tasks, WorkersCovered
<1>1. /\ credit' = credit
      /\ \A c \in Int : Covered(c) => Covered(c)'
  BY Zenon, DepositsGrow
<1> DEFINE Post == /\ \A v \in Workers : v # w => task'[v] = task[v]
                   /\ Covered(cursor)'
                   /\ WorkerCovered(w)'
<1>2. CASE Post
  <2>1. ASSUME NEW v \in Workers, v # w PROVE WorkerCovered(v)'
    <3>1. task'[v] = task[v] /\ task[v].at \in 0..N /\ WorkerCovered(v)
      BY Zenon, <1>2, <2>1 DEF TypeOK, Tasks, WorkersCovered
    <3> QED BY <3>1, <1>1 DEF WorkerCovered
  <2> QED BY Zenon, <1>2, <2>1 DEF WorkersCovered, NoSkippedDeposit, Covered
<1>3. Covered(cursor) /\ (cursor' = cursor => Covered(cursor)')
  BY <1>0, <1>1 DEF NoSkippedDeposit, Covered
<1>4. ASSUME NEW t \in Tasks, Become(w, t), cursor' = cursor,
             \/ t.pc = "idle"
             \/ t.pc \in {"fetch", "listen"} /\ Covered(t.at)
             \/ t.pc = "process" /\ t.at \in Ops /\ Covered(t.at - 1)
             \/ /\ t.pc \in {"notify", "match", "advance"} /\ t.at \in Ops
                /\ \A i \in credit : i <= t.at => deposits'[i] = 1
      PROVE  Post
  <2>1. task'[w] = t /\ \A v \in Workers : v # w => task'[v] = task[v]
    BY Zenon, <1>0, <1>4, BecomeTask
  <2>2. t.at \in 0..N /\ t.at - 1 \in Int
    BY <1>4 DEF Tasks
  <2> QED BY <1>1, <1>3, <1>4, <2>1, <2>2 DEF WorkerCovered, Covered
<1>5. CASE GetCursor(w)
  <2>1. PICK m \in {"poll", "stream"} :
          Become(w, [pc |-> "fetch", mode |-> m, at |-> cursor, last |-> 0])
    BY Zenon, <1>5 DEF GetCursor
  <2>2. [pc |-> "fetch", mode |-> m, at |-> cursor, last |-> 0] \in Tasks
    BY <1>0 DEF Tasks
  <2> QED BY Zenon, <1>2, <1>3, <1>4, <1>5, <2>1, <2>2 DEF GetCursor
<1>6. CASE Fetch(w)
  <2>1. CASE task[w].at < landed
    <3> DEFINE t == [pc |-> "process", mode |-> "poll", at |-> task[w].at + 1,
                     last |-> PageEnd(task[w].at)]
    <3>1. t \in Tasks /\ Become(w, t) /\ cursor' = cursor
      BY Zenon, <1>0, <1>6, <2>1, FetchedTask DEF Fetch
    <3>2. Covered(task[w].at)
      BY Zenon, <1>0, <1>6 DEF Fetch, WorkerCovered
    <3>3. t.pc = "process" /\ t.at \in Ops /\ t.at - 1 = task[w].at
      BY <1>0, <2>1 DEF Ops
    <3> HIDE DEF t
    <3> QED BY Zenon, <1>2, <1>4, <3>1, <3>2, <3>3
  <2>2. CASE ~ (task[w].at < landed)
    BY Zenon, <1>2, <1>4, <1>6, <2>2, IdleTask DEF Fetch
  <2> QED BY Zenon, <2>1, <2>2
<1>7. CASE OpenStream(w)
  <2>1. Covered(task[w].at)
    BY Zenon, <1>7, <1>0 DEF OpenStream, WorkerCovered
  <2> QED BY Zenon, <1>0, <1>2, <1>4, <1>7, <2>1, TaskAtPC DEF OpenStream, PCs
<1>8. CASE NextRecord(w)
  <2>1. Covered(task[w].at) /\ task[w].at < N
    BY <1>8, <1>0 DEF NextRecord, WorkerCovered
  <2>2. /\ NextOf(task[w]) \in Tasks /\ NextOf(task[w]).pc = "process"
        /\ NextOf(task[w]).at \in Ops /\ NextOf(task[w]).at - 1 = task[w].at
    BY <1>0, <2>1, TaskAtNext DEF Ops
  <2> QED BY Zenon, <1>2, <1>4, <1>8, <2>1, <2>2 DEF NextRecord
<1>9. CASE CloseStream(w) \/ Abort(w)
  BY Zenon, <1>2, <1>4, <1>9, IdleTask DEF CloseStream, Abort
<1>10. CASE Process(w)
  <2> DEFINE p == IF task[w].at \in credit /\ deposits[task[w].at] = 0
                  THEN "notify" ELSE "advance"
             t == [task[w] EXCEPT !.pc = p]
  <2>1. p \in PCs /\ p \in {"notify", "advance"}
    BY Zenon DEF PCs
  <2>2. Become(w, t) /\ cursor' = cursor
    BY Zenon, <1>10 DEF Process
  <2>3. task[w].at \in Ops /\ Covered(task[w].at - 1)
    BY Zenon, <1>0, <1>10 DEF Process, WorkerCovered
  <2>4. task[w].at \in credit => deposits'[task[w].at] = 1
    BY Zenon, <1>10, <2>3, RecordType DEF Process, TypeOK
  <2>5. \A i \in credit : i <= task[w].at => deposits'[i] = 1
    <3>1. \A i \in credit : i <= task[w].at - 1 => deposits'[i] = 1
      BY Zenon, <2>3, DepositsGrow DEF Covered, TypeOK
    <3>2. ASSUME NEW i \in credit, i <= task[w].at PROVE deposits'[i] = 1
      <4>2. credit \subseteq Ops
        BY Zenon DEF TypeOK
      <4>0. i \in Int /\ task[w].at \in Int
        BY ONLY <2>3, <3>2, <4>2, i \in credit, NAssumption DEF Ops
      <4>1. i = task[w].at \/ i <= task[w].at - 1
        BY <3>2, <4>0
      <4> QED BY Zenon, <2>4, <3>1, <4>1
    <3> QED BY Zenon, <3>2
  <2>6. t \in Tasks /\ t.pc = p /\ t.at = task[w].at
    <3> HIDE DEF p
    <3> QED BY Zenon, <1>0, <2>1, TaskAtPC
  <2> HIDE DEF t, p
  <2> QED BY Zenon, <1>2, <1>4, <2>1, <2>2, <2>3, <2>5, <2>6
<1>11. CASE FireDepositWebhook(w)
  <2>1. /\ task[w].at \in Ops /\ \A i \in credit : i <= task[w].at => deposits'[i] = 1
        /\ cursor' = cursor
    BY Zenon, <1>0, <1>11 DEF FireDepositWebhook, WorkerCovered, Covered
  <2> QED BY Zenon, <1>0, <1>2, <1>4, <1>11, <2>1, TaskAtPC DEF FireDepositWebhook, PCs
<1>12. CASE ConfirmPaymentLink(w)
  <2>1. /\ task[w].at \in Ops /\ \A i \in credit : i <= task[w].at => deposits'[i] = 1
        /\ cursor' = cursor
    BY Zenon, <1>0, <1>12 DEF ConfirmPaymentLink, WorkerCovered, Covered
  <2> QED BY Zenon, <1>0, <1>2, <1>4, <1>12, <2>1, TaskAtPC DEF ConfirmPaymentLink, PCs
<1>13. CASE RecordDepositLostReply(w)
  BY Zenon, <1>2, <1>4, <1>13, IdleTask DEF RecordDepositLostReply
<1>14. CASE SetCursor(w)
  <2>1. /\ cursor' = task[w].at /\ deposits' = deposits
        /\ Become(w, Advanced(task[w])) /\ Covered(task[w].at)
    BY Zenon, <1>0, <1>14 DEF SetCursor, set_cursor, WorkerCovered
  <2>2. Covered(cursor)'
    BY Zenon, <1>1, <2>1 DEF Covered
  <2> DEFINE t == Advanced(task[w])
  <2>3. /\ t \in Tasks
        /\ \/ t.pc = "idle"
           \/ t.pc = "listen" /\ t.at = task[w].at
           \/ t.pc = "process" /\ t.at = task[w].at + 1 /\ task[w].at < N
    BY Zenon, <1>0, AdvancedTask
  <2>4. task'[w] = t /\ \A v \in Workers : v # w => task'[v] = task[v]
    BY Zenon, <1>0, <2>1, <2>3, BecomeTask
  <2>5. WorkerCovered(w)'
    <3> HIDE DEF t
    <3>1. CASE t.pc = "idle"
      BY Zenon, <2>4, <3>1 DEF WorkerCovered
    <3>2. CASE t.pc = "listen" /\ t.at = task[w].at
      BY Zenon, <1>1, <2>1, <2>4, <3>2 DEF WorkerCovered, Covered
    <3>3. CASE t.pc = "process" /\ t.at = task[w].at + 1 /\ task[w].at < N
      <4>1. t.at \in Ops /\ t.at - 1 = task[w].at
        BY <1>0, <3>3 DEF Ops
      <4> QED BY Zenon, <1>1, <2>1, <2>4, <3>3, <4>1 DEF WorkerCovered, Covered
    <3> QED BY Zenon, <2>3, <3>1, <3>2, <3>3
  <2> QED BY Zenon, <1>2, <2>2, <2>4, <2>5
<1>15. CASE SetCursorLostReply(w)
  <2>1. /\ cursor' = task[w].at /\ deposits' = deposits
        /\ Become(w, Idle) /\ Covered(task[w].at)
    BY Zenon, <1>0, <1>15 DEF SetCursorLostReply, set_cursor, WorkerCovered
  <2>2. Covered(cursor)'
    BY Zenon, <1>1, <2>1 DEF Covered
  <2>3. task'[w].pc = "idle" /\ \A v \in Workers : v # w => task'[v] = task[v]
    BY Zenon, <1>0, <2>1, IdleTask, BecomeTask
  <2> QED BY Zenon, <1>2, <2>2, <2>3 DEF WorkerCovered
<1> QED BY Zenon, <1>5, <1>6, <1>7, <1>8, <1>9, <1>10, <1>11, <1>12, <1>13, <1>14, <1>15
        DEF Step, Fault

\* A step of a worker keeps the notifications at most one per operation.
LEMMA NotifyWorker ==
    ASSUME TypeOK, TypeOK', WorkersCovered, NotifierOwnsDeposit, NotifiedAtMostOnce,
           NEW w \in Workers, Step(w) \/ Fault(w)
    PROVE  NotifierOwnsDeposit' /\ NotifiedAtMostOnce'
<1> DEFINE i == task[w].at
<1>0. /\ task \in [Workers -> Tasks] /\ task[w] \in Tasks
      /\ created \in [Ops -> Nat] /\ matched \in [Ops -> Nat]
      /\ deposits \in [Ops -> 0..1] /\ credit \subseteq Ops
  BY Zenon DEF TypeOK
<1>1. credit' = credit /\ \A j \in Ops : deposits[j] = 1 => deposits'[j] = 1
  BY Zenon, DepositsGrow
<1>2. ASSUME created' = created, matched' = matched,
             NEW t \in Tasks, Become(w, t), t.pc \notin {"notify", "match"}
      PROVE  NotifierOwnsDeposit' /\ NotifiedAtMostOnce'
  <2>1. task'[w] = t /\ \A v \in Workers : v # w => task'[v] = task[v]
    BY Zenon, <1>0, <1>2, BecomeTask
  <2>2. NotifiedAtMostOnce'
    BY Zenon, <1>0, <1>1, <1>2 DEF NotifiedAtMostOnce
  <2>3. \A v \in Workers : Notifying(v)' => v # w /\ Notifying(v) /\ task'[v] = task[v]
    BY Zenon, <1>2, <2>1 DEF Notifying
  <2>4. ASSUME NEW v \in Workers PROVE OwnsDeposit(v)'
    BY <1>0, <1>1, <1>2, <2>3 DEF OwnsDeposit, NotifierOwnsDeposit
  <2> QED BY Zenon, <2>2, <2>3, <2>4 DEF NotifierOwnsDeposit
<1>3. CASE GetCursor(w)
  <2>1. PICK m \in {"poll", "stream"} :
          Become(w, [pc |-> "fetch", mode |-> m, at |-> cursor, last |-> 0])
    BY Zenon, <1>3 DEF GetCursor
  <2>2. [pc |-> "fetch", mode |-> m, at |-> cursor, last |-> 0] \in Tasks
    BY DEF Tasks, TypeOK
  <2> QED BY Zenon, <1>2, <1>3, <2>1, <2>2 DEF GetCursor
<1>4. CASE Fetch(w)
  <2>1. CASE task[w].at < landed
    <3>1. [pc |-> "process", mode |-> "poll", at |-> task[w].at + 1,
           last |-> PageEnd(task[w].at)] \in Tasks
      BY Zenon, <1>0, <2>1, FetchedTask DEF TypeOK, Tasks
    <3> QED BY Zenon, <1>2, <1>4, <2>1, <3>1 DEF Fetch
  <2>2. CASE ~ (task[w].at < landed)
    BY Zenon, <1>2, <1>4, <2>2, IdleTask DEF Fetch
  <2> QED BY Zenon, <2>1, <2>2
<1>5. CASE OpenStream(w)
  BY Zenon, <1>0, <1>2, <1>5, TaskAtPC DEF OpenStream, PCs
<1>6. CASE NextRecord(w)
  <2>1. task[w].at < N
    BY <1>0, <1>6 DEF NextRecord, TypeOK, Tasks
  <2> QED BY Zenon, <1>0, <1>2, <1>6, <2>1, TaskAtNext DEF NextRecord
<1>7. CASE CloseStream(w) \/ Abort(w) \/ RecordDepositLostReply(w) \/ SetCursorLostReply(w)
  BY Zenon, <1>2, <1>7, IdleTask
     DEF CloseStream, Abort, RecordDepositLostReply, SetCursorLostReply
<1>8. CASE SetCursor(w)
  <2>1. Advanced(task[w]) \in Tasks /\ Advanced(task[w]).pc \notin {"notify", "match"}
    BY Zenon, <1>0, AdvancedTask
  <2> QED BY Zenon, <1>2, <1>8, <2>1 DEF SetCursor
<1>9. CASE Process(w)
  <2>1. CASE ~ (i \in credit /\ deposits[i] = 0)
    BY Zenon, <1>0, <1>2, <1>9, <2>1, TaskAtPC DEF Process, PCs
  <2>2. CASE i \in credit /\ deposits[i] = 0
    <3>1. /\ task'[w].pc = "notify" /\ task'[w].at = i
          /\ \A v \in Workers : v # w => task'[v] = task[v]
          /\ created' = created /\ matched' = matched /\ deposits' = record_deposit(i)
      <4>1. /\ Become(w, [task[w] EXCEPT !.pc = "notify"])
            /\ created' = created /\ matched' = matched /\ deposits' = record_deposit(i)
        BY Zenon, <1>9, <2>2 DEF Process
      <4> QED BY Zenon, <1>0, <4>1, TaskMoved DEF PCs
    <3>2. i \in Ops /\ created[i] = 0 /\ matched[i] = 0 /\ deposits'[i] = 1
      <4>1. i \in Ops
        BY Zenon, <1>0, <2>2
      <4>2. created[i] = 0 /\ matched[i] = 0
        BY <1>0, <2>2, <4>1 DEF NotifiedAtMostOnce
      <4> QED BY Zenon, <1>0, <3>1, <4>1, <4>2, RecordType
    <3>3. NotifiedAtMostOnce'
      BY Zenon, <1>0, <1>1, <3>1 DEF NotifiedAtMostOnce
    <3>4. \A v \in Workers : v # w /\ Notifying(v)' =>
             Notifying(v) /\ task'[v] = task[v] /\ task[v].at # i
      BY <2>2, <3>1 DEF Notifying, NotifierOwnsDeposit, OwnsDeposit
    <3>5. OwnsDeposit(w)'
      BY Zenon, <1>1, <2>2, <3>1, <3>2 DEF OwnsDeposit
    <3>6. ASSUME NEW v \in Workers, v # w PROVE OwnsDeposit(v)'
      <4>1. CASE ~ Notifying(v)'
        BY Zenon, <4>1 DEF OwnsDeposit
      <4>2. CASE Notifying(v)'
        <5>1. Notifying(v) /\ task'[v] = task[v] /\ OwnsDeposit(v)
          BY Zenon, <3>4, <3>6, <4>2 DEF NotifierOwnsDeposit
        <5> QED BY Zenon, <1>0, <1>1, <3>1, <5>1 DEF OwnsDeposit
      <4> QED BY Zenon, <4>1, <4>2
    <3> HIDE DEF i
    <3>7. \A u, v \in Workers :
             Notifying(u)' /\ Notifying(v)' /\ task'[u].at = task'[v].at => u = v
      BY Zenon, <3>1, <3>4 DEF NotifierOwnsDeposit
    <3> QED BY Zenon, <3>3, <3>5, <3>6, <3>7 DEF NotifierOwnsDeposit
  <2> QED BY Zenon, <2>1, <2>2
<1>10. CASE FireDepositWebhook(w)
  <2>1. /\ task'[w].pc = "match" /\ task'[w].at = i
        /\ \A v \in Workers : v # w => task'[v] = task[v]
        /\ matched' = matched /\ deposits' = deposits
        /\ created' = [created EXCEPT ![i] = @ + 1]
    BY Zenon, <1>0, <1>10, TaskMoved DEF FireDepositWebhook, PCs
  <2>2. /\ Notifying(w) /\ i \in credit /\ i \in Ops
        /\ deposits[i] = 1 /\ matched[i] = 0 /\ created[i] = 0
    BY Zenon, <1>0, <1>10 DEF FireDepositWebhook, Notifying, NotifierOwnsDeposit, OwnsDeposit
  <2> HIDE DEF i
  <2>3. created'[i] = 1 /\ \A j \in Ops : j # i => created'[j] = created[j]
    BY <1>0, <2>1, <2>2, CountOne
  <2>4. NotifiedAtMostOnce'
    BY <1>0, <1>1, <2>1, <2>2, <2>3 DEF NotifiedAtMostOnce
  <2>5. \A v \in Workers : v # w /\ Notifying(v)' =>
           Notifying(v) /\ task'[v] = task[v] /\ task[v].at # i
    BY Zenon, <2>1, <2>2 DEF Notifying, NotifierOwnsDeposit, i
  <2>6. OwnsDeposit(w)'
    BY Zenon, <1>1, <2>1, <2>2 DEF OwnsDeposit
  <2>7. ASSUME NEW v \in Workers, v # w PROVE OwnsDeposit(v)'
    <3>1. CASE ~ Notifying(v)'
      BY Zenon, <3>1 DEF OwnsDeposit
    <3>2. CASE Notifying(v)'
      <4>1. Notifying(v) /\ task'[v] = task[v] /\ task[v].at # i /\ OwnsDeposit(v)
        BY Zenon, <2>5, <2>7, <3>2 DEF NotifierOwnsDeposit
      <4> QED BY Zenon, <1>0, <1>1, <2>1, <2>3, <4>1 DEF OwnsDeposit
    <3> QED BY Zenon, <3>1, <3>2
  <2>8. \A u, v \in Workers :
           Notifying(u)' /\ Notifying(v)' /\ task'[u].at = task'[v].at => u = v
    BY Zenon, <2>1, <2>5 DEF NotifierOwnsDeposit
  <2> QED BY Zenon, <2>4, <2>6, <2>7, <2>8 DEF NotifierOwnsDeposit
<1>11. CASE ConfirmPaymentLink(w)
  <2>1. /\ task'[w].pc = "advance" /\ task'[w].at = i
        /\ \A v \in Workers : v # w => task'[v] = task[v]
        /\ created' = created /\ deposits' = deposits
        /\ matched' = [matched EXCEPT ![i] = @ + 1]
    BY Zenon, <1>0, <1>11, TaskMoved DEF ConfirmPaymentLink, PCs
  <2>2. /\ Notifying(w) /\ i \in credit /\ i \in Ops
        /\ deposits[i] = 1 /\ matched[i] = 0
    BY Zenon, <1>0, <1>11 DEF ConfirmPaymentLink, Notifying, NotifierOwnsDeposit, OwnsDeposit
  <2> HIDE DEF i
  <2>3. matched'[i] = 1 /\ \A j \in Ops : j # i => matched'[j] = matched[j]
    BY <1>0, <2>1, <2>2, CountOne
  <2>4. NotifiedAtMostOnce'
    BY <1>0, <1>1, <2>1, <2>2, <2>3 DEF NotifiedAtMostOnce
  <2>5. \A v \in Workers : Notifying(v)' =>
           v # w /\ Notifying(v) /\ task'[v] = task[v] /\ task[v].at # i
    BY Zenon, <2>1, <2>2 DEF Notifying, NotifierOwnsDeposit, i
  <2>6. ASSUME NEW v \in Workers PROVE OwnsDeposit(v)'
    <3>1. CASE ~ Notifying(v)'
      BY Zenon, <3>1 DEF OwnsDeposit
    <3>2. CASE Notifying(v)'
      <4>1. Notifying(v) /\ task'[v] = task[v] /\ task[v].at # i /\ OwnsDeposit(v)
        BY Zenon, <2>5, <3>2 DEF NotifierOwnsDeposit
      <4> QED BY Zenon, <1>0, <1>1, <2>1, <2>3, <4>1 DEF OwnsDeposit
    <3> QED BY Zenon, <3>1, <3>2
  <2>7. \A u, v \in Workers :
           Notifying(u)' /\ Notifying(v)' /\ task'[u].at = task'[v].at => u = v
    BY Zenon, <2>5 DEF NotifierOwnsDeposit
  <2> QED BY Zenon, <2>4, <2>6, <2>7 DEF NotifierOwnsDeposit
<1> QED BY Zenon, <1>3, <1>4, <1>5, <1>6, <1>7, <1>8, <1>9, <1>10, <1>11 DEF Step, Fault

\* Every step of the system preserves the inductive invariant.
LEMMA NextIInv == IInv /\ [Next]_vars => IInv'
<1> SUFFICES ASSUME IInv, [Next]_vars PROVE IInv'
  BY Zenon
<1>1. ASSUME NEW w \in Workers, Step(w) \/ Fault(w) PROVE IInv'
  BY Zenon, <1>1, TypeWorker, CoveredWorker, NotifyWorker DEF IInv
<1>2. CASE Land \/ UNCHANGED vars
  <2>1. UNCHANGED <<credit, cursor, deposits, created, matched, task, aborts, lost>>
    BY Zenon, <1>2 DEF Land, vars
  <2>2. TypeOK'
    BY <1>2, <2>1 DEF IInv, TypeOK, Land, vars
  <2> QED BY Zenon, <2>1, <2>2 DEF IInv, NoSkippedDeposit, WorkersCovered, WorkerCovered,
        Covered, NotifierOwnsDeposit, OwnsDeposit, Notifying, NotifiedAtMostOnce
<1> QED BY Zenon, <1>1, <1>2 DEF Next

\* Type correctness of the ingest model.
THEOREM TypeCorrect == Spec => []TypeOK
<1>1. IInv => TypeOK
  BY Zenon DEF IInv
<1> QED BY InitIInv, NextIInv, <1>1, PTL DEF Spec

\* The durable cursor never passes a deposit that is not recorded, for any
\* number of overlapping workers and any kills, errors and lost replies.
THEOREM NoDepositSkipped == Spec => []NoSkippedDeposit
<1>1. IInv => NoSkippedDeposit
  BY Zenon DEF IInv
<1> QED BY InitIInv, NextIInv, <1>1, PTL DEF Spec

\* deposit.created and the payment-link match happen at most once per operation,
\* and only for a recorded deposit.
THEOREM AtMostOneNotification == Spec => []NotifiedAtMostOnce
<1>1. IInv => NotifiedAtMostOnce
  BY Zenon DEF IInv
<1> QED BY InitIInv, NextIInv, <1>1, PTL DEF Spec

(***************************************************************************)
(* The safety properties of IngestLeader, for any number of replicas and   *)
(* of faults.  Together they are inductive.                                *)
(***************************************************************************)

\* The inductive invariant: the three properties themselves.
LeaderInv == LeaderTypeOK /\ TermOwnsStream /\ MarkHasStream

\* Replicas that stand by, without streams.
LEMMA LeaderStarts == LeaderInit => LeaderInv
<1> SUFFICES ASSUME LeaderInit PROVE LeaderInv
  BY Zenon
<1>1. LeaderTypeOK
  <2>1. shut \in [Replicas -> BOOLEAN] /\ live \in [Replicas -> BOOLEAN] /\ panicked \in BOOLEAN
    BY Zenon DEF LeaderInit
  <2>2. pages \in [Replicas -> 0..MaxPages - 1] /\ faults \in 0..MaxFaults
    BY LeaderAssumption DEF LeaderInit
  <2>3. wanted \in BOOLEAN /\ paused \in BOOLEAN
    BY Zenon DEF LeaderInit
  <2> QED BY Zenon, <2>1, <2>2, <2>3 DEF LeaderInit, LeaderTypeOK
<1>2. TermOwnsStream
  BY Zenon DEF LeaderInit, TermOwnsStream
<1>3. MarkHasStream
  <2>1. \A r \in Replicas : ~live[r]
    BY Zenon DEF LeaderInit
  <2> QED BY Zenon, <2>1 DEF MarkHasStream, Stale
<1> QED BY Zenon, <1>1, <1>2, <1>3 DEF LeaderInv

\* A step of one replica's supervisor keeps the invariant.
LEMMA SuperviseInv ==
    ASSUME LeaderInv, NEW r \in Replicas, Supervise(r)
    PROVE  LeaderInv'
<1> USE LeaderAssumption DEF LeaderInv, LeaderTypeOK, Goto, OneFault, wallet, Term
<1>1. CASE wait_for_leadership(r)
  BY Zenon, <1>1 DEF wait_for_leadership, TermOwnsStream, MarkHasStream, Stale
<1>2. CASE still_held(r)
  BY Zenon, <1>2 DEF still_held, TermOwnsStream, MarkHasStream, Stale
<1>3. CASE sync_streams(r)
  <2>1. CASE UNCHANGED <<own, left>>
    BY <1>3, <2>1 DEF sync_streams, TermOwnsStream, MarkHasStream, Stale
  <2>2. CASE sync(r)
    <3>1. LeaderTypeOK'
      BY <1>3, <2>2 DEF sync_streams, sync, Running, Dropped
    <3>2. TermOwnsStream'
      BY Zenon, <1>3, <2>2 DEF sync_streams, sync, TermOwnsStream
    <3>3. "open" \in {own[r], left[r]} => "open" \in {own'[r], left'[r]}
      BY Zenon, <2>2 DEF sync, Dropped, Running
    <3>4. MarkHasStream'
      BY Zenon, <1>3, <2>2, <3>3 DEF sync_streams, sync, MarkHasStream, Stale
    <3> QED BY Zenon, <3>1, <3>2, <3>4
  <2> QED BY Zenon, <1>3, <2>1, <2>2 DEF sync_streams
<1>4. CASE tick(r)
  BY <1>4 DEF tick, TermOwnsStream, MarkHasStream, Stale
<1>5. CASE settle(r)
  BY <1>5 DEF settle, TermOwnsStream, MarkHasStream, Stale
<1>6. CASE stop(r)
  BY Zenon, <1>6 DEF stop, TermOwnsStream, MarkHasStream, Stale
<1>7. CASE release(r)
  BY Zenon, <1>7 DEF release, Running, TermOwnsStream, MarkHasStream, Stale
<1> QED BY Zenon, <1>1, <1>2, <1>3, <1>4, <1>5, <1>6, <1>7 DEF Supervise

\* A step of a stream keeps the invariant, whichever of the two it is.
LEMMA StreamInv ==
    ASSUME LeaderInv, NEW r \in Replicas, NEW k \in Kinds, Streaming(r, k) \/ Panic(r, k)
    PROVE  LeaderInv'
<1>0. LeaderTypeOK /\ TermOwnsStream /\ MarkHasStream
  BY Zenon DEF LeaderInv
<1>1. /\ UNCHANGED <<wallet, holder, pc, shut, pages>>
      /\ faults' \in 0..MaxFaults /\ panicked' \in BOOLEAN /\ (panicked => panicked')
  <2>1. UNCHANGED <<wallet, holder, pc, shut, pages>>
    BY Zenon DEF Streaming, run_stream, open_payment_stream, end_session, Panic
  <2>2. faults' \in 0..MaxFaults
    BY <1>0, LeaderAssumption DEF Streaming, run_stream, open_payment_stream, end_session,
                                  Panic, OneFault, LeaderTypeOK
  <2>3. panicked' = panicked \/ panicked' = TRUE
    BY Zenon DEF Streaming, run_stream, open_payment_stream, end_session, Panic
  <2>4. panicked' \in BOOLEAN /\ (panicked => panicked')
    BY <1>0, <2>3, Zenon DEF LeaderTypeOK
  <2> QED BY Zenon, <2>1, <2>2, <2>4
<1>2. /\ Task(r, k) # "none"
      /\ \E x \in {"start", "connect", "open", "finished"} : Turns(r, k, x)
  BY Zenon DEF Streaming, run_stream, open_payment_stream, end_session, Panic
<1>3. /\ own' \in [Replicas -> {"none", "start", "connect", "open", "finished"}]
      /\ left' \in [Replicas -> {"none", "start", "connect", "open"}]
      /\ own[r] = "none" => own'[r] = "none"
      /\ \A q \in Replicas : q # r => own'[q] = own[q] /\ left'[q] = left[q]
  BY <1>0, <1>2 DEF Turns, Task, Kinds, LeaderTypeOK
<1>4. /\ live' \in [Replicas -> BOOLEAN]
      /\ \A q \in Replicas : q # r => live'[q] = live[q]
  BY Zenon, <1>0 DEF Streaming, run_stream, open_payment_stream, end_session, Panic, Clear, LeaderTypeOK
<1>5. Stale(r)' => panicked'
  <2>1. CASE Clear(r)
    BY Zenon, <1>0, <2>1 DEF Clear, Stale, LeaderTypeOK
  <2>2. CASE panicked'
    BY Zenon, <2>2
  <2>3. CASE Turns(r, k, "open")
    <3>1. own'[r] = "open" \/ left'[r] = "open"
      BY Zenon, <1>0, <2>3 DEF Turns, LeaderTypeOK
    <3> QED BY Zenon, <3>1 DEF Stale
  <2>4. CASE run_stream(r, k) /\ Turns(r, k, "connect") /\ UNCHANGED live
    <3>1. (own[r] = "open" => own'[r] = "open") /\ (left[r] = "open" => left'[r] = "open")
      BY Zenon, <1>0, <2>4 DEF run_stream, Turns, Task, Kinds, LeaderTypeOK
    <3>2. Stale(r)' => Stale(r)
      BY Zenon, <2>4, <3>1 DEF Stale
    <3> QED BY Zenon, <1>0, <1>1, <3>2 DEF MarkHasStream
  <2> QED BY Zenon, <2>1, <2>2, <2>3, <2>4
          DEF Streaming, run_stream, open_payment_stream, end_session, Panic
<1>6. LeaderTypeOK'
  BY Zenon, <1>0, <1>1, <1>3, <1>4 DEF LeaderTypeOK, wallet
<1>7. TermOwnsStream'
  BY Zenon, <1>0, <1>1, <1>3 DEF TermOwnsStream
<1>8. MarkHasStream'
  <2> SUFFICES ASSUME NEW q \in Replicas, q # r PROVE Stale(q)' => panicked'
    BY Zenon, <1>5 DEF MarkHasStream
  <2>1. Stale(q)' => Stale(q)
    BY Zenon, <1>3, <1>4 DEF Stale
  <2> QED BY Zenon, <1>0, <1>1, <2>1 DEF MarkHasStream
<1> QED BY Zenon, <1>6, <1>7, <1>8 DEF LeaderInv

\* Every step keeps the invariant.
LEMMA LeaderNextInv == LeaderInv /\ [LeaderNext]_leadervars => LeaderInv'
<1> SUFFICES ASSUME LeaderInv, [LeaderNext]_leadervars PROVE LeaderInv'
  BY Zenon
<1>1. CASE UNCHANGED leadervars
  BY Zenon, <1>1 DEF leadervars, wallet, LeaderInv, LeaderTypeOK, TermOwnsStream, MarkHasStream, Stale
<1>2. CASE SetFlags
  BY Zenon, <1>2 DEF SetFlags, LeaderInv, LeaderTypeOK, TermOwnsStream, MarkHasStream, Stale
<1>3. CASE LoseSession
  BY <1>3, LeaderAssumption
     DEF LoseSession, OneFault, wallet, LeaderInv, LeaderTypeOK, TermOwnsStream, MarkHasStream, Stale
<1>4. ASSUME NEW r \in Replicas, Shutdown(r) PROVE LeaderInv'
  BY <1>4, LeaderAssumption
     DEF Shutdown, OneFault, wallet, LeaderInv, LeaderTypeOK, TermOwnsStream, MarkHasStream, Stale
<1>5. ASSUME NEW r \in Replicas, Restart(r) \/ Kill(r) PROVE LeaderInv'
  <2>1. Fresh(r) /\ faults' \in 0..MaxFaults
    BY <1>5, LeaderAssumption DEF Restart, Kill, OneFault, LeaderInv, LeaderTypeOK
  <2> QED BY <2>1, LeaderAssumption
     DEF Fresh, Clear, Goto, wallet, LeaderInv, LeaderTypeOK, TermOwnsStream, MarkHasStream, Stale, Term
<1> QED BY Zenon, <1>1, <1>2, <1>3, <1>4, <1>5, SuperviseInv, StreamInv DEF LeaderNext

\* The invariant holds throughout.
LEMMA LeaderInvariance == LeaderSpec => []LeaderInv
BY LeaderStarts, LeaderNextInv, PTL DEF LeaderSpec

\* The state stays within its type: no tick polls more pages than its budget.
THEOREM LeaderTypeCorrect == LeaderSpec => []LeaderTypeOK
BY LeaderInvariance, PTL DEF LeaderInv

\* No leadership term leaves the stream it has for the wallet behind.
THEOREM TermEndsStream == LeaderSpec => []TermOwnsStream
BY LeaderInvariance, PTL DEF LeaderInv

\* Without a panic, the tick passes over a wallet only while a session is open for it.
THEOREM MarksAreBacked == LeaderSpec => []MarkHasStream
BY LeaderInvariance, PTL DEF LeaderInv

(***************************************************************************)
(* AuditChain.                                                             *)
(***************************************************************************)

(* A sequence cut before its i-th element and given that element is cut    *)
(* after it: what the hash of row i of a chain is.                         *)
LEMMA Cut ==
    ASSUME NEW S, NEW h \in Seq(S), NEW i \in 1..Len(h)
    PROVE  /\ SubSeq(h, 1, i - 1) \in Seq(S)
           /\ Append(SubSeq(h, 1, i - 1), h[i]) = SubSeq(h, 1, i)
<1>1. SubSeq(h, 1, i - 1) \in Seq(S) /\ SubSeq(h, 1, i) \in Seq(S) /\ h[i] \in S
  OBVIOUS
<1>2. Len(SubSeq(h, 1, i - 1)) = i - 1 /\ Len(SubSeq(h, 1, i)) = i
  OBVIOUS
<1>3. \A j \in 1..i : Append(SubSeq(h, 1, i - 1), h[i])[j] = SubSeq(h, 1, i)[j]
  BY <1>1, <1>2
<1>4. /\ Append(SubSeq(h, 1, i - 1), h[i]) \in Seq(S)
      /\ Len(Append(SubSeq(h, 1, i - 1), h[i])) = i
  BY <1>1, <1>2
<1> QED BY Zenon, <1>1, <1>2, <1>3, <1>4, SeqEqual

(* The link fields of row i of a chain are the i-th of its fields.         *)
LEMMA RowFields ==
    ASSUME NEW prev, NEW f \in Entry
    PROVE  /\ LinkFields(Row(prev, f)) = f /\ Row(prev, f).seq = f.seq
           /\ Row(prev, f).prev = prev /\ Row(prev, f).hash = Append(prev, f)
BY Zenon DEF LinkFields, Row, row_hash, Entry

(* A row made of a hash and fields is a row of the table.                  *)
LEMMA RowStored ==
    ASSUME NEW prev \in Seq(Entry), NEW f \in Entry
    PROVE  Row(prev, f) \in Rows /\ Row(prev, f).seq = f.seq
<1>1. Append(prev, f) \in Seq(Entry)
  OBVIOUS
<1>2. f.seq \in Nat \ {0} /\ f.action \in Actions \cup {"deleted"} /\ f.pii \in BOOLEAN
  BY Zenon DEF Entry
<1> QED BY Zenon, <1>1, <1>2 DEF Row, Rows, row_hash

(* The rows of a numbered sequence of fields are a chain that ends with    *)
(* its hash.                                                               *)
LEMMA ChainLinked ==
    ASSUME NEW h, Numbered(h)
    PROVE  Linked(ChainOf(h), h)
<1> DEFINE row(i) == Row(SubSeq(h, 1, i - 1), h[i])
<1>1. h \in Seq(Entry) /\ Len(h) \in Nat /\ \A i \in 1..Len(h) : h[i].seq = i /\ h[i] \in Entry
  BY DEF Numbered
<1>2. \A i \in 1..Len(h) : /\ row(i).seq = i /\ row(i).prev = SubSeq(h, 1, i - 1)
                           /\ row(i).hash = SubSeq(h, 1, i)
                           /\ row(i).hash = row_hash(row(i).prev, LinkFields(row(i)))
  <2> TAKE i \in 1..Len(h)
  <2> DEFINE p == SubSeq(h, 1, i - 1)
  <2>1. Append(p, h[i]) = SubSeq(h, 1, i) /\ h[i] \in Entry /\ h[i].seq = i
    BY Zenon, <1>1, Cut
  <2> HIDE DEF p
  <2>2. /\ LinkFields(Row(p, h[i])) = h[i] /\ Row(p, h[i]).seq = h[i].seq
        /\ Row(p, h[i]).prev = p /\ Row(p, h[i]).hash = Append(p, h[i])
    BY Zenon, <2>1, RowFields
  <2>3. row(i) = Row(p, h[i])
    BY Zenon DEF p
  <2> HIDE DEF row
  <2>4. /\ row(i).seq = i /\ row(i).prev = p /\ row(i).hash = SubSeq(h, 1, i)
        /\ row(i).hash = row_hash(row(i).prev, LinkFields(row(i)))
    BY Zenon, <2>1, <2>2, <2>3 DEF row_hash
  <2> QED BY Zenon, <2>4 DEF p
<1>3. ChainOf(h) = {row(i) : i \in 1..Len(h)}
  BY Zenon DEF ChainOf
<1> HIDE DEF row
<1>4. ASSUME NEW i \in 1..Len(h) PROVE Follows(ChainOf(h), row(i))
  <2>1. CASE i = 1
    <3>1. SubSeq(h, 1, 0) = << >>
      BY <1>1
    <3> QED BY <1>2, <2>1, <3>1 DEF Follows, Genesis
  <2>2. CASE i # 1
    <3>1. i - 1 \in 1..Len(h) /\ i \in Nat
      BY <1>1, <2>2
    <3>2. row(i - 1) \in ChainOf(h) /\ row(i - 1).seq = i - 1 /\ row(i - 1).hash = row(i).prev
      BY Zenon, <1>2, <1>3, <3>1
    <3> QED BY Zenon, <1>2, <2>2, <3>2 DEF Follows
  <2> QED BY Zenon, <2>1, <2>2
<1>5. SubSeq(h, 1, Len(h)) = h
  BY <1>1
<1>6. \A r \in ChainOf(h) : Follows(ChainOf(h), r) /\ r.seq \in 1..Len(h)
  BY Zenon, <1>2, <1>3, <1>4
<1>7. \A i \in 1..Len(h) : \E r \in ChainOf(h) : r.seq = i
  BY Zenon, <1>2, <1>3
<1>8. \A r \in ChainOf(h) : r.seq = Len(h) => r.hash = h
  BY <1>2, <1>3, <1>5
<1> QED BY Zenon, <1>6, <1>7, <1>8 DEF Linked

(* A link appended to a numbered chain leaves one (append_link).           *)
LEMMA Appended ==
    ASSUME NEW h, Numbered(h), NEW f \in Entry, f.seq = Len(h) + 1
    PROVE  /\ Numbered(Append(h, f))
           /\ ChainOf(h) \cup {Row(h, f)} = ChainOf(Append(h, f))
<1> DEFINE g == Append(h, f)
<1>1. h \in Seq(Entry) /\ Len(h) \in Nat /\ \A i \in 1..Len(h) : h[i].seq = i
  BY DEF Numbered
<1>2. /\ g \in Seq(Entry) /\ Len(g) = Len(h) + 1 /\ g[Len(h) + 1] = f
      /\ \A i \in 1..Len(h) : g[i] = h[i]
  BY <1>1
<1>3. ASSUME NEW i \in 1..(Len(h) + 1) PROVE SubSeq(g, 1, i - 1) = SubSeq(h, 1, i - 1)
  <2>1. /\ SubSeq(g, 1, i - 1) \in Seq(Entry) /\ SubSeq(h, 1, i - 1) \in Seq(Entry)
        /\ Len(SubSeq(g, 1, i - 1)) = i - 1 /\ Len(SubSeq(h, 1, i - 1)) = i - 1
    BY <1>1, <1>2
  <2>2. \A j \in 1..(i - 1) : SubSeq(g, 1, i - 1)[j] = SubSeq(h, 1, i - 1)[j]
    BY <1>1, <1>2
  <2> QED BY Zenon, <2>1, <2>2, SeqEqual
<1>4. SubSeq(h, 1, Len(h)) = h
  BY <1>1
<1> HIDE DEF g
<1>5. Numbered(g)
  BY <1>1, <1>2 DEF Numbered
<1> DEFINE old(i) == Row(SubSeq(h, 1, i - 1), h[i])
           new(i) == Row(SubSeq(g, 1, i - 1), g[i])
<1>6. ASSUME NEW i \in 1..Len(h) PROVE new(i) = old(i)
  <2>1. SubSeq(g, 1, i - 1) = SubSeq(h, 1, i - 1) /\ g[i] = h[i]
    BY <1>1, <1>2, <1>3
  <2> QED BY <2>1, Zenon
<1>7. new(Len(h) + 1) = Row(h, f)
  <2>1. SubSeq(g, 1, (Len(h) + 1) - 1) = SubSeq(h, 1, (Len(h) + 1) - 1) /\ (Len(h) + 1) - 1 = Len(h)
    BY <1>1, <1>3
  <2>2. SubSeq(g, 1, (Len(h) + 1) - 1) = h
    BY Zenon, <1>4, <2>1
  <2> QED BY <1>2, <2>2, Zenon
<1>8. ChainOf(h) = {old(i) : i \in 1..Len(h)} /\ ChainOf(g) = {new(i) : i \in 1..(Len(h) + 1)}
  BY Zenon, <1>2 DEF ChainOf
<1> HIDE DEF old, new
<1>9. ChainOf(h) \cup {Row(h, f)} = ChainOf(g)
  BY <1>1, <1>6, <1>7, <1>8
<1> QED BY Zenon, <1>5, <1>9 DEF g

(* A link is made of a position, an action and what it says of persons.    *)
LEMMA EntryMade ==
    ASSUME NEW n \in Nat \ {0}, NEW a \in Actions \cup {"deleted"}, NEW p \in BOOLEAN
    PROVE  /\ [seq |-> n, action |-> a, pii |-> p] \in Entry
           /\ [seq |-> n, action |-> a, pii |-> p].seq = n
BY Zenon DEF Entry

(* The rows of before the chain become its first ones (adopt_legacy_rows). *)
LEMMA AdoptedNumbered ==
    ASSUME NEW s \in Strays
    PROVE  Numbered(Adopted(s)) /\ Len(Adopted(s)) = Len(s)
<1> DEFINE e(i) == [seq |-> i, action |-> s[i].action, pii |-> s[i].pii]
<1> DEFINE S == [action : Actions, pii : BOOLEAN]
<1>0. s \in Seq(S)
  BY Zenon DEF Strays
<1> HIDE DEF S
<1>1. Len(s) \in Nat /\ \A i \in 1..Len(s) : i \in Nat \ {0} /\ s[i] \in S
  BY <1>0
<1>2. \A i \in 1..Len(s) : e(i) \in Entry /\ e(i).seq = i
  <2> TAKE i \in 1..Len(s)
  <2>1. i \in Nat \ {0} /\ s[i] \in [action : Actions, pii : BOOLEAN]
    BY <1>1, Zenon DEF S
  <2>2. s[i].action \in Actions \cup {"deleted"} /\ s[i].pii \in BOOLEAN
    BY <2>1, Zenon
  <2> QED BY <2>1, <2>2, EntryMade, Zenon
<1>3. Adopted(s) = [i \in 1..Len(s) |-> e(i)]
  BY Zenon DEF Adopted
<1> HIDE DEF e
<1>4. Adopted(s) \in [1..Len(s) -> Entry]
  BY Zenon, <1>2, <1>3
<1>5. Adopted(s) \in Seq(Entry) /\ Len(Adopted(s)) = Len(s)
  BY <1>1, <1>4
<1> QED BY Zenon, <1>2, <1>3, <1>5 DEF Numbered

(* So are the rows of a chain without what they say of persons             *)
(* (anonymise_chain).                                                      *)
LEMMA AnonymousNumbered ==
    ASSUME NEW h, Numbered(h)
    PROVE  Numbered(Anonymous(h)) /\ Len(Anonymous(h)) = Len(h)
<1> DEFINE e(i) == [seq |-> h[i].seq, action |-> h[i].action, pii |-> FALSE]
<1>1. h \in Seq(Entry) /\ Len(h) \in Nat /\ \A i \in 1..Len(h) : h[i].seq = i
  BY DEF Numbered
<1>2. \A i \in 1..Len(h) : e(i) \in Entry /\ e(i).seq = i
  <2> TAKE i \in 1..Len(h)
  <2>1. i \in Nat \ {0} /\ h[i] \in Entry /\ h[i].seq = i
    BY <1>1
  <2>2. h[i].action \in Actions \cup {"deleted"} /\ FALSE \in BOOLEAN
    BY <2>1, Zenon DEF Entry
  <2>3. h[i].seq \in Nat \ {0}
    BY <2>1, Zenon
  <2> QED BY <2>1, <2>2, <2>3, EntryMade, Zenon
<1>3. Anonymous(h) = [i \in 1..Len(h) |-> e(i)]
  BY Zenon DEF Anonymous
<1> HIDE DEF e
<1>4. Anonymous(h) \in [1..Len(h) -> Entry]
  BY Zenon, <1>2, <1>3
<1>5. Anonymous(h) \in Seq(Entry) /\ Len(Anonymous(h)) = Len(h)
  BY <1>1, <1>4
<1> QED BY Zenon, <1>2, <1>3, <1>5 DEF Numbered

(* Rows outside of the chain stay there when the account is deleted        *)
(* (anonymise_chain clears what they say of persons).                      *)
LEMMA ScrubbedStrays ==
    ASSUME NEW s \in Strays
    PROVE  Scrubbed(s) \in Strays /\ Len(Scrubbed(s)) = Len(s)
           /\ (Scrubbed(s) = << >> <=> s = << >>)
<1> DEFINE S == [action : Actions, pii : BOOLEAN]
           e(i) == [action |-> s[i].action, pii |-> FALSE]
<1>0. s \in Seq(S)
  BY Zenon DEF Strays
<1>1. \A i \in 1..Len(s) : e(i) \in S
  <2> TAKE i \in 1..Len(s)
  <2> HIDE DEF S
  <2>1. s[i] \in S
    BY <1>0
  <2>2. s[i].action \in Actions
    BY Zenon, <2>1 DEF S
  <2> QED BY Zenon, <2>2 DEF S
<1>2. Scrubbed(s) = [i \in 1..Len(s) |-> e(i)]
  BY Zenon DEF Scrubbed
<1> HIDE DEF S, e
<1>3. Len(s) \in Nat /\ (s = << >> <=> Len(s) = 0)
  BY <1>0
<1>4. Scrubbed(s) \in [1..Len(s) -> S]
  BY Zenon, <1>1, <1>2
<1>5. Scrubbed(s) \in Seq(S) /\ Len(Scrubbed(s)) = Len(s)
  BY <1>3, <1>4
<1>6. Scrubbed(s) = << >> <=> Len(Scrubbed(s)) = 0
  BY <1>5
<1> QED BY Zenon, <1>3, <1>5, <1>6 DEF Strays, S

(* The rows of a chain are rows, one to a position.                        *)
LEMMA ChainStored ==
    ASSUME NEW h, Numbered(h)
    PROVE  ChainOf(h) \subseteq Rows /\ \A r, q \in ChainOf(h) : r.seq = q.seq => r = q
<1> DEFINE row(i) == Row(SubSeq(h, 1, i - 1), h[i])
<1>1. h \in Seq(Entry) /\ Len(h) \in Nat /\ \A i \in 1..Len(h) : h[i].seq = i /\ h[i] \in Entry
  BY DEF Numbered
<1>2. ASSUME NEW i \in 1..Len(h) PROVE row(i) \in Rows /\ row(i).seq = i
  <2>1. SubSeq(h, 1, i - 1) \in Seq(Entry) /\ h[i] \in Entry /\ h[i].seq = i
    BY Zenon, <1>1, Cut
  <2> QED BY Zenon, <2>1, RowStored
<1>3. ChainOf(h) = {row(i) : i \in 1..Len(h)}
  BY Zenon DEF ChainOf
<1> HIDE DEF row
<1> QED BY <1>2, <1>3

(* A link appended to rows that leave its position free makes a chain of   *)
(* them exactly when they were one (append_link): it neither damages a     *)
(* chain nor covers damage up.                                             *)
LEMMA AppendedLinked ==
    ASSUME NEW rs \in SUBSET Rows, \A r, q \in rs : r.seq = q.seq => r = q,
           NEW h, Numbered(h), NEW f \in Entry, f.seq = Len(h) + 1,
           \A r \in rs : r.seq # Len(h) + 1
    PROVE  Linked(rs \cup {Row(h, f)}, Append(h, f)) <=> Linked(rs, h)
<1> DEFINE n == Row(h, f)
           g == Append(h, f)
           new == rs \cup {n}
<1>1. h \in Seq(Entry) /\ Len(h) \in Nat /\ g \in Seq(Entry) /\ Len(g) = Len(h) + 1
  BY DEF Numbered
<1>2. n.seq = Len(h) + 1 /\ n.prev = h /\ n.hash = g /\ LinkFields(n) = f
  BY Zenon, RowFields
<1>3. \A r \in rs : r.seq \in Nat \ {0}
  BY Zenon DEF Rows
<1> HIDE DEF n, g
<1>4. ASSUME Linked(rs, h) PROVE Linked(new, g)
  <2>1. \A r \in rs : Follows(new, r)
    BY Zenon, <1>4 DEF Linked, Follows
  <2>2. Follows(new, n)
    <3>1. n.hash = row_hash(n.prev, LinkFields(n))
      BY Zenon, <1>2 DEF row_hash, g
    <3>2. CASE Len(h) = 0
      BY <1>1, <1>2, <3>1, <3>2 DEF Follows, Genesis
    <3>3. CASE Len(h) # 0
      <4>1. PICK q \in rs : q.seq = Len(h) /\ q.hash = h
        BY <1>1, <1>4, <3>3 DEF Linked
      <4> QED BY <1>1, <1>2, <3>1, <3>3, <4>1 DEF Follows
    <3> QED BY Zenon, <3>2, <3>3
  <2>3. \A r \in new : r.seq \in 1..Len(g) /\ (r.seq = Len(g) => r.hash = g)
    BY <1>1, <1>2, <1>4 DEF Linked
  <2>4. \A i \in 1..Len(g) : \E r \in new : r.seq = i
    BY <1>1, <1>2, <1>4 DEF Linked
  <2> QED BY Zenon, <2>1, <2>2, <2>3, <2>4 DEF Linked
<1>5. ASSUME Linked(new, g) PROVE Linked(rs, h)
  <2>1. \A r \in rs : r.seq \in 1..Len(h)
    BY <1>1, <1>5 DEF Linked
  <2>2. ASSUME NEW r \in rs PROVE Follows(rs, r)
    <3>1. Follows(new, r)
      BY Zenon, <1>5 DEF Linked
    <3>2. \A q \in new : q.seq = r.seq - 1 => q \in rs
      BY <1>1, <1>2, <2>1
    <3> QED BY Zenon, <3>1, <3>2 DEF Follows
  <2>3. \A i \in 1..Len(h) : \E r \in rs : r.seq = i
    BY <1>1, <1>2, <1>5 DEF Linked
  <2>4. ASSUME NEW r \in rs, r.seq = Len(h) PROVE r.hash = h
    <3>1. Len(h) # 0 /\ Follows(new, n)
      BY Zenon, <1>3, <1>5, <2>4 DEF Linked
    <3>2. PICK q \in new : q.seq = n.seq - 1 /\ q.hash = h
      BY <1>1, <1>2, <3>1 DEF Follows
    <3>3. q \in rs /\ q.seq = r.seq
      BY <1>1, <1>2, <2>4, <3>2
    <3> QED BY Zenon, <3>2, <3>3
  <2> QED BY Zenon, <2>1, <2>2, <2>3, <2>4 DEF Linked
<1> QED BY Zenon, <1>4, <1>5 DEF n, g

(* What the holder of the lock has read when there is no head: the rows of *)
(* before the chain, which is empty.                                       *)
LEMMA ReadNoHead ==
    ASSUME ChainInv, NEW w \in Writers, write[w].pc = "locked", head = NoHead
    PROVE  /\ Numbered(write[w].tip) /\ Found(write[w]) = ChainOf(write[w].tip)
           /\ StraysLeft(write[w]) = << >> /\ rows = {} /\ Intact
<1> DEFINE x == write[w]
<1>1. /\ x.tip = Adopted(strays) /\ x.adopts = strays /\ rows = {} /\ strays \in Strays
  BY Zenon DEF ChainInv, WriterOK, Corrupt, StoredOK
<1>2. Intact
  BY <1>1 DEF Intact, Linked, Tip, Genesis
<1>3. Numbered(x.tip) /\ Len(x.tip) = Len(strays)
  BY Zenon, <1>1, AdoptedNumbered
<1>4. strays = << >> => ChainOf(x.tip) = {}
  BY <1>3 DEF ChainOf
<1> HIDE DEF x
<1>5. Found(x) = ChainOf(x.tip) /\ StraysLeft(x) = << >>
  BY Zenon, <1>1, <1>4 DEF Found, StraysLeft
<1> QED BY Zenon, <1>1, <1>2, <1>3, <1>5 DEF x

(* What it has read when there is one: a head in order, which may still    *)
(* stand over damaged rows.                                                *)
LEMMA ReadHead ==
    ASSUME ChainInv, NEW w \in Writers, write[w].pc = "locked", head # NoHead
    PROVE  /\ write[w].tip = head.hash /\ Numbered(head.hash) /\ head.genuine
           /\ head.seq = Len(head.hash)
           /\ Found(write[w]) = rows /\ StraysLeft(write[w]) = strays
           /\ Intact <=> Linked(rows, head.hash) /\ strays = << >>
<1> DEFINE x == write[w]
<1>1. /\ x.tip = head.hash /\ x.adopts = << >> /\ head.genuine /\ Numbered(head.hash)
      /\ head.seq = Len(head.hash)
  BY Zenon DEF ChainInv, WriterOK, Corrupt, StoredOK
<1> HIDE DEF x
<1>2. Found(x) = rows /\ StraysLeft(x) = strays
  BY Zenon, <1>1 DEF Found, StraysLeft
<1>3. Intact <=> Linked(rows, head.hash) /\ strays = << >>
  BY Zenon, <1>1 DEF Intact, Tip
<1> QED BY Zenon, <1>1, <1>2, <1>3 DEF x

(* The link a writer adds is the next one.                                 *)
LEMMA LinkMade ==
    ASSUME ChainInv, NEW w \in Writers, write[w].pc = "locked", NEW h, Numbered(h)
    PROVE  NewLink(write[w], h) \in Entry /\ NewLink(write[w], h).seq = Len(h) + 1
<1>1. write[w].action \in Actions \cup {"deleted"} /\ write[w].pii \in BOOLEAN
  BY Zenon DEF ChainInv, WriterOK
<1>2. Len(h) + 1 \in Nat \ {0}
  BY DEF Numbered
<1> QED BY Zenon, <1>1, <1>2, EntryMade DEF NewLink

(* The head a commit leaves.                                               *)
LEMMA HeadMade ==
    ASSUME NEW g, Numbered(g), head' = HeadOf(g)
    PROVE  /\ head' # NoHead /\ head' \in Heads /\ head'.hash = g /\ head'.seq = Len(g)
           /\ head'.genuine /\ Tip' = g
<1>1. g \in Seq(Entry) /\ Len(g) \in Nat
  BY DEF Numbered
<1>2. HeadOf(g) \in Heads /\ HeadOf(g).hash = g /\ HeadOf(g).seq = Len(g) /\ HeadOf(g).genuine
  BY Zenon, <1>1 DEF HeadOf, Heads
<1>3. head' # NoHead
  BY Zenon, <1>2, AuditAssumption DEF Heads
<1> QED BY Zenon, <1>2, <1>3 DEF Tip

(* A commit appends one link to the chain its writer has read, and the     *)
(* chain is intact afterwards exactly when it was before.                  *)
LEMMA CommitEffect ==
    ASSUME ChainInv, NEW w \in Writers, Commit(w)
    PROVE  /\ StoredOK' /\ head' # NoHead /\ (Intact' <=> Intact)
           /\ Len(Tip') > Len(Tip) /\ SubSeq(Tip', 1, Len(Tip)) = Tip
<1> DEFINE x == write[w]
           h == x.tip
           f == NewLink(x, h)
           g == Append(h, f)
           rs == Found(x)
<1>1. /\ x.pc = "locked" /\ strays' = StraysLeft(x) /\ rows' = rs \cup {Row(h, f)}
      /\ \A r \in rs : r.seq # Len(h) + 1
      /\ head' = HeadOf(g) /\ deleted' = deleted
  BY Zenon DEF Commit, append_link, row_hash
<1>2. StoredOK
  BY Zenon DEF ChainInv
<1>3. Numbered(h)
  BY Zenon, <1>1, ReadNoHead, ReadHead
<1>4. f \in Entry /\ f.seq = Len(h) + 1 /\ h \in Seq(Entry)
  BY Zenon, <1>1, <1>3, LinkMade DEF Numbered
<1>5. rs \subseteq Rows /\ \A r, q \in rs : r.seq = q.seq => r = q
  <2>1. CASE head = NoHead
    <3>1. rs = ChainOf(h)
      BY Zenon, <1>1, <2>1, ReadNoHead
    <3>2. ChainOf(h) \subseteq Rows /\ \A r, q \in ChainOf(h) : r.seq = q.seq => r = q
      BY Zenon, <1>3, ChainStored
    <3> HIDE DEF rs, h
    <3> QED BY <3>1, <3>2
  <2>2. CASE head # NoHead
    <3>1. rs = rows
      BY Zenon, <1>1, <2>2, ReadHead
    <3> HIDE DEF rs
    <3> QED BY Zenon, <1>2, <3>1 DEF StoredOK
  <2> QED BY Zenon, <2>1, <2>2
<1>6. strays' \in Strays /\ (head = NoHead => strays' = << >>) /\ (head # NoHead => strays' = strays)
  <2>1. << >> \in Strays
    BY DEF Strays
  <2> QED BY Zenon, <1>1, <1>2, <2>1, ReadNoHead, ReadHead DEF StoredOK
<1> HIDE DEF x, h, f, g, rs
<1>7. Linked(rows', g) <=> Linked(rs, h)
  BY Zenon, <1>1, <1>3, <1>4, <1>5, AppendedLinked DEF g
<1>8. Numbered(g) /\ Row(h, f) \in Rows /\ Row(h, f).seq = Len(h) + 1
  BY Zenon, <1>3, <1>4, Appended, RowStored DEF g
<1>9. /\ head' # NoHead /\ head' \in Heads /\ head'.hash = g /\ head'.seq = Len(g)
      /\ head'.genuine /\ Tip' = g
  BY Zenon, <1>1, <1>8, HeadMade
<1>10. StoredOK'
  <2>1. rows' \subseteq Rows /\ \A r, q \in rows' : r.seq = q.seq => r = q
    BY Zenon, <1>1, <1>5, <1>8
  <2> QED BY Zenon, <1>1, <1>2, <1>6, <1>8, <1>9, <2>1 DEF StoredOK
<1>11. Intact' <=> Linked(rs, h) /\ strays' = << >>
  BY Zenon, <1>7, <1>9 DEF Intact
<1>12. Intact' <=> Intact
  <2>1. CASE head = NoHead
    <3>1. Intact /\ rs = ChainOf(h)
      BY Zenon, <1>1, <2>1, ReadNoHead DEF x, h, rs
    <3> QED BY Zenon, <1>3, <1>6, <1>11, <2>1, <3>1, ChainLinked
  <2>2. CASE head # NoHead
    <3>1. rs = rows /\ h = head.hash /\ (Intact <=> Linked(rows, head.hash) /\ strays = << >>)
      BY Zenon, <1>1, <2>2, ReadHead DEF x, h, rs
    <3> QED BY Zenon, <1>6, <1>11, <2>2, <3>1
  <2> QED BY Zenon, <2>1, <2>2
<1>13. Len(g) > Len(Tip) /\ SubSeq(g, 1, Len(Tip)) = Tip
  <2>1. CASE head = NoHead
    BY <1>4, <2>1 DEF Tip, Genesis, g
  <2>2. CASE head # NoHead
    <3>1. Tip = h
      BY Zenon, <1>1, <2>2, ReadHead DEF x, h, Tip
    <3> QED BY <1>4, <3>1 DEF g
  <2> QED BY Zenon, <2>1, <2>2
<1> QED BY Zenon, <1>9, <1>10, <1>12, <1>13

(* A deletion rewrites the chain without what it says of persons and adds  *)
(* its own link; since the walk has found every row in its place, it       *)
(* neither damages the chain nor covers damage up.                         *)
LEMMA DeletionEffect ==
    ASSUME ChainInv, NEW w \in Writers, CommitDeletion(w)
    PROVE  /\ StoredOK' /\ head' # NoHead /\ (Intact' <=> Intact) /\ ~deleted
           /\ Len(Tip') > Len(Tip)
           /\ \A i \in 1..Len(Tip) : Tip'[i] = Log!Anonymous(Tip[i])
           /\ \A i \in 1..(Len(Tip') - 1) : ~Tip'[i].pii
<1> DEFINE x == write[w]
           t == x.tip
           h == Anonymous(t)
           f == NewLink(x, h)
           g == Append(h, f)
<1>1. /\ x.pc = "locked" /\ x.kind = "delete" /\ strays' = Scrubbed(StraysLeft(x))
      /\ rows' = ChainOf(h) \cup {Row(h, f)} /\ head' = HeadOf(g) /\ deleted' = TRUE
      /\ Linked(Found(x), t)
  BY Zenon DEF CommitDeletion, append_link, row_hash, Walk
<1>2. StoredOK /\ ~deleted
  BY Zenon, <1>1 DEF ChainInv, WriterOK
<1>3. Numbered(t)
  BY Zenon, <1>1, ReadNoHead, ReadHead
<1>4. Numbered(h) /\ Len(h) = Len(t) /\ h \in Seq(Entry) /\ Len(t) \in Nat
  <2>1. \A s \in Seq(Entry) : Len(s) \in Nat
    OBVIOUS
  <2>2. Numbered(h) /\ Len(h) = Len(t)
    BY Zenon, <1>3, AnonymousNumbered
  <2>3. h \in Seq(Entry) /\ t \in Seq(Entry)
    BY Zenon, <1>3, <2>2 DEF Numbered
  <2> QED BY Zenon, <2>1, <2>2, <2>3
<1>5. f \in Entry /\ f.seq = Len(h) + 1
  BY Zenon, <1>1, <1>4, LinkMade
<1>6. \A i \in 1..Len(t) : h[i] = Log!Anonymous(t[i])
  BY Zenon DEF Anonymous, Log!Anonymous
<1>7. \A i \in 1..Len(t) : ~h[i].pii
  BY Zenon DEF Anonymous
<1> HIDE DEF x, t, h, f, g
<1>8. /\ Numbered(g) /\ rows' = ChainOf(g) /\ Len(g) = Len(t) + 1
      /\ \A i \in 1..Len(t) : g[i] = h[i]
  <2>1. Numbered(g) /\ rows' = ChainOf(g)
    BY Zenon, <1>1, <1>4, <1>5, Appended DEF g
  <2>2. \A s \in Seq(Entry), e \in Entry :
            Len(Append(s, e)) = Len(s) + 1 /\ \A i \in 1..Len(s) : Append(s, e)[i] = s[i]
    OBVIOUS
  <2> QED BY Zenon, <1>4, <1>5, <2>1, <2>2 DEF g
<1>9. /\ head' # NoHead /\ head' \in Heads /\ head'.hash = g /\ head'.seq = Len(g)
      /\ head'.genuine /\ Tip' = g
  BY Zenon, <1>1, <1>8, HeadMade
<1>10. strays' \in Strays /\ (strays' = << >> <=> StraysLeft(x) = << >>)
  <2>1. << >> \in Strays
    BY DEF Strays
  <2>2. StraysLeft(x) \in Strays
    BY Zenon, <1>2, <2>1 DEF StraysLeft, StoredOK
  <2> QED BY Zenon, <1>1, <2>2, ScrubbedStrays
<1>11. StoredOK'
  BY Zenon, <1>1, <1>8, <1>9, <1>10, ChainStored DEF StoredOK
<1>12. Intact' <=> StraysLeft(x) = << >>
  BY Zenon, <1>8, <1>9, <1>10, ChainLinked DEF Intact
<1>13. Intact <=> StraysLeft(x) = << >>
  <2>1. CASE head = NoHead
    BY Zenon, <1>1, <2>1, ReadNoHead DEF x
  <2>2. CASE head # NoHead
    BY Zenon, <1>1, <2>2, ReadHead DEF x, t
  <2> QED BY Zenon, <2>1, <2>2
<1>14. Tip = << >> \/ Tip = t
  BY Zenon, <1>1, ReadHead DEF Tip, Genesis, x, t
<1>15. Len(Tip) <= Len(t)
  BY <1>4, <1>14
<1>16. \A i \in 1..Len(Tip) : Tip'[i] = Log!Anonymous(Tip[i])
  BY <1>4, <1>6, <1>8, <1>9, <1>14
<1>17. \A i \in 1..(Len(Tip') - 1) : ~Tip'[i].pii
  BY <1>4, <1>7, <1>8, <1>9
<1>18. Len(g) > Len(Tip)
  <2>1. Len(Tip) \in Nat
    BY <1>4, <1>14
  <2> QED BY ONLY <1>4, <1>8, <1>15, <2>1
<1> QED BY Zenon, <1>2, <1>9, <1>11, <1>12, <1>13, <1>16, <1>17, <1>18

(* A commit or a rollback leaves no transaction open.                      *)
LEMMA Unlocked ==
    ASSUME ChainInv, NEW w \in Writers, write[w].pc = "locked", Unlock(w)
    PROVE  DOMAIN write' = Writers /\ \A g \in Writers : write'[g].pc # "locked"
<1>1. \A g \in Writers : write[g].pc = "locked" => g = w
  BY Zenon DEF ChainInv, WriterOK
<1> QED BY Zenon, <1>1 DEF ChainInv, Unlock, NoWrite

(* Which gives the invariant when the tables are in order.                 *)
LEMMA CommitStep ==
    ASSUME ChainInv, NEW w \in Writers, write[w].pc = "locked", Unlock(w), UNCHANGED tampers,
           StoredOK', Intact => Intact'
    PROVE  ChainInv'
<1>1. DOMAIN write' = Writers /\ \A g \in Writers : write'[g].pc # "locked"
  BY Zenon, Unlocked
<1>2. \A g \in Writers : WriterOK(g, write[g])'
  BY Zenon, <1>1 DEF WriterOK
<1>3. ChainIsLinear'
  BY Zenon DEF ChainInv, ChainIsLinear
<1> QED BY Zenon, <1>1, <1>2, <1>3 DEF ChainInv

(* A writer takes the lock, which nobody holds, and reads the tip.         *)
LEMMA BeginStep ==
    ASSUME ChainInv, NEW w \in Writers, NEW k \in {"record", "delete"},
           NEW a \in Actions \cup {"deleted"}, NEW p \in BOOLEAN,
           ~Corrupt, k = "delete" => ~deleted,
           lock_chain(w, Began(k, a, p)), UNCHANGED <<tables, tampers>>
    PROVE  ChainInv'
<1> DEFINE x == Began(k, a, p)
<1>1. /\ lock = NoWriter /\ lock' = w /\ write' = [write EXCEPT ![w] = x]
      /\ UNCHANGED <<rows, strays, head, deleted, tampers>>
  BY Zenon DEF lock_chain, tables
<1>2. DOMAIN write' = Writers /\ write'[w] = x /\ \A g \in Writers \ {w} : write'[g] = write[g]
  BY Zenon, <1>1 DEF ChainInv
<1>3. \A g \in Writers : write[g].pc # "locked"
  BY Zenon, <1>1, AuditAssumption DEF ChainInv, WriterOK
<1>4. /\ x.tip = IF head = NoHead THEN Adopted(strays) ELSE head.hash
      /\ x.adopts = IF head = NoHead THEN strays ELSE << >>
      /\ x.action = a /\ x.pii = p /\ x.kind = k
  BY Zenon DEF Began
<1> HIDE DEF x
<1>5. StoredOK' /\ ChainIsLinear' /\ tampers' \in Nat
  BY Zenon, <1>1 DEF ChainInv, StoredOK, ChainIsLinear, Intact, Tip
<1>6. ~Corrupt'
  BY Zenon, <1>1 DEF Corrupt
<1>7. WriterOK(w, write[w])'
  BY Zenon, <1>1, <1>2, <1>4, <1>6 DEF WriterOK
<1>8. \A g \in Writers \ {w} : WriterOK(g, write[g])'
  BY Zenon, <1>2, <1>3 DEF WriterOK
<1> QED BY Zenon, <1>2, <1>5, <1>7, <1>8 DEF ChainInv

(* Nobody is in a transaction when the tables are changed outside of the   *)
(* service, and the change leaves every position taken at most once.       *)
LEMMA TamperStep ==
    ASSUME ChainInv, Tamper
    PROVE  ChainInv' /\ Tip' \in {Tip, << >>} /\ UNCHANGED deleted
<1>0. StoredOK
  BY Zenon DEF ChainInv
<1>1. ASSUME NEW rs, NEW s, NEW h, Tampered(rs, s, h), rs \subseteq Rows,
             \A r, q \in rs : r.seq = q.seq => r = q, s \in Strays,
             h = NoHead \/ h = head \/ (h \in Heads /\ h.hash = head.hash /\ h.seq = head.seq /\ head # NoHead)
      PROVE  ChainInv' /\ Tip' \in {Tip, << >>} /\ UNCHANGED deleted
  <2>1. /\ rows' = rs /\ strays' = s /\ head' = h /\ tampers' = tampers + 1
        /\ UNCHANGED <<deleted, lock, write>> /\ lock = NoWriter
    BY Zenon, <1>1 DEF Tampered
  <2>2. StoredOK'
    BY Zenon, <1>0, <1>1, <2>1 DEF StoredOK
  <2>3. Tip' \in {Tip, << >>}
    BY Zenon, <1>1, <2>1 DEF Tip, Genesis
  <2>4. \A w \in Writers : write[w].pc # "locked"
    BY Zenon, <2>1, AuditAssumption DEF ChainInv, WriterOK
  <2>5. tampers' \in Nat /\ ChainIsLinear'
    BY <2>1 DEF ChainInv, ChainIsLinear
  <2> QED BY Zenon, <2>1, <2>2, <2>3, <2>4, <2>5 DEF ChainInv, WriterOK
<1>2. CASE EditRow
  <2>1. PICK r \in rows, a \in Actions :
           Tampered((rows \ {r}) \cup {[r EXCEPT !.action = a]}, strays, head)
    BY Zenon, <1>2 DEF EditRow
  <2> DEFINE e == [r EXCEPT !.action = a]
  <2>2. e \in Rows /\ e.seq = r.seq
    BY Zenon, <1>0 DEF StoredOK, Rows
  <2> HIDE DEF e
  <2>3. /\ (rows \ {r}) \cup {e} \subseteq Rows
        /\ \A q, u \in (rows \ {r}) \cup {e} : q.seq = u.seq => q = u
    BY Zenon, <1>0, <2>2 DEF StoredOK
  <2> QED BY Zenon, <1>0, <1>1, <2>1, <2>3 DEF StoredOK, e
<1>3. CASE LoseRow
  BY <1>0, <1>1, <1>3 DEF LoseRow, StoredOK
<1>4. CASE LoseHead
  BY Zenon, <1>0, <1>1, <1>4 DEF LoseHead, StoredOK
<1>5. CASE ForgeHead
  <2> DEFINE h == [head EXCEPT !.genuine = FALSE]
  <2>1. head # NoHead /\ Tampered(rows, strays, h)
    BY Zenon, <1>5 DEF ForgeHead
  <2>2. h \in Heads /\ h.hash = head.hash /\ h.seq = head.seq
    BY Zenon, <1>0, <2>1 DEF StoredOK, Heads
  <2> HIDE DEF h
  <2> QED BY Zenon, <1>0, <1>1, <2>1, <2>2 DEF StoredOK
<1>6. CASE AddStray
  <2>1. PICK a \in Actions : Tampered(rows, Append(strays, [action |-> a, pii |-> FALSE]), head)
    BY Zenon, <1>6 DEF AddStray
  <2>2. Append(strays, [action |-> a, pii |-> FALSE]) \in Strays
    BY <1>0 DEF StoredOK, Strays
  <2> QED BY Zenon, <1>0, <1>1, <2>1, <2>2 DEF StoredOK
<1> QED BY Zenon, <1>2, <1>3, <1>4, <1>5, <1>6 DEF Tamper

(* A step that leaves the tables alone leaves the log alone.               *)
LEMMA TablesKept ==
    ASSUME UNCHANGED tables
    PROVE  UNCHANGED <<Tip, deleted, ~Intact>> /\ (StoredOK => StoredOK') /\ (Intact' <=> Intact)
BY Zenon DEF tables, Tip, Intact, StoredOK

(* Every step keeps the invariant of the chain.                            *)
LEMMA NextInv == ChainInv /\ [AuditNext]_auditvars => ChainInv'
<1> SUFFICES ASSUME ChainInv, [AuditNext]_auditvars PROVE ChainInv'
  BY Zenon
<1>1. ASSUME NEW w \in Writers, NEW a \in Actions, NEW p \in BOOLEAN, record_audit(w, a, p)
      PROVE  ChainInv'
  BY Zenon, <1>1, BeginStep DEF record_audit
<1>2. ASSUME NEW w \in Writers, delete_account(w) PROVE ChainInv'
  BY Zenon, <1>2, BeginStep DEF delete_account
<1>3. ASSUME NEW w \in Writers, Commit(w) PROVE ChainInv'
  BY Zenon, <1>3, CommitEffect, CommitStep DEF Commit
<1>4. ASSUME NEW w \in Writers, CommitDeletion(w) PROVE ChainInv'
  BY Zenon, <1>4, DeletionEffect, CommitStep DEF CommitDeletion
<1>5. ASSUME NEW w \in Writers, Rollback(w) PROVE ChainInv'
  <2>1. StoredOK
    BY Zenon DEF ChainInv
  <2> QED BY Zenon, <1>5, <2>1, TablesKept, CommitStep DEF Rollback
<1>6. CASE Tamper
  BY Zenon, <1>6, TamperStep
<1>7. CASE Verify \/ UNCHANGED auditvars
  <2>1. UNCHANGED <<tables, lock, write, tampers>>
    BY Zenon, <1>7 DEF Verify, VerifyBegin, VerifyRow, VerifyRows, VerifyHead, auditvars
  <2>2. StoredOK' /\ ChainIsLinear'
    BY Zenon, <2>1, TablesKept DEF ChainInv, ChainIsLinear
  <2>3. \A w \in Writers : WriterOK(w, write[w])'
    BY Zenon, <2>1 DEF ChainInv, WriterOK, Corrupt, tables
  <2> QED BY Zenon, <2>1, <2>2, <2>3 DEF ChainInv
<1> QED BY Zenon, <1>1, <1>2, <1>3, <1>4, <1>5, <1>6, <1>7 DEF AuditNext

(* There is no chain at first.                                             *)
LEMMA InitInv == AuditInit => ChainInv
<1> SUFFICES ASSUME AuditInit PROVE ChainInv
  BY Zenon
<1>1. StoredOK
  BY Zenon, AuditAssumption DEF AuditInit, StoredOK, Strays
<1>2. Intact
  BY DEF AuditInit, Intact, Linked, Tip, Genesis
<1> QED BY Zenon, <1>1, <1>2 DEF AuditInit, ChainInv, ChainIsLinear, WriterOK, NoWrite

(* What the service alone has written is one linear chain that ends where  *)
(* the head says, however its writers interleave (append_link,             *)
(* adopt_legacy_rows, anonymise_chain under lock_chain).                   *)
THEOREM LinearChain == AuditSpec => []ChainIsLinear
<1>1. ChainInv => ChainIsLinear
  BY Zenon DEF ChainInv
<1> QED BY <1>1, InitInv, NextInv, PTL DEF AuditSpec

(* Every step of the tables is a step of the abstract log or leaves it     *)
(* alone: a commit extends it, a deletion anonymises it, a change from     *)
(* outside disturbs it, and nothing else touches it.                       *)
LEMMA LogStep ==
    ASSUME ChainInv, [AuditNext]_auditvars
    PROVE  [Log!Next]_<<Tip, deleted, ~Intact>>
<1>1. ASSUME NEW w \in Writers, Commit(w) PROVE Log!Extend
  BY Zenon, <1>1, CommitEffect DEF Log!Extend, Commit
<1>2. ASSUME NEW w \in Writers, CommitDeletion(w) PROVE Log!Delete
  <2>1. deleted' = TRUE
    BY Zenon, <1>2 DEF CommitDeletion
  <2> QED BY Zenon, <1>2, <2>1, DeletionEffect DEF Log!Delete
<1>3. CASE Tamper
  <2>1. (~Intact)' \in BOOLEAN
    BY Zenon DEF Intact
  <2> QED BY Zenon, <1>3, <2>1, TamperStep DEF Log!Next, Log!Disturb
<1>4. CASE UNCHANGED tables
  BY Zenon, <1>4, TablesKept
<1>5. \/ UNCHANGED tables \/ Tamper
      \/ \E w \in Writers : Commit(w) \/ CommitDeletion(w)
  BY Zenon DEF AuditNext, auditvars, record_audit, delete_account, Rollback, Verify, VerifyBegin, VerifyRow,
         VerifyRows, VerifyHead
<1> QED BY Zenon, <1>1, <1>2, <1>3, <1>4, <1>5 DEF Log!Next

(* The tables implement the abstract log, for any number of writers: it    *)
(* only grows at its end or is anonymised as a whole with the account's    *)
(* deletion, and no append, adoption or anonymisation makes a chain that   *)
(* was changed outside of the service verify again (append_link,           *)
(* adopt_legacy_rows, anonymise_chain, chain_tip).                         *)
THEOREM TablesImplementLog == AuditSpec => LogSpec
<1>1. AuditInit => Log!Init
  BY DEF AuditInit, Log!Init, Tip, Genesis, Intact, Linked
<1>2. ChainInv /\ [AuditNext]_auditvars => [Log!Next]_<<Tip, deleted, ~Intact>>
  BY Zenon, LogStep
<1> QED BY <1>1, <1>2, InitInv, NextInv, PTL DEF AuditSpec, LogSpec, Log!Spec

(* The rows of a chain take the positions from 1 to its length.            *)
LEMMA ChainPositions ==
    ASSUME NEW h, Numbered(h)
    PROVE  /\ \A r \in ChainOf(h) : r.seq \in 1..Len(h)
           /\ \A i \in 1..Len(h) : \E r \in ChainOf(h) : r.seq = i
<1>1. Linked(ChainOf(h), h)
  BY Zenon, ChainLinked
<1> QED BY Zenon, <1>1 DEF Linked

(* A verification that has read a row, field by field.                     *)
LEMMA RowFieldsRead ==
    ASSUME verify \in Verifications, NEW n \in Nat, NEW h \in Seq(Entry)
    PROVE  \E v \in Verifications :
              /\ v = [verify EXCEPT !.last = n, !.prev = h]
              /\ v.pc = verify.pc /\ v.last = n /\ v.prev = h /\ v.strays = verify.strays
              /\ v.damaged = verify.damaged /\ v.overlap = verify.overlap
<1> DEFINE v == [verify EXCEPT !.last = n, !.prev = h]
<1>1. v.pc = verify.pc /\ v.last = n /\ v.prev = h /\ v.strays = verify.strays
  BY Zenon DEF Verifications
<1>2. v.damaged = verify.damaged /\ v.overlap = verify.overlap
  BY Zenon DEF Verifications
<1>3. v \in Verifications
  BY Zenon DEF Verifications
<1> HIDE DEF v
<1> QED BY Zenon, <1>1, <1>2, <1>3 DEF v

(* A verification that something overlaps.                                 *)
LEMMA OverlapFields ==
    ASSUME verify \in Verifications, NEW o \in {"none", "commit", "tamper"}
    PROVE  \E v \in Verifications :
              /\ v = [verify EXCEPT !.overlap = o]
              /\ v.pc = verify.pc /\ v.last = verify.last /\ v.prev = verify.prev
              /\ v.strays = verify.strays /\ v.damaged = verify.damaged /\ v.overlap = o
<1> DEFINE v == [verify EXCEPT !.overlap = o]
<1>1. /\ v.pc = verify.pc /\ v.last = verify.last /\ v.prev = verify.prev
      /\ v.strays = verify.strays
  BY Zenon DEF Verifications
<1>2. v.damaged = verify.damaged /\ v.overlap = o
  BY Zenon DEF Verifications
<1>3. v \in Verifications
  BY Zenon DEF Verifications
<1> HIDE DEF v
<1> QED BY Zenon, <1>1, <1>2, <1>3 DEF v

(* A verification that has read all rows.                                  *)
LEMMA HeadFields ==
    ASSUME verify \in Verifications
    PROVE  \E v \in Verifications :
              /\ v = [verify EXCEPT !.pc = "head"]
              /\ v.pc = "head" /\ v.last = verify.last /\ v.prev = verify.prev
              /\ v.strays = verify.strays /\ v.damaged = verify.damaged
              /\ v.overlap = verify.overlap
<1> DEFINE v == [verify EXCEPT !.pc = "head"]
<1>1. /\ v.pc = "head" /\ v.last = verify.last /\ v.prev = verify.prev
      /\ v.strays = verify.strays
  BY Zenon DEF Verifications
<1>2. v.damaged = verify.damaged /\ v.overlap = verify.overlap
  BY Zenon DEF Verifications
<1>3. v \in Verifications
  BY Zenon DEF Verifications
<1> HIDE DEF v
<1> QED BY Zenon, <1>1, <1>2, <1>3 DEF v

(* A verification that reports.                                            *)
LEMMA ReportFields ==
    ASSUME verify \in Verifications, NEW t \in {"broken", "unchained", "intact"}
    PROVE  /\ Report(t) \in Verifications /\ Report(t).pc = "done" /\ Report(t).verdict = t
           /\ Report(t).damaged = verify.damaged /\ Report(t).overlap = verify.overlap
<1>1. << >> \in Seq(Entry) /\ 0 \in Nat
  OBVIOUS
<1> QED BY Zenon, <1>1 DEF Verifications, Report, Genesis

(* A verification goes on reading an intact chain without a complaint.     *)
LEMMA NextRow ==
    ASSUME StoredOK, Intact, verify \in Verifications, Alone(verify),
           NEW r \in Ahead, \A q \in Ahead : r.seq <= q.seq
    PROVE  RowHolds(r)
<1>1. /\ Linked(rows, Tip) /\ rows \subseteq Rows /\ r \in rows /\ r.seq > verify.last
      /\ \A a, b \in rows : a.seq = b.seq => a = b
      /\ verify.last \in Nat
  BY Zenon DEF Intact, StoredOK, Ahead, Verifications
<1>2. r.seq \in 1..Len(Tip) /\ Follows(rows, r) /\ r.seq \in Nat
  BY Zenon, <1>1 DEF Linked, Rows
<1>3. PICK q \in rows : q.seq = verify.last + 1
  BY <1>1, <1>2 DEF Linked
<1>4. r.seq = verify.last + 1
  BY <1>1, <1>2, <1>3 DEF Ahead
<1>5. r.prev = verify.prev
  <2>1. CASE verify.last = 0
    <3>1. \A u \in rows : u.seq # 0
      BY Zenon, <1>1 DEF Rows
    <3> QED BY <1>2, <1>4, <2>1, <3>1 DEF Alone, Follows
  <2>2. CASE verify.last # 0
    <3>1. PICK u \in rows : u.seq = verify.last /\ u.hash = verify.prev
      BY Zenon, <2>2 DEF Alone
    <3>2. PICK v \in rows : v.seq = r.seq - 1 /\ v.hash = r.prev
      BY <1>1, <1>2, <1>4, <2>2 DEF Follows
    <3> QED BY <1>1, <1>4, <3>1, <3>2
  <2> QED BY Zenon, <2>1, <2>2
<1> QED BY Zenon, <1>2, <1>4, <1>5 DEF RowHolds, Follows

(* It has read all of it when nothing lies ahead.                          *)
LEMMA AllRead ==
    ASSUME StoredOK, Intact, verify \in Verifications, Alone(verify), Ahead = {}
    PROVE  verify.last = Len(Tip)
<1>1. Linked(rows, Tip) /\ verify.last \in Nat /\ Len(Tip) \in Nat
  BY DEF Intact, StoredOK, Verifications, Tip, Genesis, Numbered
<1>2. \A r \in rows : r.seq \in 1..Len(Tip) /\ ~(r.seq > verify.last)
  BY Zenon, <1>1 DEF Linked, Ahead
<1>3. verify.last = 0 \/ verify.last \in 1..Len(Tip)
  BY Zenon, <1>2 DEF Alone
<1>4. CASE Len(Tip) = 0
  BY <1>3, <1>4
<1>5. CASE Len(Tip) # 0
  <2>1. PICK r \in rows : r.seq = Len(Tip)
    BY <1>1, <1>5 DEF Linked
  <2> QED BY <1>1, <1>2, <1>3, <2>1
<1> QED BY Zenon, <1>4, <1>5

(* On an intact chain that nobody has changed meanwhile the verdict is not *)
(* that it is broken.                                                      *)
LEMMA IntactVerdict ==
    ASSUME StoredOK, Intact, verify \in Verifications, Alone(verify), verify.pc = "head"
    PROVE  Verdict # "broken"
<1>1. verify.last = Len(Tip) /\ verify.strays = Len(strays) /\ Linked(rows, Tip)
  BY Zenon DEF Alone, Intact
<1>2. CASE head = NoHead
  BY Zenon, <1>1, <1>2 DEF Tip, Genesis, Verdict
<1>3. CASE head # NoHead
  <2>1. /\ head.genuine /\ strays = << >> /\ Tip = head.hash /\ head.seq = Len(head.hash)
        /\ head.hash \in Seq(Entry)
    BY Zenon, <1>3 DEF Intact, StoredOK, Tip, Numbered
  <2>2. head.hash = verify.prev
    <3>1. CASE verify.last = 0
      <4>1. \A u \in rows : u.seq # 0
        BY Zenon DEF StoredOK, Rows
      <4> QED BY <1>1, <2>1, <3>1, <4>1 DEF Alone, Genesis
    <3>2. CASE verify.last # 0
      BY Zenon, <1>1, <2>1, <3>2 DEF Alone, Linked
    <3> QED BY Zenon, <3>1, <3>2
  <2>3. verify.strays = 0
    BY Zenon, <1>1, <2>1
  <2> QED BY <1>1, <1>3, <2>1, <2>2, <2>3 DEF Verdict
<1> QED BY Zenon, <1>2, <1>3

(* The verdict on a damaged chain that was only appended to meanwhile is   *)
(* that it is broken.                                                      *)
LEMMA DamagedVerdict ==
    ASSUME StoredOK, verify \in Verifications, Undisturbed(verify), verify.pc = "head"
    PROVE  Verdict = "broken"
<1>0. verify.last \in Nat /\ verify.strays \in Nat /\ ~Intact
  BY Zenon DEF Verifications, Undisturbed
<1>1. CASE head = NoHead
  <2>1. PICK r \in rows : TRUE
    BY <1>0, <1>1 DEF Intact, Linked, Tip, Genesis
  <2>2. r.seq \in Nat \ {0} /\ r.seq <= verify.last
    BY Zenon, <1>1 DEF Undisturbed, StoredOK, Rows
  <2> QED BY <1>0, <1>1, <2>2 DEF Verdict
<1>2. CASE head # NoHead /\ verify.strays # 0
  BY <1>0, <1>2 DEF Verdict
<1>3. CASE head # NoHead /\ verify.strays = 0
  <2> SUFFICES ASSUME head.genuine, head.seq = verify.last, head.hash = verify.prev
               PROVE  FALSE
    BY Zenon, <1>3 DEF Verdict
  <2>1. /\ Numbered(verify.prev) /\ Len(verify.prev) = verify.last
        /\ ChainOf(verify.prev) \subseteq rows /\ \A r \in rows : r.seq <= verify.last
    BY <1>0, <1>3 DEF Undisturbed
  <2>2. strays = << >>
    <3>1. Len(strays) \in Nat /\ Len(strays) <= 0 /\ strays \in Strays
      BY <1>3 DEF Undisturbed, StoredOK, Strays
    <3> QED BY <3>1 DEF Strays
  <2>3. rows = ChainOf(verify.prev)
    <3> SUFFICES ASSUME NEW r \in rows PROVE r \in ChainOf(verify.prev)
      BY Zenon, <2>1
    <3>1. r.seq \in 1..Len(verify.prev)
      BY <1>0, <2>1 DEF StoredOK, Rows
    <3>2. PICK q \in ChainOf(verify.prev) : q.seq = r.seq
      BY Zenon, <2>1, <3>1, ChainPositions
    <3> QED BY Zenon, <2>1, <3>2 DEF StoredOK
  <2>4. Linked(rows, Tip)
    BY Zenon, <1>3, <2>1, <2>3, ChainLinked DEF Tip
  <2> QED BY Zenon, <1>0, <2>2, <2>4 DEF Intact
<1> QED BY Zenon, <1>1, <1>2, <1>3

(* A row that passes its checks is the next one of what has been read.     *)
LEMMA RowRead ==
    ASSUME StoredOK, verify \in Verifications, Numbered(verify.prev),
           Len(verify.prev) = verify.last, NEW r \in rows, RowHolds(r)
    PROVE  /\ Numbered(r.hash) /\ Len(r.hash) = r.seq
           /\ ChainOf(r.hash) = ChainOf(verify.prev) \cup {r}
<1> DEFINE f == LinkFields(r)
           h == verify.prev
<1>1. r \in Rows /\ h \in Seq(Entry)
  BY Zenon DEF StoredOK, Numbered
<1>2. f \in Entry /\ f.seq = r.seq /\ f.action = r.action /\ f.pii = r.pii
  BY Zenon, <1>1 DEF LinkFields, Rows, Entry
<1>3. r.seq = Len(h) + 1 /\ r.prev = h /\ r.hash = Append(h, f)
  BY Zenon DEF RowHolds, row_hash
<1> HIDE DEF f, h
<1>4. r = Row(h, f)
  BY Zenon, <1>1, <1>2, <1>3 DEF Rows, Row, row_hash
<1>5. Numbered(Append(h, f)) /\ ChainOf(h) \cup {Row(h, f)} = ChainOf(Append(h, f))
  BY Zenon, <1>2, <1>3, Appended DEF h
<1>6. Len(Append(h, f)) = Len(h) + 1
  BY <1>1
<1> QED BY Zenon, <1>3, <1>4, <1>5, <1>6 DEF h

(* A commit during a verification: damage stays, and what has been read is *)
(* still stored.                                                           *)
LEMMA CommitUndisturbed ==
    ASSUME ChainInv, NEW w \in Writers, Commit(w) \/ CommitDeletion(w),
           verify \in Verifications, Undisturbed(verify),
           NEW v \in Verifications, v.pc = verify.pc, v.last = verify.last, v.prev = verify.prev,
           v.strays = verify.strays
    PROVE  Undisturbed(v)'
<1>0. /\ ~Intact /\ verify.last \in Nat /\ verify.strays \in Nat /\ write[w].pc = "locked"
      /\ StoredOK
  BY Zenon DEF Undisturbed, Verifications, Commit, CommitDeletion, ChainInv
<1>1. head # NoHead
  BY Zenon, <1>0, ReadNoHead
<1>2. /\ write[w].tip = head.hash /\ Numbered(head.hash) /\ head.genuine
      /\ head.seq = Len(head.hash) /\ head.seq \in Nat
      /\ Found(write[w]) = rows /\ StraysLeft(write[w]) = strays
      /\ Intact <=> Linked(rows, head.hash) /\ strays = << >>
  BY <1>0, <1>1, ReadHead DEF Numbered
<1>3. head' # NoHead /\ ~Intact'
  BY Zenon, <1>0, CommitEffect, DeletionEffect
<1>4. CASE Commit(w)
  <2> DEFINE x == write[w]
             g == Append(x.tip, NewLink(x, x.tip))
  <2>1. /\ strays' = strays /\ rows' = rows \cup {Row(x.tip, NewLink(x, x.tip))}
        /\ head' = HeadOf(g) /\ \A r \in rows : r.seq # Len(x.tip) + 1
    BY Zenon, <1>2, <1>4 DEF Commit, append_link, row_hash
  <2>2. NewLink(x, x.tip) \in Entry /\ NewLink(x, x.tip).seq = Len(x.tip) + 1
    BY Zenon, <1>0, <1>2, LinkMade
  <2>3. Numbered(g) /\ Len(g) = head.seq + 1
    <3>1. \A s \in Seq(Entry), e \in Entry : Len(Append(s, e)) = Len(s) + 1
      OBVIOUS
    <3>2. x.tip \in Seq(Entry) /\ Numbered(x.tip) /\ Len(x.tip) = head.seq
      <4>1. x.tip = head.hash
        BY Zenon, <1>2
      <4>2. Numbered(x.tip) /\ Len(x.tip) = head.seq
        BY Zenon, <1>2, <4>1
      <4> QED BY Zenon, <4>2 DEF Numbered
    <3>3. Numbered(g)
      BY Zenon, <2>2, <3>2, Appended
    <3> QED BY Zenon, <2>2, <3>1, <3>2, <3>3
  <2> HIDE DEF g
  <2>4. head'.seq = head.seq + 1
    BY Zenon, <2>1, <2>3, HeadMade
  <2>5. ASSUME verify.strays = 0
        PROVE  /\ Numbered(verify.prev) /\ Len(verify.prev) = verify.last
               /\ ChainOf(verify.prev) \subseteq rows /\ head'.seq > verify.last
    <3>1. /\ Numbered(verify.prev) /\ Len(verify.prev) = verify.last
          /\ ChainOf(verify.prev) \subseteq rows
      BY Zenon, <2>5 DEF Undisturbed
    <3>2. \A r \in rows : r.seq # head.seq + 1
      BY Zenon, <1>2, <2>1
    <3>3. ~(head.seq + 1 \in 1..verify.last)
      BY <3>1, <3>2, ChainPositions
    <3> QED BY <1>0, <1>2, <2>4, <3>1, <3>3
  <2> QED BY Zenon, <1>3, <2>1, <2>5 DEF Undisturbed
<1>5. CASE CommitDeletion(w)
  <2>1. Linked(rows, head.hash) /\ strays' = Scrubbed(strays)
    BY Zenon, <1>2, <1>5 DEF CommitDeletion, Walk
  <2>2. strays # << >> /\ strays \in Strays
    BY Zenon, <1>0, <1>2, <2>1 DEF StoredOK
  <2>3. Len(strays) \in Nat \ {0} /\ Len(strays) <= verify.strays
    BY <2>2 DEF Strays, Undisturbed
  <2>4. Len(strays') = Len(strays)
    BY Zenon, <2>1, <2>2, ScrubbedStrays
  <2> QED BY <1>0, <1>3, <2>3, <2>4 DEF Undisturbed
<1> QED BY Zenon, <1>4, <1>5

(* A verification that nobody else has a part in keeps the invariant.      *)
LEMMA VerifyStep ==
    ASSUME StoredOK, VerifyInv, Verify
    PROVE  VerifyInv'
<1>0. /\ verify \in Verifications /\ UNCHANGED tables /\ UNCHANGED <<rows, strays, head>>
      /\ Len(strays) \in Nat /\ verify.damaged \in BOOLEAN
  <2>1. UNCHANGED tables
    BY Zenon DEF Verify, VerifyBegin, VerifyRow, VerifyRows, VerifyHead
  <2>2. Len(strays) \in Nat
    BY DEF StoredOK, Strays
  <2>3. verify \in Verifications /\ verify.damaged \in BOOLEAN
    BY Zenon DEF VerifyInv, Verifications
  <2> QED BY Zenon, <2>1, <2>2, <2>3 DEF tables
<1>1. (Intact' <=> Intact) /\ Tip' = Tip /\ Intact \in BOOLEAN
  BY Zenon, <1>0, TablesKept DEF Intact
<1>2. ASSUME NEW t \in {"broken", "unchained", "intact"}, verify' = Report(t),
             verify.pc \in {"rows", "head"},
             verify.overlap # "tamper" /\ verify.damaged => t = "broken",
             verify.overlap = "none" /\ ~verify.damaged => t # "broken"
      PROVE  VerifyInv'
  <2>1. /\ verify' \in Verifications /\ verify'.pc = "done" /\ verify'.verdict = t
        /\ verify'.damaged = verify.damaged /\ verify'.overlap = verify.overlap
    BY Zenon, <1>0, <1>2, ReportFields
  <2>2. VerdictIsTrue'
    BY Zenon, <1>2, <2>1 DEF VerdictIsTrue, VerifyFindsDamage, VerifyBlamesDamage
  <2> QED BY Zenon, <2>1, <2>2 DEF VerifyInv
<1>3. CASE VerifyBegin
  <2> DEFINE u == [pc |-> "rows", last |-> 0, prev |-> Genesis, strays |-> Len(strays),
                   verdict |-> "none", damaged |-> ~Intact, overlap |-> "none"]
  <2>1. /\ u \in Verifications /\ u.pc = "rows" /\ u.last = 0 /\ u.prev = Genesis
        /\ u.strays = Len(strays) /\ u.damaged = ~Intact /\ u.overlap = "none"
    BY <1>0, <1>1 DEF Verifications, Genesis
  <2>2. PICK v \in Verifications :
           /\ verify' = v /\ v.pc = "rows" /\ v.last = 0 /\ v.prev = Genesis
           /\ v.strays = Len(strays) /\ v.damaged = ~Intact /\ v.overlap = "none"
    BY Zenon, <1>3, <2>1 DEF VerifyBegin
  <2> HIDE DEF u
  <2>3. Alone(v)'
    BY Zenon, <1>0, <1>1, <2>2 DEF Alone
  <2>4. Numbered(Genesis) /\ Len(Genesis) = 0 /\ ChainOf(Genesis) = {}
    BY DEF Numbered, Genesis, ChainOf
  <2>5. ~Intact => Undisturbed(v)'
    BY <1>0, <1>1, <2>2, <2>4 DEF Undisturbed
  <2>6. VerdictIsTrue'
    BY Zenon, <2>1, <2>2 DEF VerdictIsTrue, VerifyFindsDamage, VerifyBlamesDamage
  <2> QED BY Zenon, <2>1, <2>2, <2>3, <2>5, <2>6 DEF VerifyInv
<1>4. CASE VerifyRow
  <2>1. PICK r \in Ahead :
           /\ \A q \in Ahead : r.seq <= q.seq
           /\ verify' = IF RowHolds(r) THEN [verify EXCEPT !.last = r.seq, !.prev = r.hash]
                        ELSE Report("broken")
    BY Zenon, <1>4 DEF VerifyRow
  <2>2. /\ r \in rows /\ r.seq \in Nat \ {0} /\ r.hash \in Seq(Entry) /\ verify.pc = "rows"
        /\ r.seq > verify.last
    BY Zenon, <1>4 DEF VerifyRow, Ahead, StoredOK, Rows
  <2>3. CASE ~RowHolds(r)
    <3>1. verify.overlap = "none" => verify.damaged
      BY Zenon, <1>0, <2>1, <2>2, <2>3, NextRow DEF VerifyInv, Alone
    <3> QED BY Zenon, <1>2, <2>1, <2>2, <2>3, <3>1
  <2>4. CASE RowHolds(r)
    <3>1. PICK v \in Verifications :
             /\ v = [verify EXCEPT !.last = r.seq, !.prev = r.hash]
             /\ v.pc = verify.pc /\ v.last = r.seq /\ v.prev = r.hash /\ v.strays = verify.strays
             /\ v.damaged = verify.damaged /\ v.overlap = verify.overlap
      <4>1. r.seq \in Nat /\ r.hash \in Seq(Entry)
        BY Zenon, <2>2
      <4> QED BY <1>0, <4>1, RowFieldsRead, Zenon
    <3>2. verify' = v /\ v.pc = "rows"
      BY Zenon, <2>1, <2>2, <2>4, <3>1
    <3>3. Alone(verify) => Alone(v)'
      <4>1. Alone(verify) => v.damaged = (~Intact)' /\ v.strays = Len(strays')
        BY Zenon, <1>0, <1>1, <3>1 DEF Alone
      <4>2. \E q \in rows' : q.seq = v.last /\ q.hash = v.prev
        BY Zenon, <1>0, <2>2, <3>1
      <4> QED BY Zenon, <3>2, <4>1, <4>2 DEF Alone
    <3>4. Undisturbed(verify) => Undisturbed(v)'
      <4>1. ASSUME Undisturbed(verify), verify.strays = 0
            PROVE  /\ Numbered(r.hash) /\ Len(r.hash) = r.seq /\ ChainOf(r.hash) \subseteq rows
        <5>1. /\ Numbered(verify.prev) /\ Len(verify.prev) = verify.last
              /\ ChainOf(verify.prev) \subseteq rows
          BY Zenon, <4>1 DEF Undisturbed
        <5> QED BY Zenon, <1>0, <2>2, <2>4, <5>1, RowRead
      <4> QED BY Zenon, <1>0, <1>1, <3>1, <3>2, <4>1 DEF Undisturbed
    <3>5. VerdictIsTrue'
      BY Zenon, <3>1, <3>2 DEF VerdictIsTrue, VerifyFindsDamage, VerifyBlamesDamage
    <3> QED BY Zenon, <2>2, <3>1, <3>2, <3>3, <3>4, <3>5 DEF VerifyInv
  <2> QED BY Zenon, <2>3, <2>4
<1>5. CASE VerifyRows
  <2>1. PICK v \in Verifications :
           /\ v = [verify EXCEPT !.pc = "head"]
           /\ v.pc = "head" /\ v.last = verify.last /\ v.prev = verify.prev
           /\ v.strays = verify.strays /\ v.damaged = verify.damaged
           /\ v.overlap = verify.overlap
    BY Zenon, <1>0, HeadFields
  <2>2. verify' = v /\ verify.pc = "rows" /\ Ahead = {}
    BY Zenon, <1>5, <2>1 DEF VerifyRows
  <2>3. Alone(verify) => Alone(v)'
    BY Zenon, <1>0, <1>1, <2>1, <2>2, AllRead DEF Alone
  <2>4. \A r \in rows : r.seq <= verify.last
    BY <1>0, <2>2 DEF Ahead, StoredOK, Rows, Verifications
  <2>5. Undisturbed(verify) => Undisturbed(v)'
    BY Zenon, <1>0, <1>1, <2>1, <2>4 DEF Undisturbed
  <2>6. VerdictIsTrue'
    BY Zenon, <2>1, <2>2 DEF VerdictIsTrue, VerifyFindsDamage, VerifyBlamesDamage
  <2> QED BY Zenon, <2>1, <2>2, <2>3, <2>5, <2>6 DEF VerifyInv
<1>6. CASE VerifyHead
  <2>1. verify' = Report(Verdict) /\ verify.pc = "head"
    BY Zenon, <1>6 DEF VerifyHead
  <2>2. Verdict \in {"broken", "unchained", "intact"}
    BY Zenon DEF Verdict
  <2>3. verify.overlap # "tamper" /\ verify.damaged => Verdict = "broken"
    BY Zenon, <1>0, <2>1, DamagedVerdict DEF VerifyInv
  <2>4. verify.overlap = "none" /\ ~verify.damaged => Verdict # "broken"
    <3> SUFFICES ASSUME verify.overlap = "none", ~verify.damaged PROVE Verdict # "broken"
      BY Zenon
    <3>1. Alone(verify)
      BY Zenon, <2>1 DEF VerifyInv
    <3>2. Intact
      BY Zenon, <1>1, <3>1 DEF Alone
    <3> QED BY Zenon, <1>0, <2>1, <3>1, <3>2, IntactVerdict
  <2> QED BY Zenon, <1>2, <2>1, <2>2, <2>3, <2>4
<1> QED BY Zenon, <1>3, <1>4, <1>5, <1>6 DEF Verify

(* A commit or a change from outside during a verification is noted, and   *)
(* the invariant keeps.                                                    *)
LEMMA OverlapStep ==
    ASSUME ChainInv, VerifyInv,
           Tamper \/ \E w \in Writers : Commit(w) \/ CommitDeletion(w)
    PROVE  VerifyInv'
<1>0. verify \in Verifications
  BY Zenon DEF VerifyInv
<1>1. PICK o \in {"commit", "tamper"} :
         /\ Overlapped(o)
         /\ o = "commit" => \E w \in Writers : Commit(w) \/ CommitDeletion(w)
  BY Zenon DEF Tamper, EditRow, LoseRow, LoseHead, ForgeHead, AddStray, Tampered, Commit, CommitDeletion
<1>2. CASE verify.pc \in {"idle", "done"} \/ verify.overlap = "tamper"
  <2>1. verify' = verify
    BY Zenon, <1>1, <1>2 DEF Overlapped
  <2> QED BY Zenon, <1>2, <2>1 DEF VerifyInv, VerdictIsTrue, VerifyFindsDamage, VerifyBlamesDamage
<1>3. CASE ~(verify.pc \in {"idle", "done"} \/ verify.overlap = "tamper")
  <2>1. verify.pc \in {"rows", "head"}
    BY Zenon, <1>0, <1>3 DEF Verifications
  <2>2. PICK v \in Verifications :
           /\ v = [verify EXCEPT !.overlap = o]
           /\ v.pc = verify.pc /\ v.last = verify.last /\ v.prev = verify.prev
           /\ v.strays = verify.strays /\ v.damaged = verify.damaged /\ v.overlap = o
    BY <1>0, OverlapFields
  <2>5. verify' = v
    BY Zenon, <1>1, <1>3, <2>2 DEF Overlapped
  <2>3. o # "tamper" /\ Undisturbed(verify) => Undisturbed(v)'
    BY Zenon, <1>0, <1>1, <2>2, CommitUndisturbed
  <2>4. VerdictIsTrue'
    BY Zenon, <2>1, <2>2, <2>5 DEF VerdictIsTrue, VerifyFindsDamage, VerifyBlamesDamage
  <2> QED BY Zenon, <1>1, <1>3, <2>1, <2>2, <2>3, <2>4, <2>5 DEF VerifyInv
<1> QED BY Zenon, <1>2, <1>3

(* Every step keeps the invariant of the verification.                     *)
LEMMA NextVerifyInv == ChainInv /\ VerifyInv /\ [AuditNext]_auditvars => VerifyInv'
<1> SUFFICES ASSUME ChainInv, VerifyInv, [AuditNext]_auditvars PROVE VerifyInv'
  BY Zenon
<1>1. CASE Verify
  BY Zenon, <1>1, VerifyStep DEF ChainInv
<1>2. CASE Tamper \/ \E w \in Writers : Commit(w) \/ CommitDeletion(w)
  BY Zenon, <1>2, OverlapStep
<1>3. CASE UNCHANGED <<tables, verify>>
  <2>1. (Intact' <=> Intact) /\ Tip' = Tip
    BY Zenon, <1>3, TablesKept
  <2> QED BY Zenon, <1>3, <2>1 DEF VerifyInv, Alone, Undisturbed, VerdictIsTrue, VerifyFindsDamage,
                            VerifyBlamesDamage, tables
<1>4. \/ Verify \/ UNCHANGED <<tables, verify>>
      \/ Tamper \/ \E w \in Writers : Commit(w) \/ CommitDeletion(w)
  BY Zenon DEF AuditNext, auditvars, record_audit, delete_account, Rollback
<1> QED BY Zenon, <1>1, <1>2, <1>3, <1>4

(* A verification reports a chain that was changed outside of the service, *)
(* whatever the writers do while it reads, and blames no chain that was    *)
(* not, unless a commit falls into its reading (verify_audit_chain).       *)
THEOREM TrueVerdicts == AuditSpec => []VerdictIsTrue
<1>1. AuditInit => VerifyInv
  <2> SUFFICES ASSUME AuditInit PROVE VerifyInv
    BY Zenon
  <2>1. NoVerify \in Verifications /\ NoVerify.pc = "idle"
    BY DEF NoVerify, Verifications, Genesis
  <2> QED BY Zenon, <2>1 DEF AuditInit, VerifyInv, VerdictIsTrue, VerifyFindsDamage, VerifyBlamesDamage
<1>2. VerifyInv => VerdictIsTrue
  BY Zenon DEF VerifyInv
<1> QED BY <1>1, <1>2, InitInv, NextInv, NextVerifyInv, PTL DEF AuditSpec

(***************************************************************************)
(* Webhooks.                                                               *)
(***************************************************************************)

(* Replacing one task by a well-formed one keeps all tasks well formed.    *)
LEMMA RunKeeps ==
    ASSUME HooksInv, UNCHANGED endpoint, NEW t \in Senders, NEW x \in SendCalls, SendOK(x), Run(t, x)
    PROVE  HooksInv'
<1>1. /\ sender' \in [Senders -> SendCalls] /\ sender'[t] = x
      /\ \A u \in Senders \ {t} : sender'[u] = sender[u]
  BY Zenon DEF HooksInv, HooksTypeOK, Run
<1>2. HooksTypeOK'
  BY Zenon, <1>1 DEF HooksInv, HooksTypeOK, endpoint
<1>3. \A u \in Senders : SendOK(sender'[u])
  BY Zenon, <1>1 DEF HooksInv
<1>4. (\A u \in Senders : SendOK(sender[u]))'
  BY Zenon, <1>3 DEF SendOK, Counts
<1>5. (\A e \in Endpoints : StreakOK(e))'
  BY Zenon DEF HooksInv, StreakOK, endpoint
<1>6. DisabledRightly'
  BY DEF HooksInv, DisabledRightly, DisabledByStreak, DisabledOnce, endpoint
<1> QED
  BY Zenon, <1>2, <1>4, <1>5, <1>6 DEF HooksInv

(* A call that is between two endpoints, or over.                          *)
LEMMA CallIs ==
    ASSUME NEW p \in {"idle", "next", "done"}, NEW k \in SendKinds, NEW S \in SUBSET Endpoints
    PROVE  Call(p, k, S) \in SendCalls /\ SendOK(Call(p, k, S))
<1>0. NoEndpoint \in Endpoints \cup {NoEndpoint} /\ p \in SendPlaces /\ FALSE \in BOOLEAN /\ 0 \in Nat
  BY Zenon DEF SendPlaces
<1>1. PICK x \in SendCalls : x = Call(p, k, S)
  BY Zenon, <1>0 DEF Call, SendCalls
<1>2. x.pc = p
  BY Zenon, <1>1 DEF Call
<1> QED
  BY Zenon, <1>1, <1>2 DEF SendOK

(* A policy makes at least one attempt.                                    *)
LEMMA AttemptsAre == \A k \in SendKinds : Attempts(k) \in Nat \ {0}
BY WebhooksAssumption DEF Attempts

(* The entries dispatch, test_webhook and redeliver_webhook, and the end.  *)
LEMMA SenderStarts ==
    ASSUME HooksInv, NEW t \in Senders,
           \/ dispatch(t) \/ Return(t) \/ Die(t)
           \/ \E e \in Endpoints : test_webhook(t, e) \/ redeliver_webhook(t, e)
    PROVE  HooksInv'
<1>1. UNCHANGED endpoint
  BY Zenon DEF dispatch, Return, Die, test_webhook, redeliver_webhook
<1>2. PICK p \in {"idle", "next", "done"}, k \in SendKinds, S \in SUBSET Endpoints : Run(t, Call(p, k, S))
  BY Zenon DEF dispatch, Return, Die, test_webhook, redeliver_webhook, SendKinds, active_webhook_endpoints
<1>3. PICK x \in SendCalls : x = Call(p, k, S) /\ SendOK(x)
  BY Zenon, CallIs
<1> QED
  BY Zenon, <1>1, <1>2, <1>3, RunKeeps

(* The steps of send and deliver_with_retry up to the writing of the log.  *)
LEMMA SenderServes ==
    ASSUME HooksInv, NEW t \in Senders,
           \/ \E e \in Endpoints : send(t, e)
           \/ Attempt(t) \/ is_safe_delivery_url_refuses(t) \/ AnswerOk(t) \/ BodyRead(t)
           \/ AnswerReject(t) \/ AnswerError(t) \/ Deadline(t)
    PROVE  HooksInv'
<1>0. UNCHANGED endpoint
  BY Zenon DEF send, Attempt, is_safe_delivery_url_refuses, AnswerOk, BodyRead, AnswerReject, AnswerError, Deadline
<1>1. PICK x \in SendCalls : x = sender[t] /\ SendOK(x)
  BY Zenon DEF HooksInv, HooksTypeOK
<1>2. PICK k \in SendKinds : k = x.kind
  BY Zenon DEF SendCalls
<1>3. PICK m \in Nat \ {0} : m = Attempts(k)
  BY Zenon, AttemptsAre
<1>4. PICK f \in {"failed", "dead"} : f = failed_status(k) /\ (k # "ping" => f = "dead")
  BY Zenon DEF failed_status
<1>5. x.todo \in SUBSET Endpoints /\ x.attempt \in Nat /\ x.posts \in Nat /\ x.ok \in BOOLEAN
  BY Zenon DEF SendCalls
<1>6. CASE \E e \in Endpoints : send(t, e)
  <2>1. PICK e \in Endpoints : send(t, e)
    BY Zenon, <1>6
  <2>2. PICK p \in {"log", "attempt"} : p = IF e \in Unsafe THEN "log" ELSE "attempt"
    BY Zenon
  <2>3. PICK y \in SendCalls : y = [pc |-> p, kind |-> k, todo |-> x.todo \ {e}, ep |-> e, attempt |-> 0,
                                    posts |-> 0, ok |-> FALSE, result |-> "failed"]
    BY Zenon, <1>5 DEF SendCalls, SendPlaces
  <2>4. Run(t, y)
    BY Zenon, <2>1, <2>2, <2>3, <1>1, <1>2 DEF send
  <2>5. y.pc = p /\ y.kind = k /\ y.ep = e /\ y.attempt = 0 /\ y.posts = 0 /\ y.result = "failed"
    BY Zenon, <2>3
  <2>6. SendOK(y)
    BY <2>2, <2>5, <1>3 DEF SendOK, Counts
  <2> QED
    BY Zenon, <2>4, <2>6, <1>0, RunKeeps
<1>7. CASE Attempt(t) \/ is_safe_delivery_url_refuses(t)
  <2>1. x.pc = "attempt" /\ x.ep \in Endpoints \ Unsafe /\ x.posts <= x.attempt /\ x.attempt < m
    BY Zenon, <1>1, <1>2, <1>3, <1>7 DEF Attempt, is_safe_delivery_url_refuses, SendOK
  <2>2. ASSUME NEW n \in {0, 1}, NEW p \in {"wait", "attempt", "log"}, p = "attempt" => x.attempt + 1 < m,
               Run(t, [pc |-> p, kind |-> k, todo |-> x.todo, ep |-> x.ep, attempt |-> x.attempt + 1,
                       posts |-> x.posts + n, ok |-> x.ok, result |-> f])
        PROVE  HooksInv'
    <3>1. PICK y \in SendCalls : y = [pc |-> p, kind |-> k, todo |-> x.todo, ep |-> x.ep, attempt |-> x.attempt + 1,
                       posts |-> x.posts + n, ok |-> x.ok, result |-> f]
      BY <2>1, <2>2, <1>5 DEF SendCalls, SendPlaces
    <3>2. /\ y.pc = p /\ y.kind = k /\ y.ep = x.ep /\ y.attempt = x.attempt + 1 /\ y.posts = x.posts + n
          /\ y.ok = x.ok /\ y.result = f
      BY Zenon, <3>1
    <3>3. y.posts <= y.attempt /\ y.attempt <= m
      <4>1. \A a, b \in Nat : a <= b /\ b < m => a + n <= b + 1 /\ b + 1 <= m
        BY <2>2, <1>3
      <4> QED BY Zenon, <2>1, <3>2, <4>1, <1>5
    <3>4. SendOK(y)
      BY Zenon, <2>1, <2>2, <3>2, <3>3, <1>3, <1>4 DEF SendOK, Counts
    <3> QED
      BY Zenon, <2>2, <3>1, <3>4, <1>0, RunKeeps
  <2>3. CASE Attempt(t)
    <3>1. PICK n \in {0, 1} : n = 1
      BY Zenon
    <3> QED
      BY Zenon, <2>2, <2>3, <3>1, <1>1, <1>2, <1>4 DEF Attempt, Attempted
  <2>4. CASE is_safe_delivery_url_refuses(t)
    <3>1. PICK n \in {0, 1} : n = 0
      BY Zenon
    <3>2. PICK y : y = Attempted(x, "wait", n)
      BY Zenon
    <3>3. /\ y.kind = k /\ y.todo = x.todo /\ y.ep = x.ep /\ y.attempt = x.attempt + 1
          /\ y.posts = x.posts + n /\ y.ok = x.ok
      BY Zenon, <3>2, <1>2 DEF Attempted
    <3>4. PICK p \in {"wait", "attempt", "log"} : p = AfterError(y) /\ (p = "attempt" => x.attempt + 1 < m)
      BY Zenon, <3>3, <1>3 DEF AfterError
    <3>5. Run(t, At(y, p, f))
      BY Zenon, <2>4, <3>1, <3>2, <3>4, <1>1, <1>2, <1>4 DEF is_safe_delivery_url_refuses
    <3> QED
      BY Zenon, <2>2, <3>3, <3>4, <3>5 DEF At
  <2> QED
    BY Zenon, <2>3, <2>4, <1>7
<1>8. CASE AnswerOk(t)
  <2>1. x.pc = "wait" /\ x.result = f /\ x.ep \in Endpoints \ Unsafe /\ x.posts <= x.attempt /\ x.attempt <= m
    BY Zenon, <1>1, <1>2, <1>3, <1>4, <1>8 DEF AnswerOk, SendOK
  <2>2. PICK y \in SendCalls : y = [pc |-> "body", kind |-> k, todo |-> x.todo, ep |-> x.ep, attempt |-> x.attempt,
                                    posts |-> x.posts, ok |-> TRUE, result |-> f]
    BY Zenon, <2>1, <1>5 DEF SendCalls, SendPlaces
  <2>3. Run(t, y)
    BY Zenon, <2>1, <2>2, <1>1, <1>2, <1>8 DEF AnswerOk
  <2>4. SendOK(y)
    BY Zenon, <2>1, <2>2, <1>3 DEF SendOK
  <2> QED
    BY Zenon, <2>3, <2>4, <1>0, RunKeeps
<1>9. CASE BodyRead(t) \/ AnswerReject(t) \/ AnswerError(t) \/ Deadline(t)
  <2>1. /\ x.pc \in {"wait", "body", "attempt"} /\ x.ep \in Endpoints \ Unsafe
        /\ x.posts <= x.attempt /\ x.attempt <= m
    BY Zenon, <1>1, <1>2, <1>3, <1>9 DEF BodyRead, AnswerReject, AnswerError, Deadline, SendOK
  <2>2. ASSUME NEW p \in {"attempt", "log"}, p = "attempt" => x.attempt < m,
               NEW g \in {"failed", "dead", "delivered"}, g = f \/ (g = "delivered" /\ x.ok), Run(t, At(x, p, g))
        PROVE  HooksInv'
    <3>1. PICK y \in SendCalls : y = [pc |-> p, kind |-> k, todo |-> x.todo, ep |-> x.ep, attempt |-> x.attempt,
                       posts |-> x.posts, ok |-> x.ok, result |-> g]
      BY Zenon, <2>1, <2>2, <1>5 DEF SendCalls, SendPlaces
    <3>2. /\ y.pc = p /\ y.kind = k /\ y.ep = x.ep /\ y.attempt = x.attempt /\ y.posts = x.posts
          /\ y.ok = x.ok /\ y.result = g
      BY Zenon, <3>1
    <3>3. SendOK(y)
      BY Zenon, <2>1, <2>2, <3>2, <1>3, <1>4 DEF SendOK, Counts
    <3> QED
      BY Zenon, <2>2, <3>1, <3>3, <1>0, <1>2, RunKeeps DEF At
  <2>3. CASE BodyRead(t)
    <3>1. x.ok
      BY Zenon, <2>3, <1>1 DEF BodyRead, SendOK
    <3>2. PICK p \in {"attempt", "log"}, g \in {"failed", "dead", "delivered"} : p = "log" /\ g = "delivered"
      BY Zenon
    <3> QED
      BY Zenon, <2>2, <2>3, <3>1, <3>2, <1>1 DEF BodyRead
  <2>4. CASE AnswerReject(t) \/ AnswerError(t)
    <3>1. x.result = f
      BY Zenon, <2>4, <1>1, <1>2, <1>4 DEF AnswerReject, AnswerError, SendOK
    <3>2. PICK p \in {"attempt", "log"} : (p = "attempt" => x.attempt < m) /\ Run(t, At(x, p, f))
      BY Zenon, <2>4, <3>1, <1>1, <1>2, <1>3 DEF AnswerReject, AnswerError, AfterError
    <3> QED
      BY Zenon, <2>2, <3>2
  <2>5. CASE Deadline(t)
    <3>1. PICK p \in {"attempt", "log"} : p = "log"
      BY Zenon
    <3> QED
      BY Zenon, <2>2, <2>5, <3>1, <1>1, <1>2, <1>4 DEF Deadline
  <2> QED
    BY Zenon, <2>3, <2>4, <2>5, <1>9
<1> QED
  BY Zenon, <1>6, <1>7, <1>8, <1>9

(* The row of the delivery, written or not.                                *)
LEMMA SenderLogs ==
    ASSUME HooksInv, NEW t \in Senders, log_webhook_delivery(t)
    PROVE  HooksInv'
<1>1. PICK x \in SendCalls : x = sender[t] /\ SendOK(x) /\ x.pc = "log"
  BY Zenon DEF HooksInv, HooksTypeOK, log_webhook_delivery
<1>2. UNCHANGED endpoint /\ Run(t, Logged(x))
  BY Zenon, <1>1 DEF log_webhook_delivery
<1>3. x.kind \in SendKinds /\ x.todo \in SUBSET Endpoints /\ x.ep \in Endpoints
  BY Zenon, <1>1 DEF SendCalls, SendOK
<1>4. CASE Counts(x)
  <2>1. PICK y \in SendCalls : y = [pc |-> "outcome", kind |-> x.kind, todo |-> x.todo, ep |-> x.ep, attempt |-> 0,
                                    posts |-> 0, ok |-> FALSE, result |-> x.result]
    BY Zenon, <1>3 DEF SendCalls, SendPlaces
  <2>2. SendOK(y)
    BY Zenon, <2>1, <1>1, <1>3, <1>4 DEF SendOK
  <2> QED
    BY Zenon, <2>1, <2>2, <1>2, <1>4, RunKeeps DEF Logged
<1>5. CASE ~Counts(x)
  <2>1. PICK p \in {"idle", "next", "done"} : p = "next"
    BY Zenon
  <2>2. PICK y \in SendCalls : y = Call(p, x.kind, x.todo) /\ SendOK(y)
    BY Zenon, <1>3, CallIs
  <2> QED
    BY Zenon, <2>1, <2>2, <1>2, <1>5, RunKeeps DEF Logged
<1> QED
  BY Zenon, <1>4, <1>5

(* The last s + 1 of n + 1 outcomes are the new one and the s before it.   *)
LEMMA LongerStreak ==
    ASSUME NEW n \in Nat, NEW s \in Nat, s <= n, NEW j \in ((n + 1) - (s + 1) + 1) .. (n + 1)
    PROVE  j = n + 1 \/ (j \in (n - s + 1) .. n /\ j \in 1 .. n)
OBVIOUS

(* The last k of n outcomes are among the last s of them.                  *)
LEMMA ShorterStreak ==
    ASSUME NEW n \in Nat, NEW s \in Nat, NEW k \in Nat, k <= s, s <= n
    PROVE  /\ n - k \in 0 .. (n - k)
           /\ \A j \in ((n - k) + 1) .. ((n - k) + k) : j \in (n - s + 1) .. n
OBVIOUS

(* The outcome is recorded, or the write fails: a dead delivery lengthens  *)
(* the streak, and the one that makes it long enough disables the endpoint *)
LEMMA SenderRecords ==
    ASSUME HooksInv, NEW t \in Senders, record_webhook_endpoint_outcome(t)
    PROVE  HooksInv'
<1>1. PICK x \in SendCalls : x = sender[t] /\ SendOK(x) /\ x.pc = "outcome"
  BY Zenon DEF HooksInv, HooksTypeOK, record_webhook_endpoint_outcome
<1>2. PICK e \in Endpoints : e = x.ep
  BY Zenon, <1>1 DEF SendOK
<1>3. PICK g \in {"dead", "delivered"} : g = x.result
  BY Zenon, <1>1 DEF SendOK, SendCalls
<1>4. PICK y \in SendCalls : Run(t, y) /\ SendOK(y)
  <2>1. x.kind \in SendKinds /\ x.todo \in SUBSET Endpoints
    BY Zenon DEF SendCalls
  <2>2. PICK p \in {"idle", "next", "done"} : p = "next"
    BY Zenon
  <2> QED
    BY Zenon, <2>1, <2>2, <1>1, CallIs DEF record_webhook_endpoint_outcome
<1>5. CASE UNCHANGED endpoint
  BY Zenon, <1>4, <1>5, RunKeeps
<1>6. CASE ~UNCHANGED endpoint
  <2>1. /\ IF g = "delivered" THEN record_delivered(e) ELSE record_dead(e)
        /\ outcomes' = [outcomes EXCEPT ![e] = Append(@, g)]
    BY Zenon, <1>1, <1>2, <1>3, <1>6 DEF record_webhook_endpoint_outcome
  <2>2. PICK s \in Nat, o \in Seq({"dead", "delivered"}) : s = streak[e] /\ o = outcomes[e] /\ Len(o) \in Nat
    BY DEF HooksInv, HooksTypeOK
  <2>3. PICK o2 \in Seq({"dead", "delivered"}) : o2 = Append(o, g)
    <3>1. ASSUME NEW S, NEW z \in Seq(S), NEW h \in S PROVE Append(z, h) \in Seq(S)
      OBVIOUS
    <3> QED
      BY Zenon, <3>1
  <2>4. /\ Len(o2) = Len(o) + 1 /\ o2[Len(o) + 1] = g
        /\ \A j \in 1 .. Len(o) : o2[j] = o[j]
    BY <2>2, <2>3
  <2>5. /\ outcomes' \in [Endpoints -> Seq({"dead", "delivered"})] /\ outcomes'[e] = o2
        /\ \A d \in Endpoints \ {e} : outcomes'[d] = outcomes[d]
    BY Zenon, <2>1, <2>2, <2>3 DEF HooksInv, HooksTypeOK
  <2>6. PICK s2 \in Nat : s2 = IF g = "delivered" THEN 0 ELSE s + 1
    BY <2>2
  <2>7. streak' = [streak EXCEPT ![e] = s2]
    BY Zenon, <2>1, <2>2, <2>6 DEF record_delivered, record_dead
  <2>8. /\ streak' \in [Endpoints -> Nat] /\ streak'[e] = s2
        /\ \A d \in Endpoints \ {e} : streak'[d] = streak[d]
    BY Zenon, <2>7 DEF HooksInv, HooksTypeOK
  <2>9. PICK now \in BOOLEAN : now = (g = "dead" /\ trips(e) /\ status[e] = "active")
    BY Zenon
  <2>10. /\ status' = IF now THEN [status EXCEPT ![e] = "inactive"] ELSE status
         /\ disabled' = IF now THEN disabled \cup {e} ELSE disabled
         /\ announced' = IF now THEN [announced EXCEPT ![e] = @ + 1] ELSE announced
    BY Zenon, <2>1, <2>9 DEF record_delivered, record_dead
  <2>11. HooksTypeOK'
    <3>1. status' \in [Endpoints -> {"absent", "active", "inactive", "deleted"}] /\ disabled' \subseteq Endpoints
      BY Zenon, <2>10 DEF HooksInv, HooksTypeOK
    <3>2. announced' \in [Endpoints -> Nat]
      BY <2>10 DEF HooksInv, HooksTypeOK
    <3>3. sender' \in [Senders -> SendCalls]
      BY Zenon, <1>4 DEF HooksInv, HooksTypeOK, Run
    <3> QED
      BY Zenon, <2>5, <2>8, <3>1, <3>2, <3>3 DEF HooksTypeOK
  <2>12. (\A u \in Senders : SendOK(sender[u]))'
    <3>1. sender'[t] = y /\ \A u \in Senders \ {t} : sender'[u] = sender[u]
      BY Zenon, <1>4 DEF HooksInv, HooksTypeOK, Run
    <3>2. \A u \in Senders : SendOK(sender'[u])
      BY Zenon, <3>1, <1>4 DEF HooksInv
    <3> QED
      BY Zenon, <3>2 DEF SendOK, Counts
  <2>13. s <= Len(o) /\ \A j \in (Len(o) - s + 1) .. Len(o) : o[j] = "dead"
    BY Zenon, <2>2 DEF HooksInv, StreakOK
  <2>14. s2 <= Len(o2) /\ \A j \in (Len(o2) - s2 + 1) .. Len(o2) : o2[j] = "dead"
    <3>1. CASE g = "delivered"
      BY <3>1, <2>2, <2>4, <2>6
    <3>2. CASE g = "dead"
      <4>1. s2 <= Len(o2) /\ s2 = s + 1
        BY <3>2, <2>2, <2>4, <2>6, <2>13
      <4>2. ASSUME NEW j \in (Len(o2) - s2 + 1) .. Len(o2) PROVE o2[j] = "dead"
        <5>1. j = Len(o) + 1 \/ (j \in (Len(o) - s + 1) .. Len(o) /\ j \in 1 .. Len(o))
          <6>1. j \in ((Len(o) + 1) - (s + 1) + 1) .. (Len(o) + 1)
            BY <4>1, <4>2, <2>4, Zenon
          <6> QED
            BY <6>1, <2>2, <2>13, LongerStreak, Zenon
        <5> QED
          BY Zenon, <5>1, <3>2, <2>4, <2>13
      <4> QED
        BY Zenon, <4>1, <4>2
    <3> QED
      BY Zenon, <3>1, <3>2
  <2>15. (\A d \in Endpoints : StreakOK(d))'
    <3>1. ASSUME NEW d \in Endpoints PROVE StreakOK(d)'
      <4>1. CASE d = e
        BY Zenon, <4>1, <2>5, <2>8, <2>14 DEF StreakOK
      <4>2. CASE d # e
        BY Zenon, <4>2, <2>5, <2>8 DEF StreakOK, HooksInv
      <4> QED
        BY Zenon, <4>1, <4>2
    <3> QED
      BY Zenon, <3>1
  <2>16. DisabledOnce'
    <3>1. ASSUME NEW d \in Endpoints
          PROVE  /\ announced'[d] = IF d \in disabled' THEN 1 ELSE 0
                 /\ d \in disabled' => status'[d] \in {"inactive", "deleted"}
      <4>1. /\ announced[d] = IF d \in disabled THEN 1 ELSE 0
            /\ d \in disabled => status[d] \in {"inactive", "deleted"}
        BY Zenon DEF HooksInv, DisabledRightly, DisabledOnce
      <4>2. CASE now /\ d = e
        <5>1. d \notin disabled /\ announced[d] = 0
          BY Zenon, <4>1, <4>2, <2>9
        <5>2. announced'[d] = 1 /\ d \in disabled' /\ status'[d] = "inactive"
          BY <4>2, <5>1, <2>10 DEF HooksInv, HooksTypeOK
        <5> QED
          BY Zenon, <5>2
      <4>3. CASE ~(now /\ d = e)
        <5>1. announced'[d] = announced[d] /\ status'[d] = status[d] /\ (d \in disabled' <=> d \in disabled)
          BY Zenon, <4>3, <2>10 DEF HooksInv, HooksTypeOK
        <5> QED
          BY Zenon, <4>1, <5>1
      <4> QED
        BY Zenon, <4>2, <4>3
    <3> QED
      BY Zenon, <3>1 DEF DisabledOnce
  <2>17. DisabledByStreak'
    <3>1. ASSUME NEW d \in disabled'
          PROVE  \E i \in 0..(Len(outcomes'[d]) - Threshold) :
                     \A j \in (i + 1)..(i + Threshold) : outcomes'[d][j] = "dead"
      <4>0. d \in Endpoints /\ Threshold \in Nat
        BY Zenon, <3>1, <2>10, WebhooksAssumption DEF HooksInv, HooksTypeOK
      <4>1. CASE d \in disabled
        <5>1. PICK i \in 0..(Len(outcomes[d]) - Threshold) :
                  \A j \in (i + 1)..(i + Threshold) : outcomes[d][j] = "dead"
          BY Zenon, <4>1 DEF HooksInv, DisabledRightly, DisabledByStreak
        <5>2. CASE d # e
          BY <5>1, <5>2, <4>0, <2>5, Zenon
        <5>3. CASE d = e
          <6>1. i \in 0..(Len(o2) - Threshold)
            <7>1. i \in 0 .. (Len(o) - Threshold)
              BY Zenon, <5>1, <5>3, <2>2
            <7> QED
              BY <7>1, <4>0, <2>2, <2>4
          <6>2. ASSUME NEW j \in (i + 1)..(i + Threshold) PROVE o2[j] = "dead"
            <7>1. j \in 1 .. Len(o) /\ o[j] = "dead"
              BY <5>1, <5>3, <6>2, <4>0, <2>2
            <7> QED
              BY Zenon, <7>1, <2>4
          <6> QED
            BY Zenon, <6>1, <6>2, <5>3, <2>5
        <5> QED
          BY Zenon, <5>2, <5>3
      <4>2. CASE d \notin disabled
        <5>1. d = e /\ now
          BY Zenon, <4>2, <3>1, <2>10
        <5>2. g = "dead" /\ Threshold <= s + 1 /\ s2 = s + 1
          BY Zenon, <5>1, <2>2, <2>6, <2>9, <4>0 DEF trips
        <5>3. PICK n \in Nat : n = Len(o2) /\ Threshold <= s2 /\ s2 <= n
          BY <5>2, <2>2, <2>4, <2>14
        <5>4. /\ n - Threshold \in 0 .. (n - Threshold)
              /\ \A j \in ((n - Threshold) + 1) .. ((n - Threshold) + Threshold) : j \in (n - s2 + 1) .. n
          BY Zenon, <5>3, <4>0, ShorterStreak
        <5>5. \A j \in ((n - Threshold) + 1) .. ((n - Threshold) + Threshold) : o2[j] = "dead"
          BY <5>3, <5>4, <2>14, Zenon
        <5> QED
          BY <5>1, <5>3, <5>4, <5>5, <2>5, Zenon
      <4> QED
        BY Zenon, <4>1, <4>2
    <3> QED
      BY Zenon, <3>1 DEF DisabledByStreak
  <2> QED
    BY Zenon, <2>11, <2>12, <2>15, <2>16, <2>17 DEF HooksInv, DisabledRightly
<1> QED
  BY Zenon, <1>5, <1>6

(* create_webhook and delete_webhook: a disabled endpoint is not revived.  *)
LEMMA OwnerWrites ==
    ASSUME HooksInv, NEW e \in Endpoints, create_webhook(e) \/ delete_webhook(e)
    PROVE  HooksInv'
<1>1. PICK g \in {"active", "deleted"} :
          /\ status' = [status EXCEPT ![e] = g]
          /\ g = "active" => status[e] = "absent"
  BY Zenon DEF create_webhook, delete_webhook
<1>2. UNCHANGED <<disabled, streak, outcomes, announced, sender, log>>
  BY Zenon DEF create_webhook, delete_webhook
<1>3. HooksTypeOK'
  BY Zenon, <1>1, <1>2 DEF HooksInv, HooksTypeOK
<1>4. (\A u \in Senders : SendOK(sender[u]))'
  BY Zenon, <1>2 DEF HooksInv, SendOK, Counts
<1>5. (\A d \in Endpoints : StreakOK(d))' /\ DisabledByStreak'
  BY Zenon, <1>2 DEF HooksInv, StreakOK, DisabledRightly, DisabledByStreak
<1>6. ASSUME NEW d \in Endpoints
      PROVE  /\ announced'[d] = IF d \in disabled' THEN 1 ELSE 0
             /\ d \in disabled' => status'[d] \in {"inactive", "deleted"}
  <2>1. /\ announced[d] = IF d \in disabled THEN 1 ELSE 0
        /\ d \in disabled => status[d] \in {"inactive", "deleted"}
    BY Zenon DEF HooksInv, DisabledRightly, DisabledOnce
  <2>2. status'[d] = IF d = e THEN g ELSE status[d]
    BY Zenon, <1>1 DEF HooksInv, HooksTypeOK
  <2> QED
    BY Zenon, <2>1, <2>2, <1>1, <1>2
<1>7. DisabledOnce'
  BY Zenon, <1>6 DEF DisabledOnce
<1> QED
  BY Zenon, <1>3, <1>4, <1>5, <1>7 DEF HooksInv, DisabledRightly

(* The wallet has no deliveries before its first endpoint.                 *)
LEMMA HooksBegin == HooksInit => HooksInv
<1> SUFFICES ASSUME HooksInit PROVE HooksInv
  BY Zenon
<1>1. PICK x \in SendCalls : x = Call("idle", "event", {}) /\ SendOK(x)
  <2>1. PICK p \in {"idle", "next", "done"}, k \in SendKinds : p = "idle" /\ k = "event"
    BY Zenon DEF SendKinds
  <2>2. {} \in SUBSET Endpoints
    BY Zenon
  <2> QED
    BY Zenon, <2>1, <2>2, CallIs
<1>2. sender = [t \in Senders |-> x]
  BY Zenon, <1>1 DEF HooksInit
<1>3. HooksTypeOK
  BY <1>2 DEF HooksInit, HooksTypeOK
<1>4. \A t \in Senders : SendOK(sender[t])
  BY Zenon, <1>1, <1>2
<1>5. \A e \in Endpoints : StreakOK(e)
  BY DEF HooksInit, StreakOK
<1>6. DisabledRightly
  BY Zenon DEF HooksInit, DisabledRightly, DisabledByStreak, DisabledOnce
<1> QED
  BY Zenon, <1>3, <1>4, <1>5, <1>6 DEF HooksInv

(* Every step keeps the invariant.                                         *)
LEMMA HooksStep == HooksInv /\ [HooksNext]_hookvars => HooksInv'
<1> SUFFICES ASSUME HooksInv, [HooksNext]_hookvars PROVE HooksInv'
  BY Zenon
<1>1. CASE UNCHANGED hookvars
  <2>1. HooksTypeOK'
    BY Zenon, <1>1 DEF HooksInv, HooksTypeOK, hookvars, endpoint
  <2>2. (\A u \in Senders : SendOK(sender[u]))'
    BY Zenon, <1>1 DEF HooksInv, SendOK, Counts, hookvars
  <2>3. (\A d \in Endpoints : StreakOK(d))' /\ DisabledRightly'
    BY <1>1 DEF HooksInv, StreakOK, DisabledRightly, DisabledByStreak, DisabledOnce, hookvars, endpoint
  <2> QED
    BY Zenon, <2>1, <2>2, <2>3 DEF HooksInv
<1>2. ASSUME NEW e \in Endpoints, create_webhook(e) \/ delete_webhook(e) PROVE HooksInv'
  BY Zenon, <1>2, OwnerWrites
<1>3. ASSUME NEW t \in Senders,
             \/ dispatch(t) \/ SendStep(t) \/ Die(t)
             \/ \E e \in Endpoints : test_webhook(t, e) \/ redeliver_webhook(t, e)
      PROVE  HooksInv'
  BY Zenon, <1>3, SenderStarts, SenderServes, SenderLogs, SenderRecords DEF SendStep
<1> QED
  BY Zenon, <1>1, <1>2, <1>3 DEF HooksNext

(* The inductive invariant of the sender and its endpoints.                *)
THEOREM HooksInvHolds == HooksSpec => []HooksInv
  BY HooksBegin, HooksStep, PTL DEF HooksSpec

(* What log_webhook_delivery writes is what deliver_with_retry did, for    *)
(* any endpoints, tasks and policy, and wherever the deadline falls.       *)
THEOREM LogsAreTrue == HooksSpec => []LogTellsRequests
<1>1. HooksInv => LogTellsRequests
  BY Zenon DEF HooksInv, LogTellsRequests, SendOK
<1> QED
  BY <1>1, HooksInvHolds, PTL

(* record_webhook_endpoint_outcome disables an endpoint only for its own   *)
(* streak, and tells one caller, in whatever order deliveries end.         *)
THEOREM DisabledForCause == HooksSpec => []DisabledRightly
<1>1. HooksInv => DisabledRightly
  BY Zenon DEF HooksInv
<1> QED
  BY <1>1, HooksInvHolds, PTL
=============================================================================
