------------------------------ MODULE TaskLogs ------------------------------
(***************************************************************************)
(* The task pods and their logs.  A pod posts its whole log whenever it    *)
(* has grown; AddTaskPod records the pod and saveTaskLog adds to the row   *)
(* of its log what the row does not have yet.  Requests of one pod may     *)
(* overlap or come out of order (a retry, a delay), and a restarted        *)
(* container begins a new log under the same pod.                          *)
(*                                                                         *)
(* One action is one database statement; FirstOrCreate is a Find and a     *)
(* Create.  A Create runs in a transaction of its own: the INSERT draws    *)
(* the id of a log row, and the COMMIT lets others read it.                *)
(***************************************************************************)
EXTENDS Naturals, Sequences, SequencesExt

CONSTANTS
  Pods,        \* uids of task pods
  Runs,        \* container runs of a pod, each with a log of its own
  MaxLength,   \* bound on the length of a log, in chunks
  Limit,       \* the chunks a message column can hold
  Handlers,    \* request goroutines
  MaxPosts,    \* bound on the number of requests
  Faults,      \* may a statement fail or the process die?
  Null         \* no uid

ASSUME BoundsAssumption == MaxLength \in Nat /\ Limit \in Nat /\ MaxPosts \in Nat
ASSUME FaultsAssumption == Faults \in BOOLEAN
ASSUME NullAssumption == Null \notin Pods

VARIABLES
  pods,       \* uids with a task_pods row
  logs,       \* infra3_task_logs in the order of their ids
  committed,  \* ids of the log rows that can be read
  acked,      \* pod -> length of the longest content answered 204
  posts,      \* requests started so far
  pc, ctx     \* where each handler stands, and its locals

vars == <<pods, logs, committed, acked, posts, pc, ctx>>

Chunk == [run : Runs, pos : Nat \ {0}]
LogRow == [pod : Pods, message : Seq(Chunk)]

\* The first n chunks of the log of a container run.
Log(r, n) == [i \in 1 .. n |-> [run |-> r, pos |-> i]]

Labels ==
  {"idle", "pod_create", "log_find", "log_create", "log_commit", "log_save", "answer"}

\* The pod and content of the request; id and message of the log row it read, or
\* the id that it was given.
IdleCtx == [pod |-> Null, content |-> <<>>, id |-> 0, message |-> <<>>]
Ctx == [pod : Pods \cup {Null}, content : Seq(Chunk), id : Nat, message : Seq(Chunk)]

TypeOK ==
  /\ pods \subseteq Pods
  /\ logs \in Seq(LogRow)
  /\ committed \subseteq DOMAIN logs
  /\ acked \in [Pods -> Nat]
  /\ posts \in Nat
  /\ pc \in [Handlers -> Labels]
  /\ ctx \in [Handlers -> Ctx]

Init ==
  /\ pods = {}
  /\ logs = <<>>
  /\ committed = {}
  /\ acked = [p \in Pods |-> 0]
  /\ posts = 0
  /\ pc = [h \in Handlers |-> "idle"]
  /\ ctx = [h \in Handlers |-> IdleCtx]

-----------------------------------------------------------------------------
Goto(h, from, to) == pc[h] = from /\ pc' = [pc EXCEPT ![h] = to]

Return(h, from) == Goto(h, from, "idle") /\ ctx' = [ctx EXCEPT ![h] = IdleCtx]

RowsOf(p) == {i \in committed : logs[i].pod = p}

\* AddTaskPod up to the Find of its FirstOrCreate.  A request without a uid is
\* refused.
AddTaskPod(h, p, content) ==
  /\ p # Null
  /\ posts < MaxPosts
  /\ posts' = posts + 1
  /\ Goto(h, "idle", IF p \notin pods THEN "pod_create"
                     ELSE IF content = <<>> THEN "answer" ELSE "log_find")
  /\ ctx' = [ctx EXCEPT ![h] =
                [pod |-> p, content |-> content, id |-> 0, message |-> <<>>]]
  /\ UNCHANGED <<pods, logs, committed, acked>>

\* ... and its Create, which the primary key refuses if another request was
\* faster.  Without content the request ends here.
PodCreate(h) ==
  /\ pc[h] = "pod_create"
  /\ \/ /\ ctx[h].pod \notin pods
        /\ pods' = pods \cup {ctx[h].pod}
        /\ Goto(h, "pod_create", IF ctx[h].content = <<>> THEN "answer" ELSE "log_find")
        /\ UNCHANGED ctx
     \/ /\ ctx[h].pod \in pods
        /\ Return(h, "pod_create")
        /\ UNCHANGED pods
  /\ UNCHANGED <<logs, committed, acked, posts>>

\* saveTaskLog: the first log row of the pod, and what to do about its size.  A
\* shorter content than recorded is an error.
LogFind(h) ==
  LET found == RowsOf(ctx[h].pod)
      size(i) == Len(logs[i].message)
  IN
  /\ pc[h] = "log_find"
  /\ \/ /\ found = {}
        /\ Goto(h, "log_find", "log_create")
        /\ UNCHANGED ctx
     \/ \E i \in found :
          /\ \A j \in found : i <= j
          /\ size(i) <= Len(ctx[h].content)
          /\ Goto(h, "log_find", IF size(i) = Len(ctx[h].content) THEN "answer" ELSE "log_save")
          /\ ctx' = [ctx EXCEPT ![h].id = i, ![h].message = logs[i].message]
     \/ \E i \in found :
          /\ \A j \in found : i <= j
          /\ size(i) > Len(ctx[h].content)
          /\ Return(h, "log_find")
  /\ UNCHANGED <<pods, logs, committed, acked, posts>>

\* The INSERT of a Create.  No index makes task_pod_uuid unique: it always
\* succeeds, unless the column cannot hold the message.
LogCreate(h) ==
  /\ pc[h] = "log_create"
  /\ \/ /\ Len(ctx[h].content) <= Limit
        /\ logs' = Append(logs, [pod |-> ctx[h].pod, message |-> ctx[h].content])
        /\ Goto(h, "log_create", "log_commit")
        /\ ctx' = [ctx EXCEPT ![h].id = Len(logs) + 1]
     \/ /\ Len(ctx[h].content) > Limit
        /\ Return(h, "log_create")
        /\ UNCHANGED logs
  /\ UNCHANGED <<pods, committed, acked, posts>>

\* ... and its COMMIT.
LogCommit(h) ==
  /\ Goto(h, "log_commit", "answer")
  /\ committed' = committed \cup {ctx[h].id}
  /\ UNCHANGED <<pods, logs, acked, posts, ctx>>

\* The bytes after what has already been written are added to it.
WholeContent(message, content) == message \o content
OnlyContent(message, content) == content
Extended(message, content) ==
  message \o SubSeq(content, Len(message) + 1, Len(content))

\* Save of the whole row as it was read, with the longer message.
LogSaveErrorIgnored(h) ==
  LET message == Extended(ctx[h].message, ctx[h].content) IN
  /\ Goto(h, "log_save", "answer")
  /\ logs' = IF Len(message) <= Limit
             THEN [logs EXCEPT ![ctx[h].id].message = message] ELSE logs
  /\ UNCHANGED <<pods, committed, acked, posts, ctx>>
LogSave(h) ==
  LET message == Extended(ctx[h].message, ctx[h].content) IN
  /\ pc[h] = "log_save"
  /\ \/ /\ Len(message) <= Limit
        /\ logs' = [logs EXCEPT ![ctx[h].id].message = message]
        /\ Goto(h, "log_save", "answer")
        /\ UNCHANGED ctx
     \/ /\ Len(message) > Limit
        /\ Return(h, "log_save")
        /\ UNCHANGED logs
  /\ UNCHANGED <<pods, committed, acked, posts>>

\* The answer is a success.  With content, the log stream is notified first.
Answer(h) ==
  /\ Return(h, "answer")
  /\ acked' = [acked EXCEPT ![ctx[h].pod] =
                 IF Len(ctx[h].content) > @ THEN Len(ctx[h].content) ELSE @]
  /\ UNCHANGED <<pods, logs, committed, posts>>

\* A statement fails, or the process dies.  Nothing is undone, but an INSERT that
\* is not committed never will be.
Fail(h) ==
  /\ Faults
  /\ pc[h] # "idle"
  /\ Return(h, pc[h])
  /\ UNCHANGED <<pods, logs, committed, acked, posts>>

AllIdle == \A h \in Handlers : pc[h] = "idle"

Post(h) ==
  \E p \in Pods \cup {Null}, r \in Runs, n \in 0 .. MaxLength : AddTaskPod(h, p, Log(r, n))

Step(h) ==
  PodCreate(h) \/ LogFind(h) \/ LogCreate(h) \/ LogCommit(h) \/ LogSave(h)

\* The bound on requests is used up and the server waits.
Waiting == AllIdle /\ posts = MaxPosts /\ UNCHANGED vars

Next ==
  \/ \E h \in Handlers : Post(h) \/ Step(h) \/ Answer(h) \/ Fail(h)
  \/ Waiting

Spec == Init /\ [][Next]_vars

-----------------------------------------------------------------------------
(***************************************************************************)
(* Properties.                                                             *)
(***************************************************************************)

\* A stored log has no gap and repeats nothing: its chunks stand where the pod
\* wrote them, although requests overlap, fail, and read the row before they
\* write it, and although the log of a restarted container is added to.
NoGaps ==
  \A i \in DOMAIN logs : \A n \in DOMAIN logs[i].message : logs[i].message[n].pos = n

\* A log row belongs to a pod on record, even when requests fail half way.
LogHasPod == \A i \in DOMAIN logs : logs[i].pod \in pods

\* A log in the database is not changed once it is written: it is only added to.
WrittenIsKept ==
  [][\A i \in DOMAIN logs : IsPrefix(logs[i].message, logs'[i].message)]_vars

\* What was answered 204 is in the log that the pod's next post finds.
AckedIsStored ==
  \A p \in Pods : acked[p] > 0 =>
    \E i \in RowsOf(p) : (\A j \in RowsOf(p) : i <= j) /\ Len(logs[i].message) >= acked[p]
=============================================================================
