--------------------------- MODULE TaskLogsProofs ---------------------------
(***************************************************************************)
(* Proofs about TaskLogs, for any pods, container runs and handlers, and   *)
(* with any statement failing.  A request carries the content it was sent  *)
(* and the message it read; both have every chunk at its position, and so  *)
(* has what saveTaskLog makes of them, however old the message is by then. *)
(***************************************************************************)
EXTENDS TaskLogs, TLAPS

\* Every chunk stands where the pod wrote it.
InPlace(message) == \A n \in DOMAIN message : message[n].pos = n

\* The locals of a request.
CarriesSound(h) ==
  /\ InPlace(ctx[h].content)
  /\ InPlace(ctx[h].message)
  /\ pc[h] # "idle" => ctx[h].pod \in Pods
  /\ pc[h] \notin {"idle", "pod_create"} => ctx[h].pod \in pods
  /\ pc[h] \in {"log_save", "log_commit"} => ctx[h].id \in DOMAIN logs

LogInv ==
  /\ TypeOK
  /\ \A i \in DOMAIN logs : InPlace(logs[i].message) /\ logs[i].pod \in pods
  /\ \A h \in Handlers : CarriesSound(h)

-----------------------------------------------------------------------------
\* What a pod may post is a log with every chunk at its position.
LEMMA LogInPlace ==
  ASSUME NEW r \in Runs, NEW n \in Nat
  PROVE  Log(r, n) \in Seq(Chunk) /\ InPlace(Log(r, n))
<1>1. Log(r, n) \in [1 .. n -> Chunk]
  BY DEF Log, Chunk
<1> QED
  BY <1>1 DEF Log, InPlace

\* What saveTaskLog adds continues the message it read, whatever both are.
LEMMA ExtendedInPlace ==
  ASSUME NEW message \in Seq(Chunk), NEW content \in Seq(Chunk),
         InPlace(message), InPlace(content)
  PROVE  Extended(message, content) \in Seq(Chunk) /\ InPlace(Extended(message, content))
<1> DEFINE m == Len(message)
           rest == SubSeq(content, m + 1, Len(content))
<1>1. m \in Nat /\ Len(content) \in Nat
  OBVIOUS
<1>2. rest \in Seq(Chunk) /\ Extended(message, content) = message \o rest
  BY <1>1 DEF Extended
<1>3. ASSUME NEW k \in DOMAIN rest PROVE rest[k].pos = m + k
  <2>1. k \in 1 .. Len(content) - m /\ rest[k] = content[m + k]
    BY <1>1, <1>3
  <2>2. m + k \in DOMAIN content
    BY <1>1, <2>1
  <2> QED
    BY <2>1, <2>2 DEF InPlace
<1>4. ASSUME NEW n \in DOMAIN (message \o rest) PROVE (message \o rest)[n].pos = n
  <2> HIDE DEF rest
  <2>1. CASE n <= m
    BY <1>1, <1>2, <2>1 DEF InPlace
  <2>2. CASE n > m
    <3>1. n - m \in DOMAIN rest /\ (message \o rest)[n] = rest[n - m]
      BY <1>1, <1>2, <2>2
    <3> QED
      BY <1>1, <1>3, <3>1
  <2> QED
    BY <1>1, <1>2, <2>1, <2>2
<1> QED
  BY <1>2, <1>4 DEF InPlace

\* The empty locals of an idle handler.
LEMMA IdleSound == IdleCtx \in Ctx /\ InPlace(IdleCtx.content) /\ InPlace(IdleCtx.message)
  BY DEF IdleCtx, Ctx, InPlace

-----------------------------------------------------------------------------
\* A request that ends, in whatever way, leaves sound locals behind.
LEMMA ReturnKeeps ==
  ASSUME LogInv, NEW h \in Handlers, NEW from \in Labels, Return(h, from),
         UNCHANGED <<pods, logs, committed>>
  PROVE  /\ pc' \in [Handlers -> Labels] /\ ctx' \in [Handlers -> Ctx]
         /\ \A k \in Handlers : CarriesSound(k)'
<1>1. pc' = [pc EXCEPT ![h] = "idle"] /\ ctx' = [ctx EXCEPT ![h] = IdleCtx]
  BY DEF Return, Goto
<1>2. pc' \in [Handlers -> Labels] /\ ctx' \in [Handlers -> Ctx]
  BY <1>1, IdleSound DEF LogInv, TypeOK, Labels
<1>3. ASSUME NEW k \in Handlers PROVE CarriesSound(k)'
  <2>1. CASE k = h
    BY <1>1, <2>1, IdleSound DEF LogInv, TypeOK, CarriesSound
  <2>2. CASE k # h
    <3>1. pc'[k] = pc[k] /\ ctx'[k] = ctx[k]
      BY <1>1, <2>2 DEF LogInv, TypeOK
    <3> QED
      BY <3>1 DEF LogInv, CarriesSound
  <2> QED
    BY <2>1, <2>2
<1> QED
  BY <1>2, <1>3

\* The other handlers do not notice a step that adds pods or log rows.
LEMMA OthersKeep ==
  ASSUME LogInv, NEW h \in Handlers, NEW k \in Handlers, k # h,
         pc'[k] = pc[k], ctx'[k] = ctx[k],
         pods \subseteq pods', DOMAIN logs \subseteq DOMAIN logs'
  PROVE  CarriesSound(k)'
  BY DEF LogInv, CarriesSound

-----------------------------------------------------------------------------
(***************************************************************************)
(* Each action preserves LogInv.                                           *)
(***************************************************************************)

LEMMA PostKeeps ==
  ASSUME LogInv, NEW h \in Handlers, Post(h)
  PROVE  LogInv'
<1> USE DEF LogInv
<1>1. PICK p \in Pods \cup {Null}, r \in Runs, n \in 0 .. MaxLength : AddTaskPod(h, p, Log(r, n))
  BY DEF Post
<1>2. n \in Nat /\ p \in Pods
  BY <1>1, BoundsAssumption DEF AddTaskPod
<1>3. Log(r, n) \in Seq(Chunk) /\ InPlace(Log(r, n))
  BY <1>2, LogInPlace
<1>4. /\ ctx' = [ctx EXCEPT ![h] = [pod |-> p, content |-> Log(r, n), id |-> 0, message |-> <<>>]]
      /\ pods' = pods /\ logs' = logs /\ committed' = committed /\ acked' = acked /\ posts' \in Nat
      /\ pc' = [pc EXCEPT ![h] = pc'[h]]
      /\ pc'[h] \in {"pod_create", "answer", "log_find"}
      /\ pc'[h] # "pod_create" => p \in pods
  <2>1. ctx' = [ctx EXCEPT ![h] = [pod |-> p, content |-> Log(r, n), id |-> 0, message |-> <<>>]]
    BY <1>1 DEF AddTaskPod
  <2>2. pods' = pods /\ logs' = logs /\ committed' = committed /\ acked' = acked /\ posts' \in Nat
    BY <1>1 DEF AddTaskPod, TypeOK
  <2>3. pc' = [pc EXCEPT ![h] = IF p \notin pods THEN "pod_create"
                                ELSE IF Log(r, n) = <<>> THEN "answer" ELSE "log_find"]
    BY <1>1 DEF AddTaskPod, Goto
  <2> QED
    BY <2>1, <2>2, <2>3 DEF TypeOK
<1>5. [pod |-> p, content |-> Log(r, n), id |-> 0, message |-> <<>>] \in Ctx
  BY <1>2, <1>3 DEF Ctx
<1>6. TypeOK'
  BY <1>4, <1>5 DEF TypeOK, Labels
<1>7. CarriesSound(h)'
  BY <1>2, <1>3, <1>4 DEF CarriesSound, InPlace, TypeOK
<1>8. \A k \in Handlers : CarriesSound(k)'
  BY <1>4, <1>7, OthersKeep DEF TypeOK
<1> QED
  BY <1>4, <1>6, <1>8

LEMMA PodCreateKeeps ==
  ASSUME LogInv, NEW h \in Handlers, PodCreate(h)
  PROVE  LogInv'
<1> USE DEF LogInv
<1>1. CASE /\ ctx[h].pod \notin pods
           /\ pods' = pods \cup {ctx[h].pod}
           /\ Goto(h, "pod_create", IF ctx[h].content = <<>> THEN "answer" ELSE "log_find")
           /\ ctx' = ctx
  <2>1. /\ pc[h] = "pod_create" /\ ctx[h].pod \in Pods
        /\ logs' = logs /\ committed' = committed /\ acked' = acked /\ posts' = posts
    BY DEF PodCreate, CarriesSound
  <2>2. /\ pc' = [pc EXCEPT ![h] = pc'[h]] /\ pc'[h] \in {"answer", "log_find"}
    BY <1>1 DEF Goto, TypeOK
  <2>3. TypeOK'
    BY <1>1, <2>1, <2>2 DEF TypeOK, Labels
  <2>4. CarriesSound(h)'
    BY <1>1, <2>1, <2>2 DEF CarriesSound
  <2>5. \A k \in Handlers : CarriesSound(k)'
    BY <1>1, <2>1, <2>2, <2>4, OthersKeep DEF TypeOK
  <2> QED
    BY <1>1, <2>1, <2>3, <2>5
<1>2. CASE Return(h, "pod_create") /\ pods' = pods
  <2>1. logs' = logs /\ committed' = committed /\ acked' = acked /\ posts' = posts /\ "pod_create" \in Labels
    BY DEF PodCreate, Labels
  <2> QED
    BY <1>2, <2>1, ReturnKeeps DEF TypeOK
<1> QED
  BY <1>1, <1>2 DEF PodCreate

LEMMA LogFindKeeps ==
  ASSUME LogInv, NEW h \in Handlers, LogFind(h)
  PROVE  LogInv'
<1> USE DEF LogInv
<1>1. /\ pc[h] = "log_find" /\ "log_find" \in Labels
      /\ pods' = pods /\ logs' = logs /\ committed' = committed /\ acked' = acked /\ posts' = posts
  BY DEF LogFind, Labels
<1>2. CASE Goto(h, "log_find", "log_create") /\ ctx' = ctx
  <2>1. pc' = [pc EXCEPT ![h] = "log_create"]
    BY <1>2 DEF Goto
  <2>2. TypeOK' /\ CarriesSound(h)'
    BY <1>1, <1>2, <2>1 DEF TypeOK, Labels, CarriesSound
  <2>3. \A k \in Handlers : CarriesSound(k)'
    BY <1>1, <1>2, <2>1, <2>2, OthersKeep DEF TypeOK
  <2> QED
    BY <1>1, <2>2, <2>3
<1>3. ASSUME NEW i \in RowsOf(ctx[h].pod),
             Goto(h, "log_find", IF Len(logs[i].message) = Len(ctx[h].content)
                                 THEN "answer" ELSE "log_save"),
             ctx' = [ctx EXCEPT ![h].id = i, ![h].message = logs[i].message]
      PROVE  LogInv'
  <2>1. i \in DOMAIN logs /\ i \in Nat /\ logs[i] \in LogRow
    BY <1>3 DEF RowsOf, TypeOK
  <2>2. logs[i].message \in Seq(Chunk) /\ InPlace(logs[i].message)
    BY <2>1 DEF LogRow
  <2>3. /\ ctx'[h] = [ctx[h] EXCEPT !.id = i, !.message = logs[i].message]
        /\ \A k \in Handlers : k # h => ctx'[k] = ctx[k]
    BY <1>3 DEF TypeOK
  <2>4. /\ ctx'[h].pod = ctx[h].pod /\ ctx'[h].content = ctx[h].content
        /\ ctx'[h].id = i /\ ctx'[h].message = logs[i].message /\ ctx'[h] \in Ctx
    BY <2>1, <2>2, <2>3 DEF TypeOK, Ctx
  <2>5. ctx' \in [Handlers -> Ctx]
    BY <1>3, <2>3, <2>4 DEF TypeOK
  <2>6. pc' = [pc EXCEPT ![h] = pc'[h]] /\ pc'[h] \in {"answer", "log_save"}
    BY <1>3 DEF Goto, TypeOK
  <2>7. TypeOK'
    BY <1>1, <2>5, <2>6 DEF TypeOK, Labels
  <2>8. CarriesSound(h)'
    BY <1>1, <2>1, <2>2, <2>4, <2>6 DEF CarriesSound
  <2>9. \A k \in Handlers : CarriesSound(k)'
    BY <1>1, <2>3, <2>6, <2>8, OthersKeep DEF TypeOK
  <2> QED
    BY <1>1, <2>7, <2>9
<1>4. CASE Return(h, "log_find")
  BY <1>1, <1>4, ReturnKeeps DEF TypeOK
<1> QED
  BY <1>2, <1>3, <1>4 DEF LogFind

LEMMA LogCreateKeeps ==
  ASSUME LogInv, NEW h \in Handlers, LogCreate(h)
  PROVE  LogInv'
<1> USE DEF LogInv
<1>1. /\ pc[h] = "log_create" /\ "log_create" \in Labels
      /\ pods' = pods /\ committed' = committed /\ acked' = acked /\ posts' = posts
  BY DEF LogCreate, Labels
<1>2. CASE /\ logs' = Append(logs, [pod |-> ctx[h].pod, message |-> ctx[h].content])
           /\ Goto(h, "log_create", "log_commit")
           /\ ctx' = [ctx EXCEPT ![h].id = Len(logs) + 1]
  <2> DEFINE row == [pod |-> ctx[h].pod, message |-> ctx[h].content]
             n == Len(logs) + 1
  <2>1. /\ ctx[h].pod \in Pods /\ ctx[h].pod \in pods
        /\ ctx[h].content \in Seq(Chunk) /\ InPlace(ctx[h].content)
    BY <1>1 DEF CarriesSound, TypeOK, Ctx
  <2>2. row \in LogRow
    BY <2>1 DEF LogRow
  <2>3. /\ logs' \in Seq(LogRow) /\ DOMAIN logs' = DOMAIN logs \cup {n}
        /\ \A i \in DOMAIN logs : logs'[i] = logs[i]
        /\ logs'[n] = row
    BY <1>2, <2>2 DEF TypeOK
  <2>4. \A i \in DOMAIN logs' : InPlace(logs'[i].message) /\ logs'[i].pod \in pods'
    BY <1>1, <2>1, <2>3
  <2>5. pc' = [pc EXCEPT ![h] = "log_commit"]
    BY <1>2 DEF Goto
  <2>6. n \in Nat /\ n \in DOMAIN logs'
    BY <2>3 DEF TypeOK
  <2> HIDE DEF n, row
  <2>7. ctx' = [ctx EXCEPT ![h].id = n]
    BY <1>2 DEF n
  <2>8. /\ ctx'[h] \in Ctx /\ ctx'[h].id = n
        /\ ctx'[h].pod = ctx[h].pod /\ ctx'[h].content = ctx[h].content
        /\ ctx'[h].message = ctx[h].message
        /\ \A k \in Handlers : k # h => ctx'[k] = ctx[k]
    BY <2>6, <2>7 DEF TypeOK, Ctx
  <2>9. ctx' \in [Handlers -> Ctx]
    BY <2>7, <2>8 DEF TypeOK
  <2>10. TypeOK'
    BY <1>1, <2>3, <2>5, <2>9 DEF TypeOK, Labels
  <2>11. CarriesSound(h)'
    BY <1>1, <2>5, <2>6, <2>8 DEF CarriesSound, TypeOK
  <2>12. \A k \in Handlers : CarriesSound(k)'
    BY <1>1, <2>3, <2>5, <2>8, <2>11, OthersKeep DEF TypeOK
  <2> QED
    BY <2>4, <2>10, <2>12
<1>3. CASE Return(h, "log_create") /\ logs' = logs
  BY <1>1, <1>3, ReturnKeeps DEF TypeOK
<1> QED
  BY <1>2, <1>3 DEF LogCreate

LEMMA LogCommitKeeps ==
  ASSUME LogInv, NEW h \in Handlers, LogCommit(h)
  PROVE  LogInv'
<1> USE DEF LogInv
<1>1. /\ pc[h] = "log_commit" /\ pc' = [pc EXCEPT ![h] = "answer"]
      /\ pods' = pods /\ logs' = logs /\ acked' = acked /\ posts' = posts /\ ctx' = ctx
      /\ committed' = committed \cup {ctx[h].id}
  BY DEF LogCommit, Goto
<1>2. ctx[h].id \in DOMAIN logs
  BY <1>1 DEF CarriesSound
<1>3. TypeOK'
  BY <1>1, <1>2 DEF TypeOK, Labels
<1>4. CarriesSound(h)'
  BY <1>1 DEF CarriesSound, TypeOK
<1>5. \A k \in Handlers : CarriesSound(k)'
  BY <1>1, <1>4, OthersKeep DEF TypeOK
<1> QED
  BY <1>1, <1>3, <1>5

LEMMA LogSaveKeeps ==
  ASSUME LogInv, NEW h \in Handlers, LogSave(h)
  PROVE  LogInv'
<1> USE DEF LogInv
<1> DEFINE new == Extended(ctx[h].message, ctx[h].content)
<1>1. /\ pc[h] = "log_save" /\ "log_save" \in Labels
      /\ pods' = pods /\ committed' = committed /\ acked' = acked /\ posts' = posts
  BY DEF LogSave, Labels
<1>2. CASE /\ logs' = [logs EXCEPT ![ctx[h].id].message = new]
           /\ Goto(h, "log_save", "answer")
           /\ ctx' = ctx
  <2>1. /\ ctx[h].content \in Seq(Chunk) /\ InPlace(ctx[h].content)
        /\ ctx[h].message \in Seq(Chunk) /\ InPlace(ctx[h].message)
        /\ ctx[h].id \in DOMAIN logs
    BY <1>1 DEF CarriesSound, TypeOK, Ctx
  <2>2. new \in Seq(Chunk) /\ InPlace(new)
    BY <2>1, ExtendedInPlace
  <2> HIDE DEF new
  <2>3. \A i \in DOMAIN logs : logs[i] \in LogRow
    BY DEF TypeOK
  <2>4. /\ DOMAIN logs' = DOMAIN logs
        /\ \A i \in DOMAIN logs : logs'[i].pod = logs[i].pod /\ logs'[i] \in LogRow
        /\ \A i \in DOMAIN logs : logs'[i].message = IF i = ctx[h].id THEN new ELSE logs[i].message
    BY <1>2, <2>1, <2>2, <2>3 DEF LogRow
  <2>5. logs' \in Seq(LogRow)
    <3>1. DOMAIN logs = 1 .. Len(logs) /\ Len(logs) \in Nat
      BY DEF TypeOK
    <3>2. logs' \in [1 .. Len(logs) -> LogRow]
      BY <1>2, <2>4, <3>1
    <3> QED
      BY <3>1, <3>2
  <2>6. \A i \in DOMAIN logs' : InPlace(logs'[i].message) /\ logs'[i].pod \in pods'
    BY <1>1, <2>2, <2>4
  <2>7. pc' = [pc EXCEPT ![h] = "answer"]
    BY <1>2 DEF Goto
  <2>8. TypeOK'
    BY <1>1, <1>2, <2>5, <2>7 DEF TypeOK, Labels
  <2>9. CarriesSound(h)'
    BY <1>1, <1>2, <2>7 DEF CarriesSound, TypeOK
  <2>10. \A k \in Handlers : CarriesSound(k)'
    BY <1>1, <1>2, <2>4, <2>7, <2>9, OthersKeep DEF TypeOK
  <2> QED
    BY <2>6, <2>8, <2>10
<1>3. CASE Return(h, "log_save") /\ logs' = logs
  BY <1>1, <1>3, ReturnKeeps DEF TypeOK
<1> QED
  BY <1>2, <1>3 DEF LogSave

LEMMA AnswerKeeps ==
  ASSUME LogInv, NEW h \in Handlers, Answer(h)
  PROVE  LogInv'
<1> USE DEF LogInv
<1>1. "answer" \in Labels /\ Return(h, "answer") /\ UNCHANGED <<pods, logs, committed, posts>>
  BY DEF Answer, Labels
<1>2. acked' \in [Pods -> Nat]
  <2>1. ctx[h].pod \in Pods /\ Len(ctx[h].content) \in Nat
    BY <1>1 DEF Return, Goto, CarriesSound, TypeOK, Ctx
  <2> QED
    BY <2>1 DEF Answer, TypeOK
<1> QED
  BY <1>1, <1>2, ReturnKeeps DEF TypeOK

LEMMA FailKeeps ==
  ASSUME LogInv, NEW h \in Handlers, Fail(h)
  PROVE  LogInv'
<1> USE DEF LogInv
<1>1. pc[h] \in Labels /\ Return(h, pc[h]) /\ UNCHANGED <<pods, logs, committed, acked, posts>>
  BY DEF Fail, TypeOK
<1> QED
  BY <1>1, ReturnKeeps DEF TypeOK

-----------------------------------------------------------------------------
LEMMA LogInit ==
  ASSUME Init
  PROVE  LogInv
<1>1. DOMAIN logs = {} /\ logs \in Seq(LogRow)
  BY DEF Init
<1>2. \A h \in Handlers : CarriesSound(h)
  BY IdleSound DEF Init, CarriesSound
<1>3. TypeOK
  BY <1>1, IdleSound DEF Init, TypeOK, Labels
<1> QED
  BY <1>1, <1>2, <1>3 DEF LogInv

LEMMA LogInvariance == Spec => []LogInv
<1>1. ASSUME Init PROVE LogInv
  BY <1>1, LogInit
<1>2. ASSUME LogInv, [Next]_vars PROVE LogInv'
  <2>1. CASE UNCHANGED vars
    <3>1. /\ pods' = pods /\ logs' = logs /\ committed' = committed /\ acked' = acked /\ posts' = posts
          /\ pc' = pc /\ ctx' = ctx
      BY <2>1 DEF vars
    <3> QED
      BY <1>2, <3>1 DEF LogInv, TypeOK, CarriesSound
  <2> QED
    BY <1>2, <2>1, PostKeeps, PodCreateKeeps, LogFindKeeps, LogCreateKeeps,
       LogCommitKeeps, LogSaveKeeps, AnswerKeeps, FailKeeps DEF Next, Step, Waiting
<1> QED
  BY <1>1, <1>2, PTL DEF Spec

\* Every reachable state is well typed.
THEOREM TypeCorrect == Spec => []TypeOK
<1>1. LogInv => TypeOK
  BY DEF LogInv
<1> QED
  BY <1>1, LogInvariance, PTL

\* saveTaskLog never leaves a gap in a log and never repeats a part of it, with any
\* number of overlapping requests and restarts of the container.
THEOREM LogsHaveNoGaps == Spec => []NoGaps
<1>1. LogInv => NoGaps
  BY DEF LogInv, NoGaps, InPlace
<1> QED
  BY <1>1, LogInvariance, PTL

\* AddTaskPod records a pod before any log of it, whatever fails in between.
THEOREM LogsHavePods == Spec => []LogHasPod
<1>1. LogInv => LogHasPod
  BY DEF LogInv, LogHasPod
<1> QED
  BY <1>1, LogInvariance, PTL

-----------------------------------------------------------------------------
(***************************************************************************)
(* As long as the posts of one pod do not overlap, its log only grows and  *)
(* has what was acknowledged.  Requests of different pods may overlap.     *)
(***************************************************************************)
NoOverlap ==
  \A g, h \in Handlers :
    g # h /\ pc[g] # "idle" /\ pc[h] # "idle" => ctx[g].pod # ctx[h].pod

IsFirst(p, i) == i \in RowsOf(p) /\ \A j \in RowsOf(p) : i <= j
Stores(p, n) == \E i \in RowsOf(p) : IsFirst(p, i) /\ Len(logs[i].message) >= n

\* What a request has read of its pod's log still holds when it uses it.
ReadsHold(h) ==
  /\ pc[h] \in {"log_create", "log_commit"} => RowsOf(ctx[h].pod) = {}
  /\ pc[h] = "log_commit" =>
       /\ ctx[h].id \in DOMAIN logs
       /\ logs[ctx[h].id].pod = ctx[h].pod
       /\ logs[ctx[h].id].message = ctx[h].content
  /\ pc[h] = "log_save" =>
       /\ IsFirst(ctx[h].pod, ctx[h].id)
       /\ ctx[h].message = logs[ctx[h].id].message
       /\ Len(ctx[h].message) <= Len(ctx[h].content)
  /\ pc[h] = "answer" /\ Len(ctx[h].content) > 0 => Stores(ctx[h].pod, Len(ctx[h].content))

SerialInv ==
  /\ LogInv
  /\ \A h \in Handlers : ReadsHold(h)
  /\ AckedIsStored

\* The logs of pod p grow, or get their first row; those of others stay.
Grows(p) ==
  /\ DOMAIN logs \subseteq DOMAIN logs'
  /\ \A i \in DOMAIN logs :
       /\ logs'[i].pod = logs[i].pod
       /\ IsPrefix(logs[i].message, logs'[i].message)
       /\ Len(logs[i].message) <= Len(logs'[i].message)
       /\ logs[i].pod # p => logs'[i].message = logs[i].message
  /\ committed \subseteq committed'
  /\ \A i \in committed' \ committed :
       i \in DOMAIN logs /\ logs[i].pod = p /\ RowsOf(p) = {}

LEMMA PrefixIsPointwise ==
  ASSUME NEW S, NEW s \in Seq(S), NEW t \in Seq(S)
  PROVE  IsPrefix(s, t) <=> Len(s) <= Len(t) /\ \A i \in 1 .. Len(s) : s[i] = t[i]
<1>1. SubSeq(s, 1, Len(s)) = s
  OBVIOUS
<1>2. Len(s) <= Len(t) =>
        /\ SubSeq(t, 1, Len(s)) \in Seq(S) /\ Len(SubSeq(t, 1, Len(s))) = Len(s)
        /\ \A i \in 1 .. Len(s) : SubSeq(t, 1, Len(s))[i] = t[i]
  OBVIOUS
<1>3. Len(s) <= Len(t) =>
        (s = SubSeq(t, 1, Len(s)) <=> \A i \in 1 .. Len(s) : s[i] = t[i])
  BY <1>2
<1>4. QED
  BY <1>1, <1>3 DEF IsPrefix

LEMMA PrefixOfItself ==
  ASSUME NEW S, NEW s \in Seq(S)
  PROVE  IsPrefix(s, s)
BY PrefixIsPointwise

\* What saveTaskLog adds to is kept.
LEMMA ExtendedIsLonger ==
  ASSUME NEW message \in Seq(Chunk), NEW content \in Seq(Chunk), Len(message) <= Len(content)
  PROVE  /\ Extended(message, content) \in Seq(Chunk)
         /\ IsPrefix(message, Extended(message, content))
         /\ Len(Extended(message, content)) = Len(content)
<1> DEFINE rest == SubSeq(content, Len(message) + 1, Len(content))
<1>1. rest \in Seq(Chunk) /\ Len(rest) = Len(content) - Len(message)
  OBVIOUS
<1> HIDE DEF rest
<1>2. /\ message \o rest \in Seq(Chunk) /\ Len(message \o rest) = Len(content)
      /\ \A i \in 1 .. Len(message) : (message \o rest)[i] = message[i]
  BY <1>1
<1>3. IsPrefix(message, message \o rest)
  BY <1>2, PrefixIsPointwise
<1>4. QED
  BY <1>2, <1>3 DEF Extended, rest

LEMMA LogsTyped ==
  ASSUME LogInv
  PROVE  \A i \in DOMAIN logs : logs[i] \in LogRow /\ logs[i].message \in Seq(Chunk) /\ i \in Nat
<1>1. \A i \in DOMAIN logs : logs[i] \in LogRow /\ i \in Nat
  BY DEF LogInv, TypeOK
<1>2. QED
  BY <1>1 DEF LogRow

LEMMA LogsTypedNext ==
  ASSUME LogInv'
  PROVE  \A i \in DOMAIN logs' : logs'[i].message \in Seq(Chunk)
<1>1. \A i \in DOMAIN logs' : logs'[i] \in LogRow
  BY DEF LogInv, TypeOK
<1>2. QED
  BY <1>1 DEF LogRow

LEMMA UnchangedGrows ==
  ASSUME LogInv, NEW p, UNCHANGED <<logs, committed>>
  PROVE  Grows(p)
<1>1. \A i \in DOMAIN logs : logs[i].message \in Seq(Chunk)
  BY LogsTyped
<1>2. \A i \in DOMAIN logs :
        IsPrefix(logs[i].message, logs[i].message) /\ Len(logs[i].message) <= Len(logs[i].message)
  BY <1>1, PrefixOfItself
<1>3. QED
  BY <1>2 DEF Grows

LEMMA AppendedGrows ==
  ASSUME LogInv, NEW row \in LogRow, logs' = Append(logs, row), committed' = committed
  PROVE  /\ \A p : Grows(p) /\ RowsOf(p)' = RowsOf(p)
         /\ Len(logs) + 1 \in DOMAIN logs' /\ logs'[Len(logs) + 1] = row
<1> DEFINE n == Len(logs)
<1>1. n \in Nat /\ DOMAIN logs = 1 .. n /\ DOMAIN logs' = 1 .. (n + 1)
  BY DEF LogInv, TypeOK
<1>2. /\ \A i \in 1 .. n : logs'[i] = logs[i]
      /\ logs'[n + 1] = row
  BY DEF LogInv, TypeOK
<1>3. \A i \in 1 .. n : logs[i].message \in Seq(Chunk)
  BY <1>1, LogsTyped
<1>4. \A i \in 1 .. n :
        IsPrefix(logs[i].message, logs[i].message) /\ Len(logs[i].message) <= Len(logs[i].message)
  BY <1>3, PrefixOfItself
<1>5. 1 .. (n + 1) = (1 .. n) \cup {n + 1} /\ \A j \in 1 .. n : j <= n + 1
  BY <1>1
<1> HIDE DEF n
<1>6. committed \subseteq 1 .. n
  BY <1>1 DEF LogInv, TypeOK
<1>7. ASSUME NEW p PROVE Grows(p)
  BY <1>1, <1>2, <1>4, <1>5 DEF Grows
<1>8. ASSUME NEW p PROVE RowsOf(p)' = RowsOf(p)
  BY <1>2, <1>6 DEF RowsOf
<1>9. n + 1 \in DOMAIN logs'
  BY <1>1
<1>10. QED
  BY <1>2, <1>7, <1>8, <1>9 DEF n

\* The first row of a pod becomes readable.
LEMMA CommittedGrows ==
  ASSUME LogInv, NEW i \in DOMAIN logs, logs' = logs, committed' = committed \cup {i},
         RowsOf(logs[i].pod) = {}
  PROVE  Grows(logs[i].pod) /\ RowsOf(logs[i].pod)' = {i}
<1>1. \A j \in DOMAIN logs : logs[j].message \in Seq(Chunk)
  BY LogsTyped
<1>2. \A j \in DOMAIN logs :
        IsPrefix(logs[j].message, logs[j].message) /\ Len(logs[j].message) <= Len(logs[j].message)
  BY <1>1, PrefixOfItself
<1>3. Grows(logs[i].pod)
  BY <1>2 DEF Grows
<1>4. RowsOf(logs[i].pod)' = {i}
  BY DEF RowsOf
<1>5. QED
  BY <1>3, <1>4

LEMMA ExtendedGrows ==
  ASSUME LogInv, NEW i \in DOMAIN logs, NEW new \in Seq(Chunk),
         IsPrefix(logs[i].message, new), Len(logs[i].message) <= Len(new),
         logs' = [logs EXCEPT ![i].message = new], committed' = committed
  PROVE  /\ Grows(logs[i].pod) /\ logs'[i].message = new /\ DOMAIN logs' = DOMAIN logs
         /\ \A p : RowsOf(p)' = RowsOf(p)
<1>1. \A j \in DOMAIN logs : logs[j] \in LogRow /\ logs[j].message \in Seq(Chunk)
  BY LogsTyped
<1>2. /\ DOMAIN logs' = DOMAIN logs
      /\ \A j \in DOMAIN logs : logs'[j].pod = logs[j].pod
      /\ \A j \in DOMAIN logs : logs'[j].message = IF j = i THEN new ELSE logs[j].message
  BY <1>1 DEF LogRow
<1>3. \A j \in DOMAIN logs :
        IsPrefix(logs[j].message, logs[j].message) /\ Len(logs[j].message) <= Len(logs[j].message)
  BY <1>1, PrefixOfItself
<1>4. committed \subseteq DOMAIN logs
  BY DEF LogInv, TypeOK
<1>5. Grows(logs[i].pod) /\ \A p : RowsOf(p)' = RowsOf(p)
  BY <1>2, <1>3, <1>4 DEF Grows, RowsOf
<1>6. QED
  BY <1>2, <1>5

-----------------------------------------------------------------------------
\* What is stored stays stored.
LEMMA StoresStays ==
  ASSUME LogInv, LogInv', NEW p, NEW q, NEW n \in Nat, Grows(p), Stores(q, n)
  PROVE  Stores(q, n)'
<1>1. PICK i \in RowsOf(q) : IsFirst(q, i) /\ Len(logs[i].message) >= n
  BY DEF Stores
<1>2. i \in DOMAIN logs /\ i \in Nat /\ i \in committed
  BY DEF RowsOf, LogInv, TypeOK
<1>3. i \in RowsOf(q)' /\ i \in DOMAIN logs'
  BY <1>2 DEF Grows, RowsOf
<1>4. \A j \in RowsOf(q)' : i <= j
  <2>1. ASSUME NEW j \in RowsOf(q)' PROVE j \in RowsOf(q)
    <3>1. CASE j \in committed
      <4>1. j \in DOMAIN logs
        BY <3>1 DEF LogInv, TypeOK
      <4>2. QED
        BY <3>1, <4>1 DEF Grows, RowsOf
    <3>2. CASE j \notin committed
      <4>1. j \in DOMAIN logs /\ logs[j].pod = p /\ RowsOf(p) = {}
        BY <3>2 DEF Grows, RowsOf
      <4>2. logs[j].pod = q
        BY <4>1 DEF Grows, RowsOf
      <4>3. QED
        BY <4>1, <4>2
    <3>3. QED
      BY <3>1, <3>2
  <2>2. QED
    BY <1>1, <2>1 DEF IsFirst
<1>5. Len(logs'[i].message) >= n
  <2>1. Len(logs[i].message) <= Len(logs'[i].message)
    BY <1>2 DEF Grows
  <2>2. logs[i].message \in Seq(Chunk) /\ logs'[i].message \in Seq(Chunk)
    BY <1>2, <1>3, LogsTyped, LogsTypedNext
  <2>3. QED
    BY <1>1, <2>1, <2>2
<1>6. QED
  BY <1>3, <1>4, <1>5 DEF Stores, IsFirst

\* A request of another pod does not notice.
LEMMA OthersReadsHold ==
  ASSUME LogInv, LogInv', NEW p, Grows(p), NEW k \in Handlers, ReadsHold(k),
         pc'[k] = pc[k], ctx'[k] = ctx[k], pc[k] # "idle" => ctx[k].pod # p
  PROVE  ReadsHold(k)'
<1> DEFINE q == ctx[k].pod
<1>1. CASE pc[k] = "idle"
  BY <1>1 DEF ReadsHold
<1>2. CASE q # p
  <2>1. /\ \A i \in DOMAIN logs : logs[i].pod = q =>
             i \in DOMAIN logs' /\ logs'[i].pod = q /\ logs'[i].message = logs[i].message
        /\ RowsOf(q) \subseteq DOMAIN logs
    BY <1>2 DEF Grows, RowsOf, LogInv, TypeOK
  <2>2. RowsOf(q)' = RowsOf(q)
    BY <1>2 DEF Grows, RowsOf, LogInv, TypeOK
  <2>3. Len(ctx[k].content) \in Nat
    BY DEF LogInv, TypeOK, Ctx
  <2>4. pc[k] = "answer" /\ Len(ctx[k].content) > 0 => Stores(q, Len(ctx[k].content))'
    BY <2>3, StoresStays DEF ReadsHold
  <2>5. pc[k] = "log_save" =>
          /\ IsFirst(q, ctx[k].id)'
          /\ ctx'[k].message = logs'[ctx[k].id].message
          /\ Len(ctx[k].message) <= Len(ctx[k].content)
    <3>1. ASSUME pc[k] = "log_save"
          PROVE  ctx[k].id \in DOMAIN logs /\ logs[ctx[k].id].pod = q
      BY <2>1, <3>1 DEF ReadsHold, IsFirst, RowsOf
    <3>2. QED
      BY <2>1, <2>2, <3>1 DEF ReadsHold, IsFirst
  <2>6. pc[k] = "log_commit" =>
          /\ ctx[k].id \in DOMAIN logs'
          /\ logs'[ctx[k].id].pod = q
          /\ logs'[ctx[k].id].message = ctx[k].content
    BY <2>1 DEF ReadsHold
  <2>7. QED
    BY <2>2, <2>4, <2>5, <2>6 DEF ReadsHold
<1>3. QED
  BY <1>1, <1>2

\* A request goes on: its own reads hold, and nobody else's are touched.
LEMMA SerialGoesOn ==
  ASSUME SerialInv, NoOverlap, LogInv', NEW h \in Handlers, NEW p, Grows(p),
         (p = ctx[h].pod /\ pc[h] # "idle") \/ UNCHANGED <<logs, committed>>,
         \A k \in Handlers \ {h} : pc'[k] = pc[k] /\ ctx'[k] = ctx[k],
         ReadsHold(h)', UNCHANGED acked
  PROVE  SerialInv'
<1>1. ASSUME NEW k \in Handlers, k # h PROVE ReadsHold(k)'
  <2>1. ReadsHold(k) /\ pc'[k] = pc[k] /\ ctx'[k] = ctx[k]
    BY <1>1 DEF SerialInv
  <2>2. CASE UNCHANGED <<logs, committed>>
    BY <2>1, <2>2 DEF ReadsHold, Stores, IsFirst, RowsOf
  <2>3. CASE p = ctx[h].pod /\ pc[h] # "idle"
    <3>1. pc[k] # "idle" => ctx[k].pod # p
      BY <1>1, <2>3 DEF NoOverlap
    <3>2. QED
      BY <2>1, <3>1, OthersReadsHold DEF SerialInv
  <2>4. QED
    BY <2>2, <2>3
<1>2. AckedIsStored'
  <2>1. ASSUME NEW q \in Pods, acked[q] > 0
        PROVE  Stores(q, acked[q])'
    <3>1. acked[q] \in Nat /\ Stores(q, acked[q])
      BY <2>1 DEF SerialInv, LogInv, TypeOK, AckedIsStored, Stores, IsFirst
    <3>2. QED
      BY <3>1, StoresStays DEF SerialInv
  <2>2. QED
    BY <2>1 DEF AckedIsStored, Stores, IsFirst
<1>3. QED
  BY <1>1, <1>2 DEF SerialInv

-----------------------------------------------------------------------------
(***************************************************************************)
(* The steps of a request.                                                 *)
(***************************************************************************)

\* A request that returns, or does not touch the logs.
LEMMA IdleHolds ==
  ASSUME NEW h \in Handlers, pc'[h] = "idle"
  PROVE  ReadsHold(h)'
BY DEF ReadsHold

LEMMA ReturnSerial ==
  ASSUME SerialInv, NoOverlap, LogInv', NEW h \in Handlers, NEW from, Return(h, from),
         UNCHANGED <<logs, committed, acked>>
  PROVE  SerialInv'
<1>1. /\ pc'[h] = "idle"
      /\ \A k \in Handlers \ {h} : pc'[k] = pc[k] /\ ctx'[k] = ctx[k]
  BY DEF Return, Goto, SerialInv, LogInv, TypeOK
<1>2. Grows(ctx[h].pod) /\ ReadsHold(h)'
  BY <1>1, IdleHolds, UnchangedGrows DEF SerialInv
<1>3. QED
  BY <1>1, <1>2, SerialGoesOn

LEMMA PostSerial ==
  ASSUME SerialInv, NoOverlap, LogInv', NEW h \in Handlers, Post(h)
  PROVE  SerialInv'
<1>1. PICK q \in Pods \cup {Null}, r \in Runs, n \in 0 .. MaxLength :
        AddTaskPod(h, q, Log(r, n))
  BY DEF Post
<1> DEFINE content == Log(r, n)
           d == [pod |-> q, content |-> content, id |-> 0, message |-> <<>>]
<1>2. /\ pc' = [pc EXCEPT ![h] = IF q \notin pods THEN "pod_create"
                                 ELSE IF content = <<>> THEN "answer" ELSE "log_find"]
      /\ ctx' = [ctx EXCEPT ![h] = d]
      /\ UNCHANGED <<logs, committed, acked>>
  BY <1>1 DEF AddTaskPod, Goto
<1> HIDE DEF content
<1>3. /\ pc'[h] \in {"pod_create", "log_find"} \/ (pc'[h] = "answer" /\ content = <<>>)
      /\ ctx'[h] = d
      /\ \A k \in Handlers \ {h} : pc'[k] = pc[k] /\ ctx'[k] = ctx[k]
  BY <1>2 DEF SerialInv, LogInv, TypeOK
<1>4. ReadsHold(h)'
  <2>1. ctx'[h].content = content /\ Len(<<>>) = 0
    BY <1>3
  <2>2. QED
    BY <1>3, <2>1 DEF ReadsHold
<1>5. Grows(ctx[h].pod)
  BY <1>2, UnchangedGrows DEF SerialInv
<1>6. QED
  BY <1>2, <1>3, <1>4, <1>5, SerialGoesOn

LEMMA PodCreateSerial ==
  ASSUME SerialInv, NoOverlap, LogInv', NEW h \in Handlers, PodCreate(h)
  PROVE  SerialInv'
<1>1. CASE Return(h, "pod_create")
  BY <1>1, ReturnSerial DEF PodCreate
<1>2. CASE /\ Goto(h, "pod_create", IF ctx[h].content = <<>> THEN "answer" ELSE "log_find")
           /\ UNCHANGED ctx
  <2>1. /\ pc'[h] = "log_find" \/ (pc'[h] = "answer" /\ ctx[h].content = <<>>)
        /\ \A k \in Handlers \ {h} : pc'[k] = pc[k] /\ ctx'[k] = ctx[k]
    BY <1>2 DEF Goto, SerialInv, LogInv, TypeOK
  <2>2. ReadsHold(h)'
    <3>1. Len(<<>>) = 0
      OBVIOUS
    <3>2. QED
      BY <1>2, <2>1, <3>1 DEF ReadsHold
  <2>3. UNCHANGED <<logs, committed, acked>>
    BY DEF PodCreate
  <2>4. Grows(ctx[h].pod)
    BY <2>3, UnchangedGrows DEF SerialInv
  <2>5. QED
    BY <2>1, <2>2, <2>3, <2>4, SerialGoesOn
<1>3. QED
  BY <1>1, <1>2 DEF PodCreate

LEMMA LogFindSerial ==
  ASSUME SerialInv, NoOverlap, LogInv', NEW h \in Handlers, LogFind(h)
  PROVE  SerialInv'
<1> PICK p \in Pods : p = ctx[h].pod
  BY DEF LogFind, SerialInv, LogInv, CarriesSound
<1>1. UNCHANGED <<logs, committed, acked>> /\ Grows(p)
  BY UnchangedGrows DEF LogFind, SerialInv
<1>2. CASE RowsOf(p) = {} /\ Goto(h, "log_find", "log_create") /\ UNCHANGED ctx
  <2>1. /\ pc'[h] = "log_create"
        /\ \A k \in Handlers \ {h} : pc'[k] = pc[k] /\ ctx'[k] = ctx[k]
    BY <1>2 DEF Goto, SerialInv, LogInv, TypeOK
  <2>2. ReadsHold(h)'
    BY <1>1, <1>2, <2>1 DEF ReadsHold, RowsOf
  <2>3. QED
    BY <1>1, <2>1, <2>2, SerialGoesOn
<1>3. ASSUME NEW i \in RowsOf(p), \A j \in RowsOf(p) : i <= j,
             Len(logs[i].message) <= Len(ctx[h].content),
             Goto(h, "log_find", IF Len(logs[i].message) = Len(ctx[h].content)
                                 THEN "answer" ELSE "log_save"),
             ctx' = [ctx EXCEPT ![h].id = i, ![h].message = logs[i].message]
      PROVE  SerialInv'
  <2> DEFINE m == logs[i].message
  <2>1. IsFirst(p, i)
    BY <1>3 DEF IsFirst
  <2>2. /\ ctx'[h].pod = p /\ ctx'[h].content = ctx[h].content
        /\ ctx'[h].id = i /\ ctx'[h].message = m
    <3>1. ctx[h] \in Ctx /\ ctx'[h] = [ctx[h] EXCEPT !.id = i, !.message = m]
      BY <1>3 DEF SerialInv, LogInv, TypeOK
    <3>2. QED
      BY <3>1 DEF Ctx
  <2>3. /\ pc'[h] = IF Len(m) = Len(ctx[h].content) THEN "answer" ELSE "log_save"
        /\ \A k \in Handlers \ {h} : pc'[k] = pc[k] /\ ctx'[k] = ctx[k]
    BY <1>3 DEF Goto, SerialInv, LogInv, TypeOK
  <2>4. Len(m) \in Nat /\ Len(ctx[h].content) \in Nat
    <3>1. m \in Seq(Chunk)
      BY LogsTyped DEF SerialInv, LogInv, TypeOK, RowsOf
    <3>2. ctx[h].content \in Seq(Chunk)
      BY DEF SerialInv, LogInv, TypeOK, Ctx
    <3>3. QED
      BY <3>1, <3>2
  <2> HIDE DEF m
  <2>5. RowsOf(p)' = RowsOf(p) /\ logs'[i].message = m /\ IsFirst(p, i)'
    BY <1>1, <2>1 DEF RowsOf, IsFirst, m
  <2>6. ReadsHold(h)'
    <3>1. CASE pc'[h] = "answer" /\ Len(m) = Len(ctx[h].content)
      <4>1. i \in RowsOf(p)' /\ IsFirst(p, i)' /\ Len(logs'[i].message) >= Len(ctx[h].content)
        BY <2>4, <2>5, <3>1 
      <4>2. QED
        BY <2>2, <3>1, <4>1 DEF ReadsHold, Stores
    <3>2. CASE pc'[h] = "log_save"
      BY <1>3, <2>2, <2>5, <3>2 DEF ReadsHold, m
    <3>3. QED
      BY <2>3, <3>1, <3>2
  <2>7. QED
    BY <1>1, <2>3, <2>6, SerialGoesOn
<1>4. CASE Return(h, "log_find")
  BY <1>1, <1>4, ReturnSerial
<1>5. QED
  BY <1>2, <1>3, <1>4 DEF LogFind

LEMMA ContentTyped ==
  ASSUME LogInv, NEW h \in Handlers
  PROVE  ctx[h].content \in Seq(Chunk) /\ Len(ctx[h].content) \in Nat
<1>1. ctx[h] \in Ctx
  BY DEF LogInv, TypeOK
<1>2. ctx[h].content \in Seq(Chunk)
  BY <1>1 DEF Ctx
<1>3. QED
  BY <1>2

LEMMA LogCreateSerial ==
  ASSUME SerialInv, NoOverlap, LogInv', NEW h \in Handlers, LogCreate(h)
  PROVE  SerialInv' /\ Grows(ctx[h].pod)
<1> PICK p \in Pods : p = ctx[h].pod
  BY DEF LogCreate, SerialInv, LogInv, CarriesSound
<1> PICK len \in Nat : len = Len(ctx[h].content)
  BY ContentTyped DEF SerialInv
<1> DEFINE row == [pod |-> p, message |-> ctx[h].content]
           n == Len(logs) + 1
<1>1. CASE Return(h, "log_create") /\ UNCHANGED logs
  BY <1>1, ReturnSerial, UnchangedGrows DEF LogCreate, SerialInv
<1>2. CASE /\ logs' = Append(logs, row)
           /\ Goto(h, "log_create", "log_commit")
           /\ ctx' = [ctx EXCEPT ![h].id = n]
  <2>1. /\ pc[h] = "log_create" /\ pc'[h] = "log_commit"
        /\ \A k \in Handlers \ {h} : pc'[k] = pc[k] /\ ctx'[k] = ctx[k]
    BY <1>2 DEF Goto, SerialInv, LogInv, TypeOK
  <2>2. row \in LogRow /\ row.pod = p /\ row.message = ctx[h].content
    BY <2>1 DEF SerialInv, LogInv, TypeOK, Ctx, CarriesSound, LogRow
  <2> HIDE DEF row, n
  <2>3. /\ Grows(p) /\ RowsOf(p)' = RowsOf(p)
        /\ n \in DOMAIN logs' /\ logs'[n] = row
    BY <1>2, <2>2, AppendedGrows DEF SerialInv, n, LogCreate
  <2>4. ctx'[h].id = n /\ ctx'[h].pod = p /\ ctx'[h].content = ctx[h].content
    BY <1>2 DEF SerialInv, LogInv, TypeOK, Ctx
  <2>5. RowsOf(p)' = {}
    BY <2>1, <2>3 DEF SerialInv, ReadsHold
  <2>6. ReadsHold(h)'
    BY <2>1, <2>2, <2>3, <2>4, <2>5 DEF ReadsHold
  <2>7. QED
    BY <2>1, <2>3, <2>6, SerialGoesOn DEF LogCreate
<1>3. QED
  BY <1>1, <1>2 DEF LogCreate

LEMMA LogCommitSerial ==
  ASSUME SerialInv, NoOverlap, LogInv', NEW h \in Handlers, LogCommit(h)
  PROVE  SerialInv' /\ Grows(ctx[h].pod)
<1> PICK p \in Pods : p = ctx[h].pod
  BY DEF LogCommit, Goto, SerialInv, LogInv, CarriesSound
<1> PICK i : i = ctx[h].id
  OBVIOUS
<1>1. /\ pc[h] = "log_commit" /\ pc'[h] = "answer"
      /\ \A k \in Handlers \ {h} : pc'[k] = pc[k] /\ ctx'[k] = ctx[k]
      /\ ctx'[h] = ctx[h] /\ logs' = logs /\ committed' = committed \cup {i}
      /\ acked' = acked
  BY DEF LogCommit, Goto, SerialInv, LogInv, TypeOK
<1>2. /\ RowsOf(p) = {} /\ i \in DOMAIN logs
      /\ logs[i].pod = p /\ logs[i].message = ctx[h].content
  BY <1>1 DEF SerialInv, ReadsHold
<1>3. Grows(p) /\ RowsOf(p)' = {i}
  BY <1>1, <1>2, CommittedGrows DEF SerialInv
<1>4. i \in Nat /\ Len(ctx[h].content) \in Nat
  BY <1>2, ContentTyped, LogsTyped DEF SerialInv
<1>5. ReadsHold(h)'
  <2>1. ctx'[h].pod = p /\ ctx'[h].content = ctx[h].content /\ logs'[i] = logs[i]
    BY <1>1
  <2>2. IsFirst(p, i)' /\ i \in RowsOf(p)'
    BY <1>3, <1>4 DEF IsFirst
  <2>3. Len(logs'[i].message) >= Len(ctx[h].content)
    BY <1>2, <1>4, <2>1
  <2>4. QED
    BY <1>1, <2>1, <2>2, <2>3 DEF ReadsHold, Stores
<1>6. SerialInv'
  BY <1>1, <1>3, <1>5, SerialGoesOn
<1>7. QED
  BY <1>3, <1>6

LEMMA LogSaveSerial ==
  ASSUME SerialInv, NoOverlap, LogInv', NEW h \in Handlers, LogSave(h)
  PROVE  SerialInv' /\ Grows(ctx[h].pod)
<1> PICK p \in Pods : p = ctx[h].pod
  BY DEF LogSave, SerialInv, LogInv, CarriesSound
<1> PICK i : i = ctx[h].id
  OBVIOUS
<1> PICK len \in Nat : len = Len(ctx[h].content)
  BY ContentTyped DEF SerialInv
<1> DEFINE new == Extended(ctx[h].message, ctx[h].content)
<1>1. CASE Return(h, "log_save") /\ UNCHANGED logs
  BY <1>1, ReturnSerial, UnchangedGrows DEF LogSave, SerialInv
<1>2. CASE logs' = [logs EXCEPT ![i].message = new] /\ Goto(h, "log_save", "answer") /\ UNCHANGED ctx
  <2>1. /\ pc[h] = "log_save" /\ pc'[h] = "answer"
        /\ \A k \in Handlers \ {h} : pc'[k] = pc[k] /\ ctx'[k] = ctx[k]
    BY <1>2 DEF Goto, SerialInv, LogInv, TypeOK
  <2>2. /\ IsFirst(p, i) /\ ctx[h].message = logs[i].message
        /\ Len(ctx[h].message) <= Len(ctx[h].content)
    BY <2>1 DEF SerialInv, ReadsHold
  <2>3. ctx[h].message \in Seq(Chunk) /\ ctx[h].content \in Seq(Chunk)
    BY DEF SerialInv, LogInv, TypeOK, Ctx
  <2>4. new \in Seq(Chunk) /\ IsPrefix(logs[i].message, new) /\ Len(new) = Len(ctx[h].content)
    BY <2>2, <2>3, ExtendedIsLonger
  <2>5. i \in DOMAIN logs /\ logs[i].pod = p /\ committed' = committed
    BY <2>2 DEF IsFirst, RowsOf, SerialInv, LogInv, TypeOK, LogSave
  <2> HIDE DEF new
  <2>6. Grows(p) /\ logs'[i].message = new
    BY <1>2, <2>2, <2>4, <2>5, ExtendedGrows DEF SerialInv
  <2>7. RowsOf(p)' = RowsOf(p)
    BY <1>2, <2>2, <2>4, <2>5, ExtendedGrows DEF SerialInv
  <2>8. IsFirst(p, i)' /\ i \in RowsOf(p)'
    BY <2>2, <2>7 DEF IsFirst
  <2>9. Len(logs'[i].message) >= len
    BY <2>4, <2>6
  <2>10. Stores(p, len)'
    BY <2>8, <2>9 DEF Stores
  <2>11. ReadsHold(h)'
    BY <1>2, <2>1, <2>10 DEF ReadsHold
  <2>12. QED
    BY <2>1, <2>6, <2>11, SerialGoesOn DEF LogSave
<1>3. QED
  BY <1>1, <1>2 DEF LogSave

\* The answer acknowledges what is stored.
LEMMA AnswerSerial ==
  ASSUME SerialInv, NoOverlap, LogInv', NEW h \in Handlers, Answer(h)
  PROVE  SerialInv'
<1> DEFINE p == ctx[h].pod
           n == Len(ctx[h].content)
<1>1. /\ pc[h] = "answer" /\ pc'[h] = "idle" /\ logs' = logs /\ committed' = committed
      /\ \A k \in Handlers \ {h} : pc'[k] = pc[k] /\ ctx'[k] = ctx[k]
      /\ acked' = [acked EXCEPT ![p] = IF n > acked[p] THEN n ELSE acked[p]]
  BY DEF Answer, Return, Goto, SerialInv, LogInv, TypeOK
<1>2. p \in Pods /\ n \in Nat /\ acked \in [Pods -> Nat]
  BY <1>1 DEF SerialInv, LogInv, TypeOK, Ctx, CarriesSound
<1>3. n > 0 => Stores(p, n)
  BY <1>1 DEF SerialInv, ReadsHold
<1>4. \A q \in Pods : acked[q] > 0 => Stores(q, acked[q])
  BY DEF SerialInv, AckedIsStored, Stores, IsFirst
<1> HIDE DEF n, p
<1>5. \A q \in Pods : acked'[q] > 0 => Stores(q, acked'[q])
  BY <1>1, <1>2, <1>3, <1>4
<1>6. AckedIsStored'
  BY <1>1, <1>5 DEF AckedIsStored, Stores, IsFirst, RowsOf
<1>7. ASSUME NEW k \in Handlers PROVE ReadsHold(k)'
  <2>1. CASE k = h
    BY <1>1, <2>1, IdleHolds
  <2>2. CASE k # h
    BY <1>1, <2>2 DEF SerialInv, ReadsHold, Stores, IsFirst, RowsOf
  <2>3. QED
    BY <2>1, <2>2
<1>8. QED
  BY <1>6, <1>7 DEF SerialInv

LEMMA SerialNext ==
  ASSUME SerialInv, NoOverlap, LogInv', [Next]_vars
  PROVE  SerialInv' /\ \E p : Grows(p)
<1>1. ASSUME NEW h \in Handlers, LogCreate(h) \/ LogCommit(h) \/ LogSave(h)
      PROVE  SerialInv' /\ Grows(ctx[h].pod)
  BY <1>1, LogCreateSerial, LogCommitSerial, LogSaveSerial
<1>2. ASSUME NEW h \in Handlers, Post(h) \/ PodCreate(h) \/ LogFind(h) \/ Answer(h) \/ Fail(h)
      PROVE  SerialInv' /\ UNCHANGED <<logs, committed>>
  <2>1. UNCHANGED <<logs, committed>>
    BY <1>2 DEF Post, AddTaskPod, PodCreate, LogFind, Answer, Fail
  <2>2. CASE Fail(h)
    BY <2>2, ReturnSerial DEF Fail
  <2>3. QED
    BY <1>2, <2>1, <2>2, PostSerial, PodCreateSerial, LogFindSerial, AnswerSerial
<1>3. ASSUME UNCHANGED vars PROVE SerialInv' /\ UNCHANGED <<logs, committed>>
  <2>1. ASSUME NEW k \in Handlers PROVE ReadsHold(k)'
    BY <1>3 DEF vars, SerialInv, ReadsHold, Stores, IsFirst, RowsOf
  <2>2. AckedIsStored'
    BY <1>3 DEF vars, SerialInv, AckedIsStored, RowsOf
  <2>3. QED
    BY <1>3, <2>1, <2>2 DEF SerialInv, vars
<1>4. UNCHANGED <<logs, committed>> => \A p : Grows(p)
  BY UnchangedGrows DEF SerialInv
<1>5. QED
  BY <1>1, <1>2, <1>3, <1>4 DEF Next, Step, Waiting

LEMMA SerialInvariance == Spec /\ []NoOverlap => [](SerialInv /\ NoOverlap)
<1>1. Init => SerialInv
  <2>1. ASSUME Init PROVE SerialInv
    <3>1. \A h \in Handlers : ReadsHold(h)
      BY <2>1 DEF Init, ReadsHold
    <3>2. AckedIsStored
      BY <2>1 DEF Init, AckedIsStored
    <3>3. QED
      BY <2>1, <3>1, <3>2, LogInit DEF SerialInv
  <2>2. QED
    BY <2>1
<1>2. SerialInv /\ NoOverlap /\ LogInv' /\ [Next]_vars => SerialInv'
  BY SerialNext
<1>3. QED
  BY <1>1, <1>2, LogInvariance, PTL DEF Spec

\* Where the posts of one pod follow each other, what was answered 204 is in the log
\* that the pod's next post finds: whatever fails, and whatever other pods post.
THEOREM AckedAlwaysStored == Spec /\ []NoOverlap => []AckedIsStored
<1>1. SerialInv => AckedIsStored
  BY DEF SerialInv
<1>2. QED
  BY <1>1, SerialInvariance, PTL

\* ... and saveTaskLog only ever adds to a log.
THEOREM WrittenAlwaysKept == Spec /\ []NoOverlap => WrittenIsKept
<1>1. SerialInv /\ NoOverlap /\ LogInv' /\ [Next]_vars =>
        [\A i \in DOMAIN logs : IsPrefix(logs[i].message, logs'[i].message)]_vars
  BY SerialNext DEF Grows
<1>2. QED
  BY <1>1, SerialInvariance, LogInvariance, PTL DEF Spec, WrittenIsKept
=============================================================================
