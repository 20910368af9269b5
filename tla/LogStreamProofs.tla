-------------------------- MODULE LogStreamProofs --------------------------
(***************************************************************************)
(* Proofs about LogStream, for any number of viewers, watchers, handlers   *)
(* and pods.  What the proofs of TaskLogs say of the requests is carried   *)
(* over by the refinement: next to the sockets, the requests still take    *)
(* the steps of TaskLogs.                                                  *)
(***************************************************************************)
EXTENDS LogStream, TaskLogsProofs, NatFacts

(***************************************************************************)
(* The requests next to the sockets.                                       *)
(***************************************************************************)
LEMMA StreamStepIsLogStep ==
  ASSUME [StreamNext]_allVars
  PROVE  [Next]_vars
<1>1. CASE UNCHANGED allVars
  BY <1>1 DEF allVars
<1>2. ASSUME NEW h \in Handlers, RequestStartsOrFails(h) \/ RequestStep(h)
      PROVE  Next
  BY <1>2 DEF RequestStartsOrFails, RequestStep, Next
<1>3. ASSUME NEW w \in Viewers,
             PreLogs(w) \/ Open(w) \/ Serve(w) \/ Close(w)
      PROVE  UNCHANGED vars
  BY <1>3 DEF PreLogs, Open, Serve, Poll, DeleteEntry, QueryPods, ReadLog, Send, Close, vars
<1>4. ASSUME NEW w \in Watchers, Watch(w) \/ StopWatching(w)
      PROVE  UNCHANGED vars
  BY <1>4 DEF Watch, LastID, WatchedPods, WatchedLogs, RememberID, StopWatching, vars
<1>5. Expires => UNCHANGED vars
  BY DEF Expires, vars
<1>6. Waiting => Next
  BY DEF Next
<1>7. QED
  BY <1>1, <1>2, <1>3, <1>4, <1>5, <1>6 DEF StreamNext

\* Viewers and watchers do not disturb the requests: the stream implements the
\* specification of the task pods and their logs.
THEOREM StreamImplementsLogs == StreamSpec => Spec
<1>1. StreamInit => Init
  BY DEF StreamInit
<1>2. [StreamNext]_allVars => [Next]_vars
  BY StreamStepIsLogStep
<1>3. QED
  BY <1>1, <1>2, PTL DEF StreamSpec, Spec

\* No gap in a stored log, whoever looks at it.
THEOREM StreamKeepsNoGaps == StreamSpec => []NoGaps
BY StreamImplementsLogs, LogsHaveNoGaps, PTL

-----------------------------------------------------------------------------
(***************************************************************************)
(* Types.                                                                  *)
(***************************************************************************)

\* The highest id of a row that can be read, 0 if there is none.
LEMMA LastRowTyped ==
  ASSUME LogInv
  PROVE  LastRow \in Nat
<1> DEFINE ids == committed \cup {0}
<1>1. DOMAIN logs = 1 .. Len(logs) /\ Len(logs) \in Nat /\ committed \subseteq DOMAIN logs
  BY DEF LogInv, TypeOK
<1>2. ids \in SUBSET Nat /\ ids # {} /\ \A n \in ids : n <= Len(logs)
  BY <1>1
<1>3. \E n \in ids : \A m \in ids : m <= n
  <2> HIDE DEF ids
  <2>1. QED
    BY <1>1, <1>2, LargestNat
<1>4. \E n \in ids : \A m \in ids : n >= m
  BY <1>2, <1>3
<1>5. LastRow \in ids
  BY <1>4 DEF LastRow, Max
<1>6. QED
  BY <1>2, <1>5

\* What is read of a pod's log is the message of a row, or nothing is stored.
LEMMA MessagesTyped ==
  ASSUME LogInv
  PROVE  \A p \in Pods : Messages(p) \subseteq Seq(Chunk)
<1>1. <<>> \in Seq(Chunk)
  OBVIOUS
<1>2. \A i \in committed : logs[i].message \in Seq(Chunk)
  BY LogsTyped DEF LogInv, TypeOK
<1>3. QED
  BY <1>1, <1>2 DEF Messages, RowsOf

\* A viewer reads the log of one pod, which may fail.
LEMMA ReadsOne ==
  ASSUME LogInv, StreamTypeOK, NEW w \in Viewers, ReadLog(w)
  PROVE  /\ unread' \in [Sockets -> SUBSET Pods]
         /\ shown' \in [Sockets -> [Pods -> Seq(Chunk)]]
         /\ \A v \in Sockets \ {w} : shown'[v] = shown[v] /\ unread'[v] = unread[v]
         /\ \A p \in Pods : \/ shown'[w][p] = shown[w][p]
                            \/ shown'[w][p] \in Messages(p)
         /\ ~Faults => \A p \in Pods : p \notin unread'[w] /\ p \in unread[w] =>
                                         shown'[w][p] \in Messages(p)
         /\ \A p \in Pods : p \notin unread[w] => p \notin unread'[w] /\ shown'[w][p] = shown[w][p]
<1>1. w \in Sockets
  BY DEF Sockets
<1>2. /\ unread \in [Sockets -> SUBSET Pods]
      /\ shown \in [Sockets -> [Pods -> Seq(Chunk)]]
  BY DEF StreamTypeOK
<1>3. PICK q \in unread[w] :
        /\ unread' = [unread EXCEPT ![w] = @ \ {q}]
        /\ \/ \E message \in Messages(q) : shown' = [shown EXCEPT ![w][q] = message]
           \/ Faults /\ UNCHANGED shown
  BY DEF ReadLog
<1>4. q \in Pods
  BY <1>1, <1>2, <1>3
<1>5. unread' \in [Sockets -> SUBSET Pods]
  BY <1>1, <1>2, <1>3
<1>6. ASSUME NEW message \in Messages(q), shown' = [shown EXCEPT ![w][q] = message]
      PROVE  /\ shown' \in [Sockets -> [Pods -> Seq(Chunk)]]
             /\ shown'[w][q] = message
             /\ \A p \in Pods : p # q => shown'[w][p] = shown[w][p]
             /\ \A v \in Sockets \ {w} : shown'[v] = shown[v]
  <2>1. message \in Seq(Chunk)
    BY <1>4, <1>6, MessagesTyped
  <2>2. shown[w] \in [Pods -> Seq(Chunk)] /\ [shown[w] EXCEPT ![q] = message] \in [Pods -> Seq(Chunk)]
    BY <1>1, <1>2, <2>1
  <2>3. shown' = [shown EXCEPT ![w] = [shown[w] EXCEPT ![q] = message]]
    BY <1>6
  <2>4. QED
    BY <1>1, <1>2, <1>4, <2>2, <2>3
<1>7. QED
  BY <1>1, <1>2, <1>3, <1>4, <1>5, <1>6

\* A watcher reads the logs of all the pods that it has found.
LEMMA ReadsAll ==
  ASSUME LogInv, StreamTypeOK, NEW w \in Watchers, WatchedLogs(w)
  PROVE  /\ shown' \in [Sockets -> [Pods -> Seq(Chunk)]]
         /\ \A p \in Pods : shown'[w][p] = <<>> \/ shown'[w][p] \in Messages(p)
         /\ \A v \in Sockets \ {w} : shown'[v] = shown[v]
<1>1. PICK messages \in [Pods -> {<<>>} \cup UNION {Messages(p) : p \in Pods}] :
        /\ \A p \in Pods : messages[p] \in IF p \in unread[w] THEN Messages(p) ELSE {<<>>}
        /\ shown' = [shown EXCEPT ![w] = messages]
  BY DEF WatchedLogs
<1>2. <<>> \in Seq(Chunk) /\ \A p \in Pods : Messages(p) \subseteq Seq(Chunk)
  BY MessagesTyped
<1>3. messages \in [Pods -> Seq(Chunk)]
  BY <1>1, <1>2
<1>4. w \in Sockets /\ shown \in [Sockets -> [Pods -> Seq(Chunk)]]
  BY DEF Sockets, StreamTypeOK
<1>5. QED
  BY <1>1, <1>3, <1>4

LEMMA StreamTypeNext ==
  ASSUME StreamTypeOK, LogInv, LogInv', [StreamNext]_allVars
  PROVE  StreamTypeOK'
<1>0. TypeOK' /\ pods \subseteq Pods
  BY DEF LogInv, TypeOK
<1> USE DEF StreamTypeOK
<1>1. CASE UNCHANGED allVars
  BY <1>0, <1>1 DEF allVars, streamVars
<1>2. ASSUME NEW h \in Handlers, RequestStartsOrFails(h) \/ RequestStep(h)
      PROVE  StreamTypeOK'
  <2>1. UNCHANGED <<viewer, watcher, unread, shown>>
    BY <1>2 DEF RequestStartsOrFails, RequestStep, streamVars
  <2>2. cached' \in BOOLEAN
    BY <1>2 DEF RequestStartsOrFails, RequestStep, streamVars, Notifies
  <2>3. QED
    BY <1>0, <2>1, <2>2
\* A websocket finds pods or forgets them ...
<1>3. ASSUME NEW w \in Sockets, \/ unread' = unread
                                \/ unread' = [unread EXCEPT ![w] = pods]
                                \/ unread' = [unread EXCEPT ![w] = {}]
      PROVE  unread' \in [Sockets -> SUBSET Pods]
  BY <1>0, <1>3
\* ... and may forget what it was sent.
<1>4. ASSUME NEW w \in Sockets, shown' = [shown EXCEPT ![w] = NoLogs]
      PROVE  shown' \in [Sockets -> [Pods -> Seq(Chunk)]]
  <2>1. NoLogs \in [Pods -> Seq(Chunk)]
    BY DEF NoLogs
  <2>2. QED
    BY <1>4, <2>1
<1>5. ASSUME NEW w \in Viewers, PreLogs(w) \/ Open(w) \/ Poll(w) \/ DeleteEntry(w) \/ QueryPods(w) \/ Send(w)
      PROVE  StreamTypeOK'
  <2>1. viewer' \in [Viewers -> Places] /\ cached' \in BOOLEAN /\ UNCHANGED <<watcher, shown>>
    BY <1>5 DEF PreLogs, Open, Poll, DeleteEntry, QueryPods, Send, Goes, Places
  <2>2. unread' \in [Sockets -> SUBSET Pods]
    BY <1>3, <1>5 DEF PreLogs, Open, Poll, DeleteEntry, QueryPods, Send, FindsPods, Sockets
  <2>3. QED
    BY <1>0, <2>1, <2>2
<1>6. ASSUME NEW w \in Viewers, ReadLog(w)
      PROVE  StreamTypeOK'
  <2>1. UNCHANGED <<cached, viewer, watcher>>
    BY <1>6 DEF ReadLog
  <2>2. QED
    BY <1>0, <1>6, <2>1, ReadsOne
<1>7. ASSUME NEW w \in Viewers, Close(w)
      PROVE  StreamTypeOK'
  <2>1. viewer' \in [Viewers -> Places] /\ UNCHANGED <<cached, watcher>>
    BY <1>7 DEF Close, Places
  <2>2. QED
    BY <1>0, <1>3, <1>4, <1>7, <2>1 DEF Close, Sockets
<1>8. ASSUME NEW w \in Watchers, LastID(w) \/ WatchedPods(w) \/ RememberID(w)
      PROVE  StreamTypeOK'
  <2>1. watcher[w] \in Watcher /\ LastRow \in Nat
    BY LastRowTyped
  <2>2. /\ [watcher[w] EXCEPT !.at = "query", !.next = LastRow] \in Watcher
        /\ [watcher[w] EXCEPT !.at = "read"] \in Watcher
        /\ [watcher[w] EXCEPT !.at = "tick", !.last = watcher[w].next] \in Watcher
    BY <2>1 DEF Watcher
  <2>3. watcher' \in [Watchers -> Watcher]
    BY <1>8, <2>2 DEF LastID, WatchedPods, RememberID
  <2>4. unread' \in [Sockets -> SUBSET Pods] /\ UNCHANGED <<cached, viewer, shown>>
    BY <1>3, <1>8 DEF LastID, WatchedPods, RememberID, Sockets
  <2>5. QED
    BY <1>0, <2>3, <2>4
<1>9. ASSUME NEW w \in Watchers, WatchedLogs(w)
      PROVE  StreamTypeOK'
  <2>1. watcher' \in [Watchers -> Watcher]
    BY <1>9 DEF WatchedLogs, Watcher
  <2>2. unread' \in [Sockets -> SUBSET Pods] /\ UNCHANGED <<cached, viewer>>
    BY <1>3, <1>9 DEF WatchedLogs, Sockets
  <2>3. QED
    BY <1>0, <1>9, <2>1, <2>2, ReadsAll
<1>10. ASSUME NEW w \in Watchers, StopWatching(w)
      PROVE  StreamTypeOK'
  <2>1. watcher' \in [Watchers -> Watcher] /\ UNCHANGED <<cached, viewer>>
    BY <1>10 DEF StopWatching, Watcher
  <2>2. QED
    BY <1>0, <1>3, <1>4, <1>10, <2>1 DEF StopWatching, Sockets
<1>11. CASE Expires \/ (Waiting /\ UNCHANGED streamVars)
  BY <1>0, <1>11 DEF Expires, streamVars
<1>12. QED
  BY <1>1, <1>2, <1>5, <1>6, <1>7, <1>8, <1>9, <1>10, <1>11 DEF StreamNext, Serve, Watch

LEMMA StreamInvariance == StreamSpec => [](LogInv /\ StreamTypeOK)
<1>1. StreamInit => StreamTypeOK
  <2>1. ASSUME StreamInit PROVE StreamTypeOK
    <3>1. TypeOK
      BY <2>1, LogInit DEF StreamInit, LogInv
    <3>2. NoLogs \in [Pods -> Seq(Chunk)]
      BY DEF NoLogs
    <3>3. QED
      BY <2>1, <3>1, <3>2 DEF StreamInit, StreamTypeOK, Places, Watcher
  <2>2. QED
    BY <2>1
<1>2. LogInv /\ LogInv' /\ StreamTypeOK /\ [StreamNext]_allVars => StreamTypeOK'
  BY StreamTypeNext
<1>3. QED
  BY <1>1, <1>2, StreamImplementsLogs, LogInvariance, PTL DEF StreamSpec

\* The cache, the sockets and what they were sent have the types of LogStream.
THEOREM StreamTypeCorrect == StreamSpec => []StreamTypeOK
BY StreamInvariance, PTL

-----------------------------------------------------------------------------
(***************************************************************************)
(* With the posts of each pod one after the other, what a socket was sent  *)
(* is a prefix of what is stored.                                          *)
(***************************************************************************)
ShownInv == LogInv /\ StreamTypeOK /\ ShownIsStored

LEMMA PrefixOfPrefix ==
  ASSUME NEW S, NEW s \in Seq(S), NEW t \in Seq(S), NEW u \in Seq(S),
         IsPrefix(s, t), IsPrefix(t, u)
  PROVE  IsPrefix(s, u)
<1>1. /\ Len(s) <= Len(t) /\ \A i \in 1 .. Len(s) : s[i] = t[i]
      /\ Len(t) <= Len(u) /\ \A i \in 1 .. Len(t) : t[i] = u[i]
  BY PrefixIsPointwise
<1>2. Len(s) <= Len(u) /\ \A i \in 1 .. Len(s) : s[i] = u[i]
  BY <1>1
<1>3. QED
  BY <1>2, PrefixIsPointwise

\* A message read from a row, or nothing, is as ShownIsStored has it.
LEMMA ReadIsPrefix ==
  ASSUME LogInv, NEW p \in Pods, NEW m \in Messages(p)
  PROVE  m = <<>> \/ \E i \in RowsOf(p) : IsPrefix(m, logs[i].message)
<1>1. \A i \in RowsOf(p) : IsPrefix(logs[i].message, logs[i].message)
  BY LogsTyped, PrefixOfItself DEF RowsOf, LogInv, TypeOK
<1>2. QED
  BY <1>1 DEF Messages

LEMMA ShownNext ==
  ASSUME ShownInv, LogInv', StreamTypeOK', NEW q, Grows(q), [StreamNext]_allVars
  PROVE  ShownIsStored'
<1>1. shown \in [Sockets -> [Pods -> Seq(Chunk)]]
  BY DEF ShownInv, StreamTypeOK
\* What a socket keeps is still a prefix ...
<1>2. ASSUME NEW w \in Sockets, NEW p \in Pods, shown'[w] = shown[w]
      PROVE  shown'[w][p] = <<>> \/ \E i \in RowsOf(p)' : IsPrefix(shown'[w][p], logs'[i].message)
  <2>1. CASE shown[w][p] = <<>>
    BY <1>2, <2>1
  <2>2. ASSUME NEW i \in RowsOf(p), IsPrefix(shown[w][p], logs[i].message)
        PROVE  i \in RowsOf(p)' /\ IsPrefix(shown'[w][p], logs'[i].message)
    <3>1. i \in DOMAIN logs /\ logs[i].message \in Seq(Chunk)
      BY LogsTyped DEF RowsOf, ShownInv, LogInv, TypeOK
    <3>2. i \in RowsOf(p)' /\ i \in DOMAIN logs' /\ IsPrefix(logs[i].message, logs'[i].message)
      BY <3>1 DEF Grows, RowsOf
    <3>3. logs'[i].message \in Seq(Chunk) /\ shown[w][p] \in Seq(Chunk)
      BY <1>1, <3>2, LogsTypedNext
    <3>4. QED
      BY <1>2, <2>2, <3>1, <3>2, <3>3, PrefixOfPrefix
  <2>3. QED
    BY <2>1, <2>2 DEF ShownInv, ShownIsStored
\* ... and what it is sent is read from the rows.
<1>3. ASSUME NEW w \in Sockets, UNCHANGED vars,
             \A v \in Sockets \ {w} : shown'[v] = shown[v],
             \A p \in Pods : \/ shown'[w][p] = shown[w][p]
                             \/ shown'[w][p] = <<>>
                             \/ shown'[w][p] \in Messages(p)
      PROVE  ShownIsStored'
  <2>1. ASSUME NEW p \in Pods
        PROVE  RowsOf(p)' = RowsOf(p) /\ logs' = logs
    BY <1>3 DEF RowsOf, vars
  <2>2. ASSUME NEW p \in Pods
        PROVE  shown'[w][p] = <<>> \/ \E i \in RowsOf(p)' : IsPrefix(shown'[w][p], logs'[i].message)
    <3>1. CASE shown'[w][p] = shown[w][p]
      BY <2>1, <3>1 DEF ShownInv, ShownIsStored
    <3>2. CASE shown'[w][p] \in Messages(p)
      BY <2>1, <3>2, ReadIsPrefix DEF ShownInv
    <3>3. QED
      BY <1>3, <3>1, <3>2
  <2>3. QED
    BY <1>2, <1>3, <2>2 DEF ShownIsStored
<1>4. ASSUME NEW w \in Sockets, shown' = [shown EXCEPT ![w] = NoLogs]
      PROVE  ShownIsStored'
  <2>1. \A v \in Sockets : v # w => shown'[v] = shown[v]
    BY <1>1, <1>4
  <2>2. \A p \in Pods : shown'[w][p] = <<>>
    BY <1>1, <1>4 DEF NoLogs
  <2>3. QED
    BY <1>2, <2>1, <2>2 DEF ShownIsStored
<1>5. CASE UNCHANGED shown
  BY <1>2, <1>5 DEF ShownIsStored
<1>6. ASSUME NEW h \in Handlers, RequestStartsOrFails(h) \/ RequestStep(h)
      PROVE  UNCHANGED shown
  BY <1>6 DEF RequestStartsOrFails, RequestStep, streamVars
<1>7. ASSUME NEW w \in Viewers, PreLogs(w) \/ Open(w) \/ Serve(w) \/ Close(w)
      PROVE  ShownIsStored'
  <2>1. CASE ReadLog(w)
    <3>1. UNCHANGED vars /\ w \in Sockets
      BY <2>1 DEF ReadLog, Sockets
    <3>2. QED
      BY <1>3, <2>1, <3>1, ReadsOne DEF ShownInv
  <2>2. CASE ~ReadLog(w)
    <3>1. UNCHANGED shown \/ (w \in Sockets /\ shown' = [shown EXCEPT ![w] = NoLogs])
      BY <1>7, <2>2
         DEF PreLogs, Open, Serve, Poll, DeleteEntry, QueryPods, Send, Close, Sockets
    <3>2. QED
      BY <1>4, <1>5, <3>1
  <2>3. QED
    BY <2>1, <2>2
<1>8. ASSUME NEW w \in Watchers, Watch(w) \/ StopWatching(w)
      PROVE  ShownIsStored'
  <2>1. CASE WatchedLogs(w)
    <3>1. UNCHANGED vars /\ w \in Sockets
      BY <2>1 DEF WatchedLogs, Sockets
    <3>2. QED
      BY <1>3, <2>1, <3>1, ReadsAll DEF ShownInv
  <2>2. CASE ~WatchedLogs(w)
    <3>1. UNCHANGED shown \/ (w \in Sockets /\ shown' = [shown EXCEPT ![w] = NoLogs])
      BY <1>8, <2>2 DEF Watch, LastID, WatchedPods, RememberID, StopWatching, Sockets
    <3>2. QED
      BY <1>4, <1>5, <3>1
  <2>3. QED
    BY <2>1, <2>2
<1>9. CASE Expires \/ UNCHANGED streamVars \/ UNCHANGED allVars
  BY <1>5, <1>9 DEF Expires, streamVars, allVars
<1>10. QED
  BY <1>5, <1>6, <1>7, <1>8, <1>9 DEF StreamNext

\* What was answered 204 is stored, also next to viewers.
THEOREM StreamAckedStored == StreamSpec /\ []NoOverlap => []AckedIsStored
BY StreamImplementsLogs, AckedAlwaysStored, PTL

\* No socket is shown what the log does not hold: neither expiry, nor a failing
\* request, nor another socket makes it see more than a prefix of a stored message.
THEOREM OnlyStoredIsShown == StreamSpec /\ []NoOverlap => []ShownIsStored
<1>1. StreamInit => ShownIsStored
  BY DEF StreamInit, ShownIsStored, NoLogs
<1>2. /\ LogInv /\ LogInv' /\ StreamTypeOK /\ StreamTypeOK' /\ SerialInv /\ NoOverlap
      /\ ShownIsStored /\ [StreamNext]_allVars
      => ShownIsStored'
  BY StreamStepIsLogStep, SerialNext, ShownNext DEF ShownInv
<1>3. QED
  BY <1>1, <1>2, StreamInvariance, StreamImplementsLogs, SerialInvariance, PTL DEF StreamSpec

-----------------------------------------------------------------------------
(***************************************************************************)
(* A viewer of its own misses nothing.  What is stored and not shown is    *)
(* announced by the cache, or will be by a request that has saved it.      *)
(***************************************************************************)
OneViewer == \A v, w \in Viewers : v = w

\* A request that has something to save will say so.
WillNotify(h) == pc[h] \in {"log_commit", "answer"} /\ ctx[h].content # <<>>
SavesContent(h) ==
  pc[h] \in {"log_find", "log_create", "log_commit", "log_save"} => ctx[h].content # <<>>

Pending == cached \/ \E h \in Handlers : WillNotify(h)

\* What a viewer has read is what is stored.  A pod it did not find has no log.
UpToDate(w) == \A p \in Pods \ unread[w] : shown[w][p] \in Messages(p)

MissInv ==
  /\ LogInv
  /\ StreamTypeOK
  /\ \A h \in Handlers : SavesContent(h)
  /\ \A w \in Viewers, p \in Pods : p \notin pods => shown[w][p] = <<>>
  /\ \A w \in Viewers : viewer[w] = "poll" => unread[w] = {}
  /\ \A w \in Viewers :
       viewer[w] \in {"opening", "send", "poll"} => UpToDate(w) \/ Pending

\* Only a request that will notify changes what is stored, and only by its answer,
\* which notifies, does it end.
LEMMA RequestsNotify ==
  ASSUME MissInv, LogInv', NEW h \in Handlers, ~Faults,
         RequestStartsOrFails(h) \/ RequestStep(h)
  PROVE  /\ \A k \in Handlers : SavesContent(k)'
         /\ Pending => Pending'
         /\ UNCHANGED <<logs, committed>> \/ Pending'
         /\ pods \subseteq pods'
<1>1. pc \in [Handlers -> Labels] /\ ctx \in [Handlers -> Ctx]
  BY DEF MissInv, LogInv, TypeOK
\* The handler itself ...
<1>2. ASSUME NEW to, Goto(h, pc[h], to), UNCHANGED ctx,
             to \in {"log_find", "log_create", "log_commit", "log_save"} =>
               ctx[h].content # <<>>
      PROVE  SavesContent(h)' /\ \A k \in Handlers \ {h} : pc'[k] = pc[k] /\ ctx'[k] = ctx[k]
  BY <1>1, <1>2 DEF Goto, SavesContent
\* ... whatever it does.
<1>3. /\ SavesContent(h)' 
      /\ \A k \in Handlers \ {h} : pc'[k] = pc[k] /\ ctx'[k] = ctx[k]
      /\ WillNotify(h) => cached' \/ WillNotify(h)'
      /\ cached => cached'
      /\ UNCHANGED <<logs, committed>> \/ WillNotify(h)'
      /\ pods \subseteq pods'
  <2>1. CASE Post(h) /\ UNCHANGED streamVars
    <3>1. PICK p \in Pods \cup {Null}, r \in Runs, n \in 0 .. MaxLength : AddTaskPod(h, p, Log(r, n))
      BY <2>1 DEF Post
    <3> DEFINE content == Log(r, n)
               d == [pod |-> p, content |-> content, id |-> 0, message |-> <<>>]
    <3>2. /\ pc[h] = "idle"
          /\ pc' = [pc EXCEPT ![h] = IF p \notin pods THEN "pod_create"
                                     ELSE IF content = <<>> THEN "answer" ELSE "log_find"]
          /\ ctx' = [ctx EXCEPT ![h] = d]
          /\ UNCHANGED <<pods, logs, committed>>
      BY <3>1 DEF AddTaskPod, Goto
    <3> HIDE DEF content
    <3>3. ctx'[h] = d /\ (pc'[h] = "log_find" => content # <<>>)
          /\ pc'[h] \in {"pod_create", "answer", "log_find"}
      BY <1>1, <3>2
    <3>4. SavesContent(h)'
      BY <3>3 DEF SavesContent
    <3>5. QED
      BY <1>1, <2>1, <3>2, <3>4 DEF WillNotify, streamVars
  <2>2. CASE PodCreate(h) /\ UNCHANGED streamVars
    <3>1. CASE Return(h, "pod_create")
      BY <1>1, <2>2, <3>1 DEF PodCreate, Return, Goto, SavesContent, WillNotify, streamVars
    <3>2. CASE /\ Goto(h, "pod_create", IF ctx[h].content = <<>> THEN "answer" ELSE "log_find")
               /\ UNCHANGED ctx
      BY <1>1, <2>2, <3>2 DEF PodCreate, Goto, SavesContent, WillNotify, streamVars
    <3>3. QED
      BY <2>2, <3>1, <3>2 DEF PodCreate
  <2>3. CASE LogFind(h) /\ UNCHANGED streamVars
    <3>1. ctx[h].content # <<>> /\ pc[h] = "log_find" /\ UNCHANGED <<pods, logs, committed>>
      BY <2>3 DEF LogFind, MissInv, SavesContent
    <3>2. CASE Return(h, "log_find")
      BY <1>1, <2>3, <3>1, <3>2 DEF Return, Goto, SavesContent, WillNotify, streamVars
    <3>3. ASSUME NEW i, ctx' = [ctx EXCEPT ![h].id = i, ![h].message = logs[i].message],
                 Goto(h, "log_find", IF Len(logs[i].message) = Len(ctx[h].content)
                                     THEN "answer" ELSE "log_save")
          PROVE  /\ SavesContent(h)'
                 /\ \A k \in Handlers \ {h} : pc'[k] = pc[k] /\ ctx'[k] = ctx[k]
      <4>1. ctx'[h] = [ctx[h] EXCEPT !.id = i, !.message = logs[i].message]
        BY <1>1, <3>3
      <4>2. ctx'[h].content = ctx[h].content
        BY <1>1, <4>1 DEF Ctx
      <4>3. QED
        BY <1>1, <3>1, <3>3, <4>2 DEF Goto, SavesContent
    <3>4. ASSUME Goto(h, "log_find", "log_create"), UNCHANGED ctx
          PROVE  /\ SavesContent(h)'
                 /\ \A k \in Handlers \ {h} : pc'[k] = pc[k] /\ ctx'[k] = ctx[k]
      BY <1>1, <3>1, <3>4 DEF Goto, SavesContent
    <3>5. WillNotify(h) => cached'
      BY <3>1 DEF WillNotify
    <3>6. cached' = cached
      BY <2>3 DEF streamVars
    <3>7. \/ Return(h, "log_find")
          \/ Goto(h, "log_find", "log_create") /\ UNCHANGED ctx
          \/ \E i : /\ ctx' = [ctx EXCEPT ![h].id = i, ![h].message = logs[i].message]
                    /\ Goto(h, "log_find", IF Len(logs[i].message) = Len(ctx[h].content)
                                           THEN "answer" ELSE "log_save")
      BY <2>3 DEF LogFind
    <3>8. QED
      BY <3>1, <3>2, <3>3, <3>4, <3>5, <3>6, <3>7
  <2>4. CASE LogCreate(h) /\ UNCHANGED streamVars
    <3>1. /\ ctx[h].content # <<>> /\ pc[h] = "log_create"
          /\ UNCHANGED <<pods, committed, cached>>
      BY <2>4 DEF LogCreate, MissInv, SavesContent, streamVars
    <3>2. CASE Return(h, "log_create") /\ UNCHANGED logs
      BY <1>1, <3>1, <3>2 DEF Return, Goto, SavesContent, WillNotify
    <3>3. ASSUME NEW n, Goto(h, "log_create", "log_commit"), ctx' = [ctx EXCEPT ![h].id = n]
          PROVE  /\ SavesContent(h)' /\ WillNotify(h)'
                 /\ \A k \in Handlers \ {h} : pc'[k] = pc[k] /\ ctx'[k] = ctx[k]
      <4>1. ctx'[h].content = ctx[h].content
        BY <1>1, <3>3 DEF Ctx
      <4>2. QED
        BY <1>1, <3>1, <3>3, <4>1 DEF Goto, SavesContent, WillNotify
    <3>4. \/ Return(h, "log_create") /\ UNCHANGED logs
          \/ \E n : Goto(h, "log_create", "log_commit") /\ ctx' = [ctx EXCEPT ![h].id = n]
      BY <2>4 DEF LogCreate
    <3>5. QED
      BY <3>1, <3>2, <3>3, <3>4
  <2>5. CASE (LogCommit(h) \/ LogSave(h)) /\ UNCHANGED streamVars
    <3>1. /\ ctx[h].content # <<>> /\ pc[h] \in {"log_commit", "log_save"}
          /\ UNCHANGED <<pods, cached>>
      BY <2>5 DEF LogCommit, LogSave, Goto, MissInv, SavesContent, streamVars
    <3>2. CASE pc[h] = "log_save" /\ Return(h, pc[h]) /\ UNCHANGED <<logs, committed>>
      BY <1>1, <3>1, <3>2 DEF Return, Goto, SavesContent, WillNotify
    <3>3. CASE Goto(h, pc[h], "answer") /\ UNCHANGED ctx
      BY <1>1, <3>1, <3>3 DEF Goto, SavesContent, WillNotify
    <3>4. QED
      BY <2>5, <3>2, <3>3 DEF LogCommit, LogSave, Goto, Return
  <2>6. CASE Answer(h) /\ Notifies(h)
    <3>1. pc[h] = "answer" /\ pc'[h] = "idle" /\ UNCHANGED <<pods, logs, committed>>
          /\ \A k \in Handlers \ {h} : pc'[k] = pc[k] /\ ctx'[k] = ctx[k]
      BY <1>1, <2>6 DEF Answer, Return, Goto
    <3>2. (WillNotify(h) => cached') /\ (cached => cached')
      BY <2>6 DEF Notifies, WillNotify
    <3>3. QED
      BY <3>1, <3>2 DEF SavesContent
  <2>7. QED
    BY <2>1, <2>2, <2>3, <2>4, <2>5, <2>6 DEF RequestStartsOrFails, RequestStep, Step, Fail
<1>4. \A k \in Handlers \ {h} : SavesContent(k)' /\ (WillNotify(k) => WillNotify(k)')
  BY <1>3 DEF MissInv, SavesContent, WillNotify
<1>5. QED
  BY <1>3, <1>4 DEF Pending

LEMMA MissNext ==
  ASSUME MissInv, LogInv', StreamTypeOK', ~Faults, ~Expiry, OneViewer, [StreamNext]_allVars
  PROVE  MissInv'
<1>1. ASSUME NEW h \in Handlers, RequestStartsOrFails(h) \/ RequestStep(h)
      PROVE  MissInv'
  <2>1. UNCHANGED <<viewer, unread, shown>>
    BY <1>1 DEF RequestStartsOrFails, RequestStep, streamVars
  <2>2. ASSUME NEW w \in Viewers, viewer'[w] \in {"opening", "send", "poll"}, ~Pending'
        PROVE  UpToDate(w)'
    <3>1. UNCHANGED <<logs, committed>> /\ ~Pending
      BY <1>1, <2>2, RequestsNotify
    <3>2. UpToDate(w)
      BY <2>1, <2>2, <3>1 DEF MissInv
    <3>3. QED
      BY <2>1, <3>1, <3>2 DEF UpToDate, Messages, RowsOf
  <2>3. pods \subseteq pods' /\ \A k \in Handlers : SavesContent(k)'
    BY <1>1, RequestsNotify
  <2>4. QED
    BY <2>1, <2>2, <2>3 DEF MissInv
<1>2. ASSUME UNCHANGED vars PROVE pods' = pods /\ \A h \in Handlers : SavesContent(h)'
  BY <1>2 DEF MissInv, SavesContent, vars
<1>3. ASSUME UNCHANGED vars, cached' = cached PROVE Pending' <=> Pending
  BY <1>3 DEF Pending, WillNotify, vars
<1>4. ASSUME UNCHANGED vars, NEW w \in Viewers, shown'[w] = shown[w], unread'[w] = unread[w]
      PROVE  UpToDate(w)' <=> UpToDate(w)
  BY <1>4 DEF UpToDate, Messages, RowsOf, vars
<1>5. /\ viewer \in [Viewers -> Places] /\ Viewers \subseteq Sockets
      /\ shown \in [Sockets -> [Pods -> Seq(Chunk)]] /\ unread \in [Sockets -> SUBSET Pods]
  BY DEF MissInv, StreamTypeOK, Sockets
\* A pod that is not on record has no log.
<1>6. \A p \in Pods : p \notin pods => RowsOf(p) = {} /\ Messages(p) = {<<>>}
  BY DEF MissInv, LogInv, TypeOK, RowsOf, Messages
\* The only viewer ...
<1>7. ASSUME NEW w \in Viewers, PreLogs(w) \/ Open(w) \/ Serve(w) \/ Close(w)
      PROVE  MissInv'
  <2>1. UNCHANGED vars /\ \A v \in Viewers : v = w
    BY <1>7 DEF PreLogs, Open, Serve, Poll, DeleteEntry, QueryPods, ReadLog, Send, Close, vars,
                OneViewer
  <2>2. CASE PreLogs(w) \/ QueryPods(w)
    <3>1. viewer'[w] # "poll" /\ unread'[w] = pods /\ shown' = shown
      BY <1>5, <2>2 DEF PreLogs, QueryPods, Goes, FindsPods
    <3>2. \A p \in Pods \ pods : shown[w][p] \in Messages(p)
      BY <1>6 DEF MissInv
    <3>3. UpToDate(w)'
      BY <2>1, <3>1, <3>2 DEF UpToDate, Messages, RowsOf, vars
    <3>4. QED
      BY <1>2, <2>1, <3>1, <3>3 DEF MissInv
  <2>3. CASE ReadLog(w)
    <3>1. viewer' = viewer /\ cached' = cached /\ viewer[w] \in {"opening", "send"}
      BY <2>3 DEF ReadLog
    <3>2. /\ \A p \in Pods : shown'[w][p] = shown[w][p] \/ shown'[w][p] \in Messages(p)
          /\ \A p \in Pods : p \notin unread'[w] /\ p \in unread[w] =>
                               shown'[w][p] \in Messages(p)
          /\ \A p \in Pods : p \notin unread[w] => shown'[w][p] = shown[w][p]
      BY <2>3, ReadsOne DEF MissInv
    <3>3. \A p \in Pods : p \notin pods => shown'[w][p] = <<>>
      BY <1>6, <3>2 DEF MissInv
    <3>4. UpToDate(w) => UpToDate(w)'
      <4>1. \A p \in Pods : Messages(p)' = Messages(p)
        BY <2>1 DEF Messages, RowsOf, vars
      <4>2. QED
        BY <3>2, <4>1 DEF UpToDate
    <3>5. QED
      BY <1>2, <1>3, <2>1, <3>1, <3>3, <3>4 DEF MissInv
  <2>4. CASE Open(w) \/ Send(w)
    <3>1. /\ unread[w] = {} /\ unread' = unread /\ shown' = shown /\ cached' = cached
          /\ viewer[w] \in {"opening", "send"}
      BY <2>4 DEF Open, Send, Goes
    <3>2. QED
      BY <1>2, <1>3, <1>4, <2>1, <3>1 DEF MissInv
  <2>5. CASE Poll(w) \/ DeleteEntry(w)
    <3>1. viewer'[w] \notin {"opening", "send", "poll"} /\ shown' = shown
      BY <1>5, <2>5 DEF Poll, DeleteEntry, Goes
    <3>2. QED
      BY <1>2, <2>1, <3>1 DEF MissInv
  <2>6. CASE Close(w)
    <3>1. viewer'[w] = "away" /\ \A p \in Pods : shown'[w][p] = <<>>
      BY <1>5, <2>6 DEF Close, NoLogs
    <3>2. QED
      BY <1>2, <2>1, <3>1 DEF MissInv
  <2>7. QED
    BY <1>7, <2>2, <2>3, <2>4, <2>5, <2>6 DEF Serve
\* ... is not disturbed by a watcher.
<1>8. ASSUME NEW u \in Watchers, Watch(u) \/ StopWatching(u)
      PROVE  MissInv'
  <2>1. UNCHANGED <<vars, cached, viewer>>
    BY <1>8 DEF Watch, LastID, WatchedPods, WatchedLogs, RememberID, StopWatching
  <2>2. UNCHANGED vars /\ cached' = cached /\ viewer' = viewer
    BY <2>1
  <2>3. ASSUME NEW w \in Viewers PROVE shown'[w] = shown[w] /\ unread'[w] = unread[w]
    <3>1. w \in Sockets /\ u \in Sockets /\ w # u
      BY SocketsAssumption DEF Sockets
    <3>2. unread'[w] = unread[w]
      BY <1>5, <1>8, <3>1
         DEF Watch, LastID, WatchedPods, WatchedLogs, RememberID, StopWatching
    <3>3. shown'[w] = shown[w]
      <4>1. CASE WatchedLogs(u)
        BY <3>1, <4>1, ReadsAll DEF MissInv
      <4>2. CASE ~WatchedLogs(u)
        BY <1>5, <1>8, <3>1, <4>2 DEF Watch, LastID, WatchedPods, RememberID, StopWatching
      <4>3. QED
        BY <4>1, <4>2
    <3>4. QED
      BY <3>2, <3>3
  <2>4. QED
    BY <1>2, <1>3, <1>4, <2>2, <2>3 DEF MissInv
<1>9. CASE UNCHANGED <<vars, streamVars>>
  <2>1. UNCHANGED vars /\ cached' = cached /\ viewer' = viewer /\ shown' = shown /\ unread' = unread
    BY <1>9 DEF streamVars
  <2>2. QED
    BY <1>2, <1>3, <1>4, <2>1 DEF MissInv
<1>10. ~Expires
  BY DEF Expires
<1>11. QED
  BY <1>1, <1>7, <1>8, <1>9, <1>10 DEF StreamNext, Waiting, allVars

\* Where nothing fails and no entry expires, the only viewer of a resource that
\* waits has been sent everything that is stored, whenever no request runs and
\* nothing is in the cache: no post slips between its Get, its Delete and its reads.
THEOREM NothingIsMissed ==
  ASSUME ~Faults, ~Expiry, OneViewer
  PROVE  StreamSpec => []NothingMissed
<1>1. StreamInit /\ LogInv /\ StreamTypeOK => MissInv
  BY DEF StreamInit, Init, MissInv, SavesContent, NoLogs, Sockets
<1>2. MissInv /\ LogInv' /\ StreamTypeOK' /\ [StreamNext]_allVars => MissInv'
  BY MissNext
<1>3. MissInv => NothingMissed
  BY DEF MissInv, NothingMissed, UpToDate, Pending, WillNotify, AllIdle
<1>4. QED
  BY <1>1, <1>2, <1>3, StreamInvariance, PTL DEF StreamSpec
=============================================================================
