----------------------------- MODULE LogStream -----------------------------
(***************************************************************************)
(* The viewers of a resource's logs, next to the requests of TaskLogs.  A  *)
(* viewer reads the stored logs once (preLogs) and then opens a websocket, *)
(* whose goroutine looks every second for the resource's entry in the      *)
(* cache, removes it, reads the logs and sends them.  AddTaskPod sets the  *)
(* entry after it has saved content; the entry expires after 20 seconds.   *)
(* ResourceLogWatcher serves another websocket: it looks every second for  *)
(* the highest id of a log row, and sends the logs when it has changed.    *)
(* To read the logs is a query of the pods and then, for a viewer, one     *)
(* query for each of them; requests run between any two.                   *)
(***************************************************************************)
EXTENDS TaskLogs

CONSTANTS
  Viewers,   \* websockets of websocketLogs
  Watchers,  \* websockets of ResourceLogWatcher
  Expiry     \* may an entry live for 20 seconds without being looked at?

ASSUME ExpiryAssumption == Expiry \in BOOLEAN
ASSUME SocketsAssumption == Viewers \cap Watchers = {}

VARIABLES
  cached,  \* is the resource's entry in the cache?
  viewer,  \* where the goroutine of each websocket stands
  watcher, \* where each watcher stands, and its locals
  unread,  \* websocket -> pods it has found and not yet read the log of
  shown    \* websocket -> pod -> message it last read, and sends

streamVars == <<cached, viewer, watcher, unread, shown>>
allVars == <<vars, streamVars>>

Places == {"away", "opening", "poll", "delete", "query", "send"}
Sockets == Viewers \cup Watchers
NoLogs == [p \in Pods |-> <<>>]

\* last is lastTaskLogID, next the id that was just read.
Watcher ==
  [at : {"away", "query", "read", "remember", "tick"}, last : Nat, next : Nat]

StreamTypeOK ==
  /\ TypeOK
  /\ cached \in BOOLEAN
  /\ viewer \in [Viewers -> Places]
  /\ watcher \in [Watchers -> Watcher]
  /\ unread \in [Sockets -> SUBSET Pods]
  /\ shown \in [Sockets -> [Pods -> Seq(Chunk)]]

StreamInit ==
  /\ Init
  /\ cached = FALSE
  /\ viewer = [w \in Viewers |-> "away"]
  /\ watcher = [w \in Watchers |-> [at |-> "away", last |-> 0, next |-> 0]]
  /\ unread = [w \in Sockets |-> {}]
  /\ shown = [w \in Sockets |-> NoLogs]

-----------------------------------------------------------------------------
\* What a pod's log is read as: of several rows any, in no defined order.
MessagesOrNull(p) == IF RowsOf(p) = {} THEN {Null} ELSE {logs[i].message : i \in RowsOf(p)}
Messages(p) == IF RowsOf(p) = {} THEN {<<>>} ELSE {logs[i].message : i \in RowsOf(p)}

\* Cache.Set, once content is saved and before the answer.
NotifiesEmptyPosts(h) == cached' = (cached \/ ctx[h].content = <<>>)
Notifies(h) == cached' = (cached \/ ctx[h].content # <<>>)

\* The steps of TaskLogs.  Only the last one of a successful request with
\* content touches the cache.
RequestStep(h) ==
  \/ Step(h) /\ UNCHANGED streamVars
  \/ Answer(h) /\ Notifies(h) /\ UNCHANGED <<viewer, watcher, unread, shown>>

RequestStartsOrFails(h) == (Post(h) \/ Fail(h)) /\ UNCHANGED streamVars

Goes(w, from, to) == viewer[w] = from /\ viewer' = [viewer EXCEPT ![w] = to]

\* The query of logs() for the pods; if it fails there is nothing to read.
FindsPods(w) ==
  \/ unread' = [unread EXCEPT ![w] = pods]
  \/ Faults /\ unread' = [unread EXCEPT ![w] = {}]

\* preLogs: a viewer reads the logs stored so far ...
PreLogsOnlyOpens(w) ==
  /\ Goes(w, "away", "opening")
  /\ UNCHANGED <<vars, cached, watcher, unread, shown>>
PreLogs(w) ==
  /\ Goes(w, "away", "opening")
  /\ FindsPods(w)
  /\ UNCHANGED <<vars, cached, watcher, shown>>

\* ... and opens its websocket with another request.
Open(w) ==
  /\ unread[w] = {}
  /\ Goes(w, "opening", "poll")
  /\ UNCHANGED <<vars, cached, watcher, unread, shown>>

\* Cache.Get finds an entry ...
Poll(w) ==
  /\ cached
  /\ Goes(w, "poll", "delete")
  /\ UNCHANGED <<vars, cached, watcher, unread, shown>>

\* ... which is deleted before the logs are read.
DeleteEntry(w) ==
  /\ Goes(w, "delete", "query")
  /\ cached' = FALSE
  /\ UNCHANGED <<vars, watcher, unread, shown>>

QueryPods(w) ==
  /\ Goes(w, "query", "send")
  /\ FindsPods(w)
  /\ UNCHANGED <<vars, cached, watcher, shown>>

\* The query of logs() for the log of one pod, which is left out if it fails.
ReadLog(w) ==
  /\ viewer[w] \in {"opening", "send"}
  /\ \E p \in unread[w] :
       /\ unread' = [unread EXCEPT ![w] = @ \ {p}]
       /\ \/ \E message \in Messages(p) : shown' = [shown EXCEPT ![w][p] = message]
          \/ Faults /\ UNCHANGED shown
  /\ UNCHANGED <<vars, cached, viewer, watcher>>

\* What was read is written to the websocket, one message for each log.
Send(w) ==
  /\ unread[w] = {}
  /\ Goes(w, "send", "poll")
  /\ UNCHANGED <<vars, cached, watcher, unread, shown>>

Close(w) ==
  /\ viewer[w] # "away"
  /\ viewer' = [viewer EXCEPT ![w] = "away"]
  /\ unread' = [unread EXCEPT ![w] = {}]
  /\ shown' = [shown EXCEPT ![w] = NoLogs]
  /\ UNCHANGED <<vars, cached, watcher>>

Expires ==
  /\ Expiry
  /\ cached
  /\ cached' = FALSE
  /\ UNCHANGED <<vars, viewer, watcher, unread, shown>>

-----------------------------------------------------------------------------
\* The highest id of a row that can be read.
LastRow == Max(committed \cup {0})

\* ResourceLogWatcher: Last, for its first look and then every second.  Without
\* any row the websocket is closed at once; without a new one nothing is sent.
LastID(w) ==
  /\ watcher[w].at \in {"away", "tick"}
  /\ LastRow # watcher[w].last
  /\ watcher' = [watcher EXCEPT ![w].at = "query", ![w].next = LastRow]
  /\ UNCHANGED <<vars, cached, viewer, unread, shown>>

\* ResourceLogs: the pods ...
WatchedPods(w) ==
  /\ watcher[w].at = "query"
  /\ watcher' = [watcher EXCEPT ![w].at = "read"]
  /\ unread' = [unread EXCEPT ![w] = pods]
  /\ UNCHANGED <<vars, cached, viewer, shown>>

\* ... and, with one query, all their logs, which are sent in one message ...
WatchedLogs(w) ==
  /\ watcher[w].at = "read"
  /\ watcher' = [watcher EXCEPT ![w].at = "remember"]
  /\ \E messages \in [Pods -> {<<>>} \cup UNION {Messages(p) : p \in Pods}] :
       /\ \A p \in Pods : messages[p] \in IF p \in unread[w] THEN Messages(p) ELSE {<<>>}
       /\ shown' = [shown EXCEPT ![w] = messages]
  /\ unread' = [unread EXCEPT ![w] = {}]
  /\ UNCHANGED <<vars, cached, viewer>>

\* ... and the id that was read before the logs is remembered.
RememberLast(w) ==
  /\ watcher[w].at = "remember"
  /\ watcher' = [watcher EXCEPT ![w].at = "tick", ![w].last = LastRow]
  /\ UNCHANGED <<vars, cached, viewer, unread, shown>>
RememberID(w) ==
  /\ watcher[w].at = "remember"
  /\ watcher' = [watcher EXCEPT ![w].at = "tick", ![w].last = watcher[w].next]
  /\ UNCHANGED <<vars, cached, viewer, unread, shown>>

\* The reader of the socket reports that it is closed, or ResourceLogs fails.
StopWatching(w) ==
  /\ watcher[w].at = "tick" \/ (Faults /\ watcher[w].at \in {"query", "read"})
  /\ watcher' = [watcher EXCEPT ![w] = [at |-> "away", last |-> 0, next |-> 0]]
  /\ unread' = [unread EXCEPT ![w] = {}]
  /\ shown' = [shown EXCEPT ![w] = NoLogs]
  /\ UNCHANGED <<vars, cached, viewer>>

Watch(w) == LastID(w) \/ WatchedPods(w) \/ WatchedLogs(w) \/ RememberID(w)

\* The goroutine of a viewer's websocket.
Serve(w) == Poll(w) \/ DeleteEntry(w) \/ QueryPods(w) \/ ReadLog(w) \/ Send(w)

StreamNext ==
  \/ \E h \in Handlers : RequestStartsOrFails(h) \/ RequestStep(h)
  \/ \E w \in Viewers :
       PreLogs(w) \/ Open(w) \/ Serve(w) \/ Close(w)
  \/ \E w \in Watchers : Watch(w) \/ StopWatching(w)
  \/ Expires
  \/ Waiting /\ UNCHANGED streamVars

StreamSpec == StreamInit /\ [][StreamNext]_allVars

\* Requests go on, and the goroutine of an open websocket looks every second.
StreamFairSpec ==
  /\ StreamSpec
  /\ \A h \in Handlers : WF_allVars(RequestStep(h))
  /\ \A w \in Viewers : WF_allVars(Serve(w))
  /\ \A w \in Watchers : WF_allVars(watcher[w].at # "away" /\ Watch(w))

-----------------------------------------------------------------------------
(***************************************************************************)
(* Properties.                                                             *)
(***************************************************************************)

\* A viewer that waits with nothing in the cache, while no request runs, has been
\* sent what is stored: no update slips between Get, Delete and the reads.
NothingMissed ==
  AllIdle /\ ~cached =>
    \A w \in Viewers : viewer[w] = "poll" => \A p \in Pods : shown[w][p] \in Messages(p)

\* What is stored is shown in the end to a viewer that stays.
StoredIsShown ==
  \A w \in Viewers, p \in Pods :
    (RowsOf(p) # {} /\ viewer[w] = "poll") ~> (viewer[w] = "away" \/ shown[w][p] \in Messages(p))

\* The row of the highest id is shown in the end to a watcher that stays.  One of
\* a lower id, committed later, waits for the next row.
NewRowIsShown ==
  \A w \in Watchers, p \in Pods :
    (LastRow \in RowsOf(p) /\ watcher[w].at = "tick") ~>
      (watcher[w].at = "away" \/ shown[w][p] # <<>>)

\* A viewer is never shown what the log does not hold: with requests one after
\* the other, what it was sent is a prefix of the stored message, whatever fails,
\* expires or is looked at by another viewer first.
ShownIsStored ==
  \A w \in Sockets, p \in Pods :
    shown[w][p] = <<>> \/ \E i \in RowsOf(p) : IsPrefix(shown[w][p], logs[i].message)
=============================================================================
