---------------------------- MODULE DebugSession ----------------------------
(***************************************************************************)
(* Pods that the API starts in a vcluster on behalf of a user.             *)
(*                                                                         *)
(* Debugger opens a terminal: its handler waits for two goroutines, one    *)
(* that copies between the websocket and a terminal (webTTY.Run), and one  *)
(* that starts a pod and attaches a shell in it to the terminal            *)
(* (RemoteDebug).  Each ends with a send on a channel that has no buffer.  *)
(*                                                                         *)
(* UnlockTerraform starts a pod that releases the state lock, looks every  *)
(* five seconds whether it has finished, deletes it when its time is up,   *)
(* and has the workflow rerun if it succeeded.                             *)
(*                                                                         *)
(* One action is one Kubernetes call, or one send that somebody receives.  *)
(***************************************************************************)
EXTENDS Naturals, FiniteSets

CONSTANTS
  Sessions,    \* requests to Debugger
  Unlocks,     \* requests to UnlockTerraform
  TimeToLive,  \* of an unlock pod, in intervals of five seconds
  MaxRequests, \* bound on the requests
  Faults,      \* may a call fail, or the process die?
  Null         \* no session

ASSUME TimeToLiveAssumption == TimeToLive \in Nat \ {0}
ASSUME BoundsAssumption == MaxRequests \in Nat
ASSUME FaultsAssumption == Faults \in BOOLEAN
ASSUME RequestsAssumption == Null \notin Sessions /\ Sessions \cap Unlocks = {}

VARIABLES
  pods,     \* request -> its pod
  stdin,    \* the session whose terminal is os.Stdin
  session,  \* session -> its client, its handler and its goroutines
  unlock,   \* unlock -> where the request stands, and its locals
  broken    \* requests of which a call failed, or that a crash has ended

vars == <<pods, stdin, session, unlock, broken>>

Requests == Sessions \cup Unlocks

Pod == [exists : BOOLEAN, phase : {"none", "pending", "running", "succeeded", "failed"}]

\* attached is the session on whose terminal the shell is.
Session ==
  [client   : {"away", "connected", "gone"},
   handler  : {"away", "select", "closed"},
   remote   : {"none", "create", "open_watch", "watch", "exec", "stream", "delete",
               "send", "ended"},
   webtty   : {"none", "run", "send", "ended"},
   attached : Sessions \cup {Null}]

\* finished is the age at which the pod finished.
Unlock ==
  [at       : {"away", "get", "sleep", "delete_succeeded", "delete_failed",
               "delete_late", "rerun", "ended"},
   age      : 0 .. TimeToLive,
   finished : 0 .. TimeToLive,
   outcome  : {"none", "unlocked", "failed"}]

TypeOK ==
  /\ pods \in [Requests -> Pod]
  /\ stdin \in Sessions \cup {Null}
  /\ session \in [Sessions -> Session]
  /\ unlock \in [Unlocks -> Unlock]
  /\ broken \subseteq Requests

Init ==
  /\ pods = [x \in Requests |-> [exists |-> FALSE, phase |-> "none"]]
  /\ stdin = Null
  /\ session = [s \in Sessions |-> [client |-> "away", handler |-> "away", remote |-> "none",
                                    webtty |-> "none", attached |-> Null]]
  /\ unlock = [u \in Unlocks |-> [at |-> "away", age |-> 0, finished |-> 0, outcome |-> "none"]]
  /\ broken = {}

Begun ==
  {s \in Sessions : session[s].handler # "away"} \cup {u \in Unlocks : unlock[u].at # "away"}
Begins == Cardinality(Begun) < MaxRequests

CreatePod(x) == pods' = [pods EXCEPT ![x] = [exists |-> TRUE, phase |-> "pending"]]
DeletePod(x) == pods' = [pods EXCEPT ![x].exists = FALSE]

-----------------------------------------------------------------------------
(***************************************************************************)
(* Debugger.                                                               *)
(***************************************************************************)

\* The handler up to its select: the websocket, the terminal, which becomes
\* os.Stdin of the process, and the two goroutines.
Started == [client |-> "connected", handler |-> "select", remote |-> "create",
            webtty |-> "run", attached |-> Null]
Debugger(s) ==
  /\ Begins /\ session[s].handler = "away"
  /\ session' = [session EXCEPT ![s] = Started]
  /\ stdin' = s
  /\ UNCHANGED <<pods, unlock, broken>>

Remote(s, from, to) ==
  /\ session[s].remote = from
  /\ session' = [session EXCEPT ![s].remote = to]

\* RemoteDebug: Create, and Watch.  The first event of the watch says that the
\* pod was added, whatever its state by now, and the loop ignores it.
Create(s) ==
  /\ Remote(s, "create", "open_watch")
  /\ CreatePod(s)
  /\ UNCHANGED <<stdin, unlock, broken>>

OpenWatch(s) ==
  /\ Remote(s, "open_watch", "watch")
  /\ UNCHANGED <<pods, stdin, unlock, broken>>

\* The loop ends with an event that the pod is ready, or when the server closes
\* the watch.
WatchEnds(s) ==
  /\ Remote(s, "watch", "exec")
  /\ UNCHANGED <<pods, stdin, unlock, broken>>

\* SetupTTY takes os.Stdin.  The shell is attached to that terminal if the pod
\* runs.
Exec(s) ==
  /\ session[s].remote = "exec"
  /\ session' = [session EXCEPT ![s] =
       IF pods[s].phase = "running" THEN [@ EXCEPT !.remote = "stream", !.attached = stdin]
       ELSE [@ EXCEPT !.remote = "delete"]]
  /\ UNCHANGED <<pods, stdin, unlock, broken>>

\* The stream lasts until the shell ends, by its user or with its pod; that the
\* client has left does not end it.
ShellEnded(s) ==
  pods[s].phase # "running" \/ session[session[s].attached].client = "connected"
StreamEndsWithoutDelete(s) ==
  /\ session[s].remote = "stream"
  /\ ShellEnded(s)
  /\ session' = [session EXCEPT ![s].remote = "send", ![s].attached = Null]
  /\ UNCHANGED <<pods, stdin, unlock, broken>>
StreamEnds(s) ==
  /\ session[s].remote = "stream"
  /\ ShellEnded(s)
  /\ session' = [session EXCEPT ![s].remote = "delete", ![s].attached = Null]
  /\ UNCHANGED <<pods, stdin, unlock, broken>>

\* The deferred Delete.
Delete(s) ==
  /\ Remote(s, "delete", "send")
  /\ DeletePod(s)
  /\ UNCHANGED <<stdin, unlock, broken>>

\* webTTY.Run ends when the websocket or the terminal is closed.
WebTTYEnds(s) ==
  /\ session[s].webtty = "run"
  /\ \/ session[s].client = "gone"
     \/ session[s].remote = "ended"
  /\ session' = [session EXCEPT ![s].webtty = "send"]
  /\ UNCHANGED <<pods, stdin, unlock, broken>>

\* The select of Debugger receives what is sent first, and the handler returns,
\* which closes the websocket.  From then on nobody receives from the other
\* goroutine.
RemoteSendsAfterWebTTY(s) ==
  /\ session[s].handler = "select" /\ session[s].webtty = "ended"
  /\ session[s].remote = "send"
  /\ session' = [session EXCEPT ![s].handler = "closed", ![s].client = "gone",
                                 ![s].remote = "ended"]
  /\ UNCHANGED <<pods, stdin, unlock, broken>>
RemoteSends(s) ==
  /\ session[s].handler = "select"
  /\ session[s].remote = "send"
  /\ session' = [session EXCEPT ![s].handler = "closed", ![s].client = "gone",
                                 ![s].remote = "ended"]
  /\ UNCHANGED <<pods, stdin, unlock, broken>>
WebTTYSends(s) ==
  /\ session[s].handler = "select"
  /\ session[s].webtty = "send"
  /\ session' = [session EXCEPT ![s].handler = "closed", ![s].client = "gone",
                                 ![s].webtty = "ended"]
  /\ UNCHANGED <<pods, stdin, unlock, broken>>

\* A call of RemoteDebug fails.  The Delete is deferred once there is a pod, and
\* its own error is dropped.
RemoteFails(s) ==
  /\ Faults
  /\ \/ Remote(s, "create", "send")
     \/ Remote(s, "open_watch", "delete")
     \/ Remote(s, "delete", "send")
  /\ broken' = broken \cup {s}
  /\ UNCHANGED <<pods, stdin, unlock>>

-----------------------------------------------------------------------------
(***************************************************************************)
(* UnlockTerraform.                                                        *)
(***************************************************************************)

At(u, from, to) == unlock[u].at = from /\ unlock' = [unlock EXCEPT ![u].at = to]

Ends(u, from, outcome) ==
  /\ unlock[u].at = from
  /\ unlock' = [unlock EXCEPT ![u].at = "ended", ![u].outcome = outcome]

UnlockTerraform(u) ==
  /\ Begins /\ At(u, "away", "get")
  /\ CreatePod(u)
  /\ UNCHANGED <<stdin, session, broken>>

\* getPodStatus looks at the pod ...
GetIgnoresFailure(u) ==
  /\ At(u, "get", IF pods[u].phase \in {"succeeded", "failed"} THEN "delete_succeeded" ELSE "sleep")
  /\ UNCHANGED <<pods, stdin, session, broken>>
Get(u) ==
  /\ At(u, "get", CASE pods[u].phase = "succeeded" -> "delete_succeeded"
                    [] pods[u].phase = "failed" -> "delete_failed"
                    [] OTHER -> "sleep")
  /\ UNCHANGED <<pods, stdin, session, broken>>

\* ... and sleeps for five seconds.  Then podTimeToLive compares the time since
\* the loop began.
WakeStartsOver(u) ==
  /\ At(u, "sleep", IF TimeToLive = 1 THEN "delete_late" ELSE "get")
  /\ UNCHANGED <<pods, stdin, session, broken>>
LateByOne(t) == t + 1 > TimeToLive
Late(t) == t + 1 >= TimeToLive
Wake(u) ==
  /\ unlock[u].at = "sleep"
  /\ unlock' = [unlock EXCEPT ![u].age = @ + 1,
                              ![u].at = IF Late(unlock[u].age) THEN "delete_late" ELSE "get"]
  /\ UNCHANGED <<pods, stdin, session, broken>>

\* deletePod, and the error of a pod that has failed or is late.
DeleteUnlessLate(u) ==
  /\ \/ At(u, "delete_succeeded", "rerun") /\ DeletePod(u)
     \/ Ends(u, "delete_failed", "failed") /\ DeletePod(u)
     \/ Ends(u, "delete_late", "failed") /\ UNCHANGED pods
  /\ UNCHANGED <<stdin, session, broken>>
DeleteFinished(u) ==
  /\ \/ At(u, "delete_succeeded", "rerun")
     \/ Ends(u, "delete_failed", "failed")
     \/ Ends(u, "delete_late", "failed")
  /\ DeletePod(u)
  /\ UNCHANGED <<stdin, session, broken>>

Rerun(u) ==
  /\ Ends(u, "rerun", "unlocked")
  /\ UNCHANGED <<pods, stdin, session, broken>>

\* A call of the request fails, which ends it at once.
UnlockFails(u) ==
  /\ Faults
  /\ unlock[u].at \notin {"away", "sleep", "ended"}
  /\ Ends(u, unlock[u].at, "failed")
  /\ broken' = broken \cup {u}
  /\ UNCHANGED <<pods, stdin, session>>

-----------------------------------------------------------------------------
\* The process dies: what was running is gone, and the pods stay.
Crash ==
  /\ Faults
  /\ broken' = Requests
  /\ session' = [s \in Sessions |->
       [session[s] EXCEPT !.client = "gone", !.handler = "closed", !.remote = "ended",
                          !.webtty = "ended"]]
  /\ unlock' = [u \in Unlocks |-> [unlock[u] EXCEPT !.at = "ended"]]
  /\ stdin' = Null
  /\ UNCHANGED pods

ClientLeaves(s) ==
  /\ session[s].client = "connected"
  /\ session' = [session EXCEPT ![s].client = "gone"]
  /\ UNCHANGED <<pods, stdin, unlock, broken>>

PodStarts(x) ==
  /\ pods[x].exists /\ pods[x].phase = "pending"
  /\ pods' = [pods EXCEPT ![x].phase = "running"]
  /\ UNCHANGED <<stdin, session, unlock, broken>>

\* The container of a debug pod sleeps for a day, that of an unlock pod releases
\* the lock.
PodFinishes(x, phase) ==
  /\ pods[x].exists /\ pods[x].phase = "running"
  /\ pods' = [pods EXCEPT ![x].phase = phase]
  /\ unlock' = IF x \in Unlocks THEN [unlock EXCEPT ![x].finished = unlock[x].age] ELSE unlock
  /\ UNCHANGED <<stdin, session, broken>>

RemoteStep(s) ==
  Create(s) \/ OpenWatch(s) \/ WatchEnds(s) \/ Exec(s) \/ StreamEnds(s) \/ Delete(s)
SessionStep(s) == RemoteStep(s) \/ WebTTYEnds(s) \/ RemoteSends(s) \/ WebTTYSends(s)
UnlockStep(u) == Get(u) \/ Wake(u) \/ DeleteFinished(u) \/ Rerun(u)

Pods ==
  \E x \in Requests : PodStarts(x) \/ \E phase \in {"succeeded", "failed"} : PodFinishes(x, phase)

\* All requests are served; goroutines may be left that wait for nobody.
Waiting ==
  /\ ~Begins
  /\ \A s \in Sessions : session[s].handler # "select"
  /\ \A u \in Unlocks : unlock[u].at \in {"away", "ended"}
  /\ UNCHANGED vars

Next ==
  \/ \E s \in Sessions : Debugger(s) \/ SessionStep(s) \/ RemoteFails(s) \/ ClientLeaves(s)
  \/ \E u \in Unlocks : UnlockTerraform(u) \/ UnlockStep(u) \/ UnlockFails(u)
  \/ Pods
  \/ Crash
  \/ Waiting

Spec == Init /\ [][Next]_vars

\* Every goroutine goes on, the API server closes a watch in the end, and the
\* sleep of a debug pod comes to its end.
FairSpec ==
  /\ Spec
  /\ \A s \in Sessions :
       /\ WF_vars(RemoteStep(s))
       /\ WF_vars(WebTTYEnds(s))
       /\ WF_vars(RemoteSends(s) \/ WebTTYSends(s))
       /\ WF_vars(PodFinishes(s, "succeeded"))
  /\ \A u \in Unlocks : WF_vars(UnlockStep(u))

-----------------------------------------------------------------------------
(***************************************************************************)
(* Properties.                                                             *)
(***************************************************************************)

\* The pod of a debug session is deleted in the end, also when its client has
\* left, the pod was ready before the watch, or another session has its
\* terminal; unless a call failed or the process died.
DebugPodIsDeleted ==
  \A s \in Sessions : pods[s].exists ~> (~pods[s].exists \/ s \in broken)

\* Whoever ends first, the handler of a session returns.
DebuggerReturns ==
  \A s \in Sessions : session[s].handler = "select" ~> session[s].handler = "closed"

\* A request to unlock ends, whatever its pod does.
UnlockEnds == \A u \in Unlocks : unlock[u].at = "get" ~> unlock[u].at = "ended"

\* It ends without its pod, unless a call failed or the process died.
UnlockPodIsDeleted ==
  \A u \in Unlocks : unlock[u].at = "ended" => ~pods[u].exists \/ u \in broken

\* The answer is true: "unlocked" says that the pod succeeded, and a failure that
\* it did not succeed before the last interval, unless a call failed.
OutcomeIsTrue ==
  \A u \in Unlocks \ broken :
    /\ unlock[u].outcome = "unlocked" => pods[u].phase = "succeeded"
    /\ unlock[u].outcome = "failed" /\ pods[u].phase = "succeeded" =>
         unlock[u].finished + 1 >= TimeToLive
=============================================================================
