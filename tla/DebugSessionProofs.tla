-------------------------- MODULE DebugSessionProofs --------------------------
(***************************************************************************)
(* Proofs about DebugSession for any number of sessions and unlocks, any   *)
(* time to live, and with and without faults.                              *)
(*                                                                         *)
(* IInv adds to the properties what a request knows of its pod at each of  *)
(* its steps: above all when the pod of an unlock may have finished, given *)
(* that the request has not seen it finish yet.                            *)
(***************************************************************************)
EXTENDS DebugSession, TLAPS

(***************************************************************************)
(* Of an unlock with locals c and pod q.                                   *)
(***************************************************************************)

\* There is no pod before it is created and after it is deleted.
PodOK(c, q, isBroken) ==
  /\ c.at \in {"away", "rerun"} => ~q.exists
  /\ c.at = "ended" => ~q.exists \/ isBroken

\* An answer is given at the end, and rests on what the pod has done.
AnswerOK(c, q) ==
  /\ c.outcome # "none" => c.at = "ended"
  /\ c.at \in {"delete_succeeded", "rerun"} => q.phase = "succeeded"
  /\ c.at = "delete_failed" => q.phase = "failed"

\* The request is late when its time is up, and not before.
AgeOK(c) ==
  /\ c.at \in {"away", "get", "sleep"} => c.age < TimeToLive
  /\ c.at = "delete_late" => c.age = TimeToLive

\* A success that has not been seen is of this interval, or, if the request has
\* just woken up, of the one before.
SuccessOK(c, q) ==
  q.phase = "succeeded" =>
    /\ c.at = "sleep" => c.finished >= c.age
    /\ c.at \in {"get", "delete_late"} => c.finished + 1 >= c.age

OutcomeOK(c, q) ==
  /\ c.outcome = "unlocked" => q.phase = "succeeded"
  /\ c.outcome = "failed" /\ q.phase = "succeeded" => c.finished + 1 >= TimeToLive

UnlockHolds(c, q, isBroken) ==
  /\ PodOK(c, q, isBroken) /\ AnswerOK(c, q) /\ AgeOK(c) /\ SuccessOK(c, q)
  /\ isBroken \/ OutcomeOK(c, q)

UnlockOK(u) == UnlockHolds(unlock[u], pods[u], u \in broken)

\* A session that has not called Create has no pod; one whose RemoteDebug is over
\* has none either, unless a call failed or the process died.
SessionOK(s) ==
  /\ session[s].handler = "away" => session[s].remote = "none"
  /\ session[s].remote \in {"none", "create"} => ~pods[s].exists
  /\ session[s].remote \in {"send", "ended"} => ~pods[s].exists \/ s \in broken

IInv ==
  /\ TypeOK
  /\ \A u \in Unlocks : UnlockOK(u)
  /\ \A s \in Sessions : SessionOK(s)

-----------------------------------------------------------------------------
(***************************************************************************)
(* Requests only share the process: a step of one leaves what is known of  *)
(* the others.                                                             *)
(***************************************************************************)
LEMMA Disjoint ==
  /\ \A s \in Sessions, u \in Unlocks : s # u
  /\ \A s \in Sessions : s \in Requests
  /\ \A u \in Unlocks : u \in Requests
BY RequestsAssumption DEF Requests

LEMMA UnlockStays ==
  ASSUME NEW u \in Unlocks, UnlockOK(u),
         pods'[u] = pods[u], unlock'[u] = unlock[u], broken \subseteq broken'
  PROVE  UnlockOK(u)'
BY DEF UnlockOK, UnlockHolds, PodOK

LEMMA SessionStays ==
  ASSUME NEW s \in Sessions, SessionOK(s),
         pods'[s] = pods[s], session'[s] = session[s], broken \subseteq broken'
  PROVE  SessionOK(s)'
BY DEF SessionOK

\* A step of one session keeps the invariant if it keeps it for that session.
LEMMA SessionMoves ==
  ASSUME IInv, NEW s \in Sessions, TypeOK', SessionOK(s)', unlock' = unlock,
         \A x \in Requests \ {s} : pods'[x] = pods[x],
         \A t \in Sessions \ {s} : session'[t] = session[t],
         broken \subseteq broken'
  PROVE  IInv'
<1>1. ASSUME NEW u \in Unlocks PROVE UnlockOK(u)'
  <2>1. u \in Requests \ {s} /\ UnlockOK(u)
    BY Disjoint DEF IInv
  <2>2. pods'[u] = pods[u]
    BY <2>1
  <2>3. QED
    BY <2>1, <2>2, UnlockStays
<1>2. ASSUME NEW t \in Sessions, t # s PROVE SessionOK(t)'
  <2>1. t \in Requests \ {s} /\ SessionOK(t)
    BY <1>2, Disjoint DEF IInv
  <2>2. pods'[t] = pods[t] /\ session'[t] = session[t]
    BY <1>2, <2>1
  <2>3. QED
    BY <2>1, <2>2, SessionStays
<1>3. QED
  BY <1>1, <1>2 DEF IInv

LEMMA UnlockMoves ==
  ASSUME IInv, NEW u \in Unlocks, TypeOK', UnlockOK(u)', session' = session,
         \A x \in Requests \ {u} : pods'[x] = pods[x],
         \A v \in Unlocks \ {u} : unlock'[v] = unlock[v],
         broken \subseteq broken'
  PROVE  IInv'
<1>1. ASSUME NEW v \in Unlocks, v # u PROVE UnlockOK(v)'
  <2>1. v \in Requests \ {u} /\ UnlockOK(v)
    BY <1>1, Disjoint DEF IInv
  <2>2. pods'[v] = pods[v] /\ unlock'[v] = unlock[v]
    BY <1>1, <2>1
  <2>3. QED
    BY <2>1, <2>2, UnlockStays
<1>2. ASSUME NEW s \in Sessions PROVE SessionOK(s)'
  <2>1. s \in Requests \ {u} /\ SessionOK(s)
    BY Disjoint DEF IInv
  <2>2. pods'[s] = pods[s]
    BY <2>1
  <2>3. QED
    BY <2>1, <2>2, SessionStays
<1>3. QED
  BY <1>1, <1>2 DEF IInv

-----------------------------------------------------------------------------
LEMMA InitOK == Init => IInv
BY TimeToLiveAssumption
   DEF Init, IInv, TypeOK, Pod, Session, Unlock, UnlockOK, UnlockHolds, PodOK, AnswerOK, AgeOK,
       SuccessOK, OutcomeOK, SessionOK, Requests

LEMMA DebuggerOK ==
  ASSUME IInv, NEW s \in Sessions, Debugger(s)
  PROVE  IInv'
<1>1. TypeOK'
  BY DEF IInv, TypeOK, Debugger, Started, Session
<1>2. SessionOK(s)'
  BY DEF IInv, TypeOK, Debugger, Started, SessionOK
<1>3. QED
  BY <1>1, <1>2, SessionMoves DEF IInv, TypeOK, Debugger

LEMMA PodsChange ==
  ASSUME NEW x \in Requests, pods \in [Requests -> Pod],
         pods' = pods \/ CreatePod(x) \/ DeletePod(x)
  PROVE  pods' \in [Requests -> Pod] /\ \A y \in Requests \ {x} : pods'[y] = pods[y]
<1>1. pods[x] \in Pod /\ [exists |-> TRUE, phase |-> "pending"] \in Pod
  BY DEF Pod
<1>2. [pods[x] EXCEPT !.exists = FALSE] \in Pod
  BY <1>1 DEF Pod
<1>3. QED
  BY <1>1, <1>2 DEF CreatePod, DeletePod

\* A goroutine of a session that has begun goes on, and leaves d of the session.
LEMMA Goes ==
  ASSUME IInv, NEW s \in Sessions, NEW d \in Session,
         session' = [session EXCEPT ![s] = d],
         d.handler # "away" \/ d.remote = "none",
         d.remote \in {"none", "create"} => ~pods'[s].exists,
         d.remote \in {"send", "ended"} => ~pods'[s].exists \/ s \in broken',
         pods' = pods \/ CreatePod(s) \/ DeletePod(s),
         broken' = broken \/ broken' = broken \cup {s},
         UNCHANGED <<stdin, unlock>>
  PROVE  IInv'
<1>1. s \in Requests
  BY Disjoint
<1>2. pods' \in [Requests -> Pod] /\ \A x \in Requests \ {s} : pods'[x] = pods[x]
  BY <1>1, PodsChange DEF IInv, TypeOK
<1>3. TypeOK'
  BY <1>1, <1>2 DEF IInv, TypeOK
<1>4. session'[s] = d /\ \A t \in Sessions \ {s} : session'[t] = session[t]
  BY DEF IInv, TypeOK
<1>5. SessionOK(s)'
  BY <1>4 DEF SessionOK
<1>6. QED
  BY <1>2, <1>3, <1>4, <1>5, SessionMoves

RemotePlaces == {"create", "open_watch", "watch", "exec", "stream", "delete", "send"}

\* A session whose RemoteDebug is under way has begun.
LEMMA RemoteBegun ==
  ASSUME IInv, NEW s \in Sessions, session[s].remote \in RemotePlaces
  PROVE  session[s].handler # "away"
BY DEF IInv, SessionOK, RemotePlaces

LEMMA CreateOK ==
  ASSUME IInv, NEW s \in Sessions, Create(s)
  PROVE  IInv'
<1> DEFINE d == [session[s] EXCEPT !.remote = "open_watch"]
<1>1. session[s].remote = "create" /\ session' = [session EXCEPT ![s] = d]
  BY DEF Create, Remote, IInv, TypeOK
<1>2. session[s] \in Session /\ session[s].handler # "away"
  BY <1>1, RemoteBegun DEF RemotePlaces, IInv, TypeOK
<1>3. d \in Session /\ d.remote = "open_watch" /\ d.handler # "away"
  BY <1>2 DEF Session
<1> HIDE DEF d
<1>4. QED
  BY <1>1, <1>3, Goes DEF Create

LEMMA WatchOK ==
  ASSUME IInv, NEW s \in Sessions, OpenWatch(s) \/ WatchEnds(s)
  PROVE  IInv'
<1> PICK to \in {"watch", "exec"} : session[s].remote \in RemotePlaces
                                  /\ session' = [session EXCEPT ![s].remote = to]
  BY DEF OpenWatch, WatchEnds, Remote, RemotePlaces
<1> DEFINE d == [session[s] EXCEPT !.remote = to]
<1>1. session' = [session EXCEPT ![s] = d]
  BY DEF IInv, TypeOK
<1>2. session[s] \in Session /\ session[s].handler # "away"
  BY RemoteBegun DEF RemotePlaces, IInv, TypeOK
<1>3. d \in Session /\ d.remote \in {"watch", "exec"} /\ d.handler # "away"
  BY <1>2 DEF Session
<1> HIDE DEF d
<1>4. UNCHANGED <<pods, stdin, unlock, broken>>
  BY DEF OpenWatch, WatchEnds
<1>5. QED
  BY <1>1, <1>3, <1>4, Goes

LEMMA ExecOK ==
  ASSUME IInv, NEW s \in Sessions, Exec(s)
  PROVE  IInv'
<1>1. CASE pods[s].phase = "running"
  <2> DEFINE d == [session[s] EXCEPT !.remote = "stream", !.attached = stdin]
  <2>1. session[s].remote = "exec" /\ session' = [session EXCEPT ![s] = d]
    BY <1>1 DEF Exec
  <2>2. session[s] \in Session /\ session[s].handler # "away"
    BY <2>1, RemoteBegun DEF RemotePlaces, IInv, TypeOK
  <2>3. d \in Session /\ d.remote = "stream" /\ d.handler # "away"
    BY <2>2 DEF Session, IInv, TypeOK
  <2> HIDE DEF d
  <2>4. QED
    BY <2>1, <2>3, Goes DEF Exec
<1>2. CASE pods[s].phase # "running"
  <2> DEFINE d == [session[s] EXCEPT !.remote = "delete"]
  <2>1. session[s].remote = "exec" /\ session' = [session EXCEPT ![s] = d]
    BY <1>2 DEF Exec
  <2>2. session[s] \in Session /\ session[s].handler # "away"
    BY <2>1, RemoteBegun DEF RemotePlaces, IInv, TypeOK
  <2>3. d \in Session /\ d.remote = "delete" /\ d.handler # "away"
    BY <2>2 DEF Session
  <2> HIDE DEF d
  <2>4. QED
    BY <2>1, <2>3, Goes DEF Exec
<1>3. QED
  BY <1>1, <1>2

LEMMA StreamEndsOK ==
  ASSUME IInv, NEW s \in Sessions, StreamEnds(s)
  PROVE  IInv'
<1> DEFINE d == [session[s] EXCEPT !.remote = "delete", !.attached = Null]
<1>1. session[s].remote = "stream" /\ session' = [session EXCEPT ![s] = d]
  BY DEF StreamEnds, IInv, TypeOK
<1>2. session[s] \in Session /\ session[s].handler # "away"
  BY <1>1, RemoteBegun DEF RemotePlaces, IInv, TypeOK
<1>3. d \in Session /\ d.remote = "delete" /\ d.handler # "away"
  BY <1>2 DEF Session
<1> HIDE DEF d
<1>4. QED
  BY <1>1, <1>3, Goes DEF StreamEnds

LEMMA DeleteOK ==
  ASSUME IInv, NEW s \in Sessions, Delete(s)
  PROVE  IInv'
<1> DEFINE d == [session[s] EXCEPT !.remote = "send"]
<1>1. session[s].remote = "delete" /\ session' = [session EXCEPT ![s] = d]
  BY DEF Delete, Remote, IInv, TypeOK
<1>2. session[s] \in Session /\ session[s].handler # "away"
  BY <1>1, RemoteBegun DEF RemotePlaces, IInv, TypeOK
<1>3. d \in Session /\ d.remote = "send" /\ d.handler # "away"
  BY <1>2 DEF Session
<1>4. ~pods'[s].exists
  BY Disjoint DEF Delete, DeletePod, IInv, TypeOK, Pod
<1> HIDE DEF d
<1>5. QED
  BY <1>1, <1>3, <1>4, Goes DEF Delete

LEMMA RemoteFailsOK ==
  ASSUME IInv, NEW s \in Sessions, RemoteFails(s)
  PROVE  IInv'
<1> PICK to \in {"send", "delete"} :
      /\ session[s].remote \in RemotePlaces
      /\ session' = [session EXCEPT ![s].remote = to]
  BY DEF RemoteFails, Remote, RemotePlaces
<1> DEFINE d == [session[s] EXCEPT !.remote = to]
<1>1. session' = [session EXCEPT ![s] = d]
  BY DEF IInv, TypeOK
<1>2. session[s] \in Session /\ session[s].handler # "away"
  BY RemoteBegun DEF RemotePlaces, IInv, TypeOK
<1>3. d \in Session /\ d.remote \in {"send", "delete"} /\ d.handler # "away"
  BY <1>2 DEF Session
<1> HIDE DEF d
<1>4. QED
  BY <1>1, <1>3, Goes DEF RemoteFails

\* The handler and the other goroutine, which leave the pod alone.
LEMMA SessionEndsOK ==
  ASSUME IInv, NEW s \in Sessions,
         WebTTYEnds(s) \/ RemoteSends(s) \/ WebTTYSends(s) \/ ClientLeaves(s)
  PROVE  IInv'
<1>1. session[s] \in Session /\ SessionOK(s)
  BY DEF IInv, TypeOK
<1>2. CASE WebTTYEnds(s)
  <2> DEFINE d == [session[s] EXCEPT !.webtty = "send"]
  <2>1. d \in Session /\ d.handler = session[s].handler /\ d.remote = session[s].remote
    BY <1>1 DEF Session
  <2>2. session' = [session EXCEPT ![s] = d]
    BY <1>2 DEF WebTTYEnds, IInv, TypeOK
  <2> HIDE DEF d
  <2>3. QED
    BY <1>1, <1>2, <2>1, <2>2, Goes DEF WebTTYEnds, SessionOK
<1>3. CASE RemoteSends(s)
  <2> DEFINE d == [session[s] EXCEPT !.handler = "closed", !.client = "gone", !.remote = "ended"]
  <2>1. d \in Session /\ d.handler = "closed" /\ d.remote = "ended"
    BY <1>1 DEF Session
  <2>2. session' = [session EXCEPT ![s] = d] /\ session[s].remote = "send"
    BY <1>3 DEF RemoteSends, IInv, TypeOK
  <2> HIDE DEF d
  <2>3. QED
    BY <1>1, <1>3, <2>1, <2>2, Goes DEF RemoteSends, SessionOK
<1>4. CASE WebTTYSends(s)
  <2> DEFINE d == [session[s] EXCEPT !.handler = "closed", !.client = "gone", !.webtty = "ended"]
  <2>1. d \in Session /\ d.handler = "closed" /\ d.remote = session[s].remote
    BY <1>1 DEF Session
  <2>2. session' = [session EXCEPT ![s] = d]
    BY <1>4 DEF WebTTYSends, IInv, TypeOK
  <2> HIDE DEF d
  <2>3. QED
    BY <1>1, <1>4, <2>1, <2>2, Goes DEF WebTTYSends, SessionOK
<1>5. CASE ClientLeaves(s)
  <2> DEFINE d == [session[s] EXCEPT !.client = "gone"]
  <2>1. d \in Session /\ d.handler = session[s].handler /\ d.remote = session[s].remote
    BY <1>1 DEF Session
  <2>2. session' = [session EXCEPT ![s] = d]
    BY <1>5 DEF ClientLeaves, IInv, TypeOK
  <2> HIDE DEF d
  <2>3. QED
    BY <1>1, <1>5, <2>1, <2>2, Goes DEF ClientLeaves, SessionOK
<1>6. QED
  BY <1>2, <1>3, <1>4, <1>5

-----------------------------------------------------------------------------
\* A step of one unlock, to locals d and pod q.
LEMMA UnlockGoes ==
  ASSUME IInv, NEW u \in Unlocks, NEW d \in Unlock, NEW q \in Pod,
         unlock' = [unlock EXCEPT ![u] = d],
         pods' = [pods EXCEPT ![u] = q],
         broken' = broken \/ broken' = broken \cup {u},
         UnlockHolds(d, q, u \in broken'),
         UNCHANGED <<stdin, session>>
  PROVE  IInv'
<1>1. u \in Requests
  BY Disjoint
<1>2. TypeOK'
  BY <1>1 DEF IInv, TypeOK
<1>3. /\ unlock'[u] = d /\ pods'[u] = q
      /\ \A x \in Requests \ {u} : pods'[x] = pods[x]
      /\ \A v \in Unlocks \ {u} : unlock'[v] = unlock[v]
  BY <1>1 DEF IInv, TypeOK
<1>4. UnlockOK(u)'
  BY <1>3 DEF UnlockOK
<1>5. QED
  BY <1>2, <1>3, <1>4, UnlockMoves

\* What is known of the unlock that takes the step.
LEMMA UnlockKnown ==
  ASSUME IInv, NEW u \in Unlocks
  PROVE  /\ unlock[u] \in Unlock /\ pods[u] \in Pod /\ unlock \in [Unlocks -> Unlock]
         /\ pods = [pods EXCEPT ![u] = pods[u]]
         /\ UnlockHolds(unlock[u], pods[u], u \in broken)
<1>1. u \in Requests
  BY Disjoint
<1>2. QED
  BY <1>1 DEF UnlockOK, IInv, TypeOK

LEMMA UnlockTerraformOK ==
  ASSUME IInv, NEW u \in Unlocks, UnlockTerraform(u)
  PROVE  IInv'
<1> DEFINE d == [unlock[u] EXCEPT !.at = "get"]
           q == [exists |-> TRUE, phase |-> "pending"]
<1>1. /\ unlock[u].at = "away" /\ unlock' = [unlock EXCEPT ![u] = d]
      /\ pods' = [pods EXCEPT ![u] = q] /\ UNCHANGED <<stdin, session, broken>>
  BY UnlockKnown DEF UnlockTerraform, At, CreatePod
<1>2. unlock[u] \in Unlock /\ unlock[u].age < TimeToLive /\ unlock[u].outcome = "none"
  BY <1>1, UnlockKnown DEF UnlockHolds, AgeOK, AnswerOK
<1>3. /\ d \in Unlock /\ d.at = "get" /\ d.age < TimeToLive /\ d.outcome = "none"
      /\ q \in Pod /\ q.phase = "pending"
  BY <1>2 DEF Unlock, Pod
<1> HIDE DEF d, q
<1>4. UnlockHolds(d, q, u \in broken')
  BY <1>3 DEF UnlockHolds, PodOK, AnswerOK, AgeOK, SuccessOK, OutcomeOK
<1>5. QED
  BY <1>1, <1>3, <1>4, UnlockGoes

LEMMA GetOK ==
  ASSUME IInv, NEW u \in Unlocks, Get(u)
  PROVE  IInv'
<1> DEFINE q == pods[u]
           to == CASE q.phase = "succeeded" -> "delete_succeeded"
                   [] q.phase = "failed" -> "delete_failed"
                   [] OTHER -> "sleep"
           d == [unlock[u] EXCEPT !.at = to]
<1>1. /\ unlock[u].at = "get" /\ unlock' = [unlock EXCEPT ![u] = d]
      /\ pods' = [pods EXCEPT ![u] = q] /\ UNCHANGED <<stdin, session, broken>>
  BY UnlockKnown DEF Get, At
<1>2. /\ unlock[u] \in Unlock /\ unlock[u].age < TimeToLive /\ unlock[u].outcome = "none"
      /\ q \in Pod
  BY <1>1, UnlockKnown DEF UnlockHolds, AgeOK, AnswerOK
<1>3. \/ to = "delete_succeeded" /\ q.phase = "succeeded"
      \/ to = "delete_failed" /\ q.phase = "failed"
      \/ to = "sleep" /\ q.phase # "succeeded"
  BY DEF Pod
<1> HIDE DEF to
<1>4. d \in Unlock /\ d.at = to /\ d.age < TimeToLive /\ d.outcome = "none"
  BY <1>2, <1>3 DEF Unlock
<1> HIDE DEF d, q
<1>5. UnlockHolds(d, q, u \in broken')
  BY <1>3, <1>4 DEF UnlockHolds, PodOK, AnswerOK, AgeOK, SuccessOK, OutcomeOK
<1>6. QED
  BY <1>1, <1>2, <1>4, <1>5, UnlockGoes

LEMMA WakeOK ==
  ASSUME IInv, NEW u \in Unlocks, Wake(u)
  PROVE  IInv'
<1> DEFINE c == unlock[u]
           q == pods[u]
           to == IF Late(c.age) THEN "delete_late" ELSE "get"
           d == [c EXCEPT !.age = c.age + 1, !.at = to]
<1>1. /\ c.at = "sleep" /\ unlock' = [unlock EXCEPT ![u] = d]
      /\ pods' = [pods EXCEPT ![u] = q] /\ UNCHANGED <<stdin, session, broken>>
  BY UnlockKnown DEF Wake
<1>2. /\ c \in Unlock /\ c.age < TimeToLive /\ c.outcome = "none" /\ q \in Pod
      /\ q.phase = "succeeded" => c.finished >= c.age
  BY <1>1, UnlockKnown DEF UnlockHolds, AgeOK, AnswerOK, SuccessOK
<1>3. c.age \in Nat /\ c.finished \in Nat /\ c.age + 1 \in 0 .. TimeToLive
  BY <1>2, TimeToLiveAssumption DEF Unlock
<1>4. \/ to = "get" /\ c.age + 1 < TimeToLive
      \/ to = "delete_late" /\ c.age + 1 = TimeToLive
  BY <1>2, <1>3, TimeToLiveAssumption DEF Late
<1> HIDE DEF to
<1>5. /\ d \in Unlock /\ d.age = c.age + 1 /\ d.finished = c.finished /\ d.outcome = "none"
      /\ d.at = to
  BY <1>2, <1>3, <1>4 DEF Unlock
<1> HIDE DEF c, d, q
<1>6. UnlockHolds(d, q, u \in broken')
  BY <1>2, <1>3, <1>4, <1>5, TimeToLiveAssumption
     DEF UnlockHolds, PodOK, AnswerOK, AgeOK, SuccessOK, OutcomeOK
<1>7. QED
  BY <1>1, <1>2, <1>5, <1>6, UnlockGoes

LEMMA DeleteFinishedOK ==
  ASSUME IInv, NEW u \in Unlocks, DeleteFinished(u)
  PROVE  IInv'
<1> DEFINE c == unlock[u]
           q == [pods[u] EXCEPT !.exists = FALSE]
<1>1. c \in Unlock /\ pods[u] \in Pod /\ UnlockHolds(c, pods[u], u \in broken)
  BY UnlockKnown
<1>2. q \in Pod /\ ~q.exists /\ q.phase = pods[u].phase
  BY <1>1 DEF Pod
<1>3. c.age \in Nat /\ c.finished \in Nat
  BY <1>1, TimeToLiveAssumption DEF Unlock
<1>4. CASE At(u, "delete_succeeded", "rerun")
  <2> DEFINE d == [c EXCEPT !.at = "rerun"]
  <2>1. c.at = "delete_succeeded" /\ unlock' = [unlock EXCEPT ![u] = d]
    BY <1>4, UnlockKnown DEF At
  <2>2. d \in Unlock /\ d.at = "rerun" /\ d.outcome = c.outcome
    BY <1>1 DEF Unlock
  <2> HIDE DEF c, d, q
  <2>3. UnlockHolds(d, q, u \in broken')
    BY <1>1, <1>2, <2>1, <2>2 DEF UnlockHolds, PodOK, AnswerOK, AgeOK, SuccessOK, OutcomeOK
  <2>4. QED
    BY <1>2, <2>1, <2>2, <2>3, UnlockGoes DEF DeleteFinished, DeletePod, q
<1>5. CASE Ends(u, "delete_failed", "failed") \/ Ends(u, "delete_late", "failed")
  <2> DEFINE d == [c EXCEPT !.at = "ended", !.outcome = "failed"]
  <2>1. c.at \in {"delete_failed", "delete_late"} /\ unlock' = [unlock EXCEPT ![u] = d]
    BY <1>5, UnlockKnown DEF Ends
  <2>2. d \in Unlock /\ d.at = "ended" /\ d.outcome = "failed" /\ d.finished = c.finished
    BY <1>1 DEF Unlock
  <2> HIDE DEF c, d, q
  <2>3. UnlockHolds(d, q, u \in broken')
    BY <1>1, <1>2, <1>3, <2>1, <2>2
       DEF UnlockHolds, PodOK, AnswerOK, AgeOK, SuccessOK, OutcomeOK
  <2>4. QED
    BY <1>2, <2>1, <2>2, <2>3, UnlockGoes DEF DeleteFinished, DeletePod, q
<1>6. QED
  BY <1>4, <1>5 DEF DeleteFinished

LEMMA RerunOK ==
  ASSUME IInv, NEW u \in Unlocks, Rerun(u)
  PROVE  IInv'
<1> DEFINE c == unlock[u]
           q == pods[u]
           d == [c EXCEPT !.at = "ended", !.outcome = "unlocked"]
<1>1. /\ c.at = "rerun" /\ unlock' = [unlock EXCEPT ![u] = d]
      /\ pods' = [pods EXCEPT ![u] = q] /\ UNCHANGED <<stdin, session, broken>>
  BY UnlockKnown DEF Rerun, Ends
<1>2. c \in Unlock /\ q \in Pod /\ UnlockHolds(c, q, u \in broken)
  BY UnlockKnown
<1>3. d \in Unlock /\ d.at = "ended" /\ d.outcome = "unlocked"
  BY <1>2 DEF Unlock
<1> HIDE DEF c, d, q
<1>4. UnlockHolds(d, q, u \in broken')
  BY <1>1, <1>2, <1>3 DEF UnlockHolds, PodOK, AnswerOK, AgeOK, SuccessOK, OutcomeOK
<1>5. QED
  BY <1>1, <1>2, <1>3, <1>4, UnlockGoes

LEMMA UnlockFailsOK ==
  ASSUME IInv, NEW u \in Unlocks, UnlockFails(u)
  PROVE  IInv'
<1> DEFINE c == unlock[u]
           q == pods[u]
           d == [c EXCEPT !.at = "ended", !.outcome = "failed"]
<1>1. /\ unlock' = [unlock EXCEPT ![u] = d] /\ broken' = broken \cup {u}
      /\ pods' = [pods EXCEPT ![u] = q] /\ UNCHANGED <<stdin, session>>
  BY UnlockKnown DEF UnlockFails, Ends
<1>2. c \in Unlock /\ q \in Pod
  BY UnlockKnown
<1>3. d \in Unlock /\ d.at = "ended"
  BY <1>2 DEF Unlock
<1>4. u \in broken'
  BY <1>1
<1> HIDE DEF c, d, q
<1>5. UnlockHolds(d, q, u \in broken')
  BY <1>3, <1>4 DEF UnlockHolds, PodOK, AnswerOK, AgeOK, SuccessOK
<1>6. QED
  BY <1>1, <1>2, <1>3, <1>5, UnlockGoes

-----------------------------------------------------------------------------
(***************************************************************************)
(* The cluster and the end of the process.                                 *)
(***************************************************************************)
LEMMA PodStartsOK ==
  ASSUME IInv, NEW x \in Requests, PodStarts(x)
  PROVE  IInv'
<1> DEFINE q == [pods[x] EXCEPT !.phase = "running"]
<1>1. /\ pods[x] \in Pod /\ pods[x].exists /\ pods[x].phase = "pending"
      /\ pods' = [pods EXCEPT ![x] = q] /\ UNCHANGED <<stdin, session, unlock, broken>>
  BY DEF PodStarts, IInv, TypeOK
<1>2. q \in Pod /\ q.exists /\ q.phase = "running"
  BY <1>1 DEF Pod
<1> HIDE DEF q
<1>3. TypeOK' /\ pods'[x] = q /\ \A y \in Requests \ {x} : pods'[y] = pods[y]
  BY <1>1, <1>2 DEF IInv, TypeOK
<1>4. CASE x \in Sessions
  <2>1. SessionOK(x)'
    BY <1>1, <1>3, <1>4 DEF IInv, SessionOK
  <2>2. QED
    BY <1>1, <1>3, <1>4, <2>1, SessionMoves
<1>5. CASE x \in Unlocks
  <2> DEFINE c == unlock[x]
  <2>1. c \in Unlock /\ UnlockHolds(c, pods[x], x \in broken) /\ unlock' = [unlock EXCEPT ![x] = c]
    BY <1>1, <1>5, UnlockKnown
  <2> HIDE DEF c
  <2>2. UnlockHolds(c, q, x \in broken')
    BY <1>1, <1>2, <2>1 DEF UnlockHolds, PodOK, AnswerOK, AgeOK, SuccessOK, OutcomeOK
  <2>3. QED
    BY <1>1, <1>2, <1>5, <2>1, <2>2, UnlockGoes
<1>6. QED
  BY <1>4, <1>5 DEF Requests

LEMMA PodFinishesOK ==
  ASSUME IInv, NEW x \in Requests, NEW phase \in {"succeeded", "failed"}, PodFinishes(x, phase)
  PROVE  IInv'
<1> DEFINE q == [pods[x] EXCEPT !.phase = phase]
<1>1. /\ pods[x] \in Pod /\ pods[x].exists /\ pods[x].phase = "running"
      /\ pods' = [pods EXCEPT ![x] = q] /\ UNCHANGED <<stdin, session, broken>>
  BY DEF PodFinishes, IInv, TypeOK
<1>2. q \in Pod /\ q.exists /\ q.phase = phase
  BY <1>1 DEF Pod
<1> HIDE DEF q
<1>3. CASE x \in Sessions
  <2>1. unlock' = unlock
    BY <1>3, Disjoint DEF PodFinishes
  <2>2. TypeOK' /\ pods'[x] = q /\ \A y \in Requests \ {x} : pods'[y] = pods[y]
    BY <1>1, <1>2, <2>1 DEF IInv, TypeOK
  <2>3. SessionOK(x)'
    BY <1>1, <1>3, <2>2 DEF IInv, SessionOK
  <2>4. QED
    BY <1>1, <1>3, <2>1, <2>2, <2>3, SessionMoves
<1>4. CASE x \in Unlocks
  <2> DEFINE c == unlock[x]
             d == [c EXCEPT !.finished = c.age]
  <2>1. c \in Unlock /\ UnlockHolds(c, pods[x], x \in broken) /\ unlock' = [unlock EXCEPT ![x] = d]
    BY <1>4, UnlockKnown DEF PodFinishes
  <2>2. /\ d \in Unlock /\ d.finished = c.age /\ d.age = c.age /\ d.at = c.at
        /\ d.outcome = c.outcome /\ c.age \in Nat
    BY <2>1, TimeToLiveAssumption DEF Unlock
  <2> HIDE DEF c, d
  <2>3. UnlockHolds(d, q, x \in broken')
    BY <1>1, <1>2, <2>1, <2>2 DEF UnlockHolds, PodOK, AnswerOK, AgeOK, SuccessOK, OutcomeOK
  <2>4. QED
    BY <1>1, <1>2, <1>4, <2>1, <2>2, <2>3, UnlockGoes
<1>5. QED
  BY <1>3, <1>4 DEF Requests

LEMMA CrashOK ==
  ASSUME IInv, Crash
  PROVE  IInv'
<1>1. ASSUME NEW s \in Sessions
      PROVE  session'[s] \in Session /\ session'[s].handler = "closed" /\ session'[s].remote = "ended"
  BY DEF Crash, IInv, TypeOK, Session
<1>2. ASSUME NEW u \in Unlocks
      PROVE  unlock'[u] \in Unlock /\ unlock'[u].at = "ended"
  BY DEF Crash, IInv, TypeOK, Unlock
<1>3. TypeOK'
  BY <1>1, <1>2 DEF Crash, IInv, TypeOK
<1>4. ASSUME NEW s \in Sessions PROVE SessionOK(s)'
  BY <1>1, Disjoint DEF Crash, SessionOK
<1>5. ASSUME NEW u \in Unlocks PROVE UnlockOK(u)'
  <2>1. u \in broken'
    BY Disjoint DEF Crash
  <2>2. QED
    BY <1>2, <2>1 DEF UnlockOK, UnlockHolds, PodOK, AnswerOK, AgeOK, SuccessOK
<1>6. QED
  BY <1>3, <1>4, <1>5 DEF IInv

LEMMA StutterOK ==
  ASSUME IInv, UNCHANGED vars
  PROVE  IInv'
<1>1. TypeOK'
  BY DEF IInv, TypeOK, vars
<1>2. ASSUME NEW s \in Sessions PROVE SessionOK(s)'
  BY SessionStays DEF IInv, vars
<1>3. ASSUME NEW u \in Unlocks PROVE UnlockOK(u)'
  BY UnlockStays DEF IInv, vars
<1>4. QED
  BY <1>1, <1>2, <1>3 DEF IInv

LEMMA NextOK == IInv /\ [Next]_vars => IInv'
<1> SUFFICES ASSUME IInv, [Next]_vars PROVE IInv'
  OBVIOUS
<1>1. ASSUME NEW s \in Sessions, Debugger(s) PROVE IInv'
  BY <1>1, DebuggerOK
<1>2. ASSUME NEW s \in Sessions, RemoteStep(s) PROVE IInv'
  BY <1>2, CreateOK, WatchOK, ExecOK, StreamEndsOK, DeleteOK DEF RemoteStep
<1>3. ASSUME NEW s \in Sessions, RemoteFails(s) PROVE IInv'
  BY <1>3, RemoteFailsOK
<1>4. ASSUME NEW s \in Sessions,
             WebTTYEnds(s) \/ RemoteSends(s) \/ WebTTYSends(s) \/ ClientLeaves(s)
      PROVE  IInv'
  BY <1>4, SessionEndsOK
<1>5. ASSUME NEW u \in Unlocks, UnlockTerraform(u) \/ UnlockStep(u) \/ UnlockFails(u) PROVE IInv'
  BY <1>5, UnlockTerraformOK, GetOK, WakeOK, DeleteFinishedOK, RerunOK, UnlockFailsOK DEF UnlockStep
<1>6. CASE Pods
  BY <1>6, PodStartsOK, PodFinishesOK DEF Pods
<1>7. CASE Crash
  BY <1>7, CrashOK
<1>8. CASE Waiting \/ UNCHANGED vars
  BY <1>8, StutterOK DEF Waiting
<1>9. QED
  BY <1>1, <1>2, <1>3, <1>4, <1>5, <1>6, <1>7, <1>8 DEF Next, SessionStep

\* What a session or an unlock has of its pod at each of its calls.
THEOREM Invariance == Spec => []IInv
<1>1. QED
  BY InitOK, NextOK, PTL DEF Spec

-----------------------------------------------------------------------------
\* Every reachable state is well typed; in particular no unlock outlives its time.
THEOREM TypeCorrect == Spec => []TypeOK
<1>1. IInv => TypeOK
  BY DEF IInv
<1>2. QED
  BY Invariance, <1>1, PTL

\* A request to unlock that has ended has deleted its pod, unless a call failed or
\* the process died, whatever the pod did and however late.
THEOREM UnlockPodsDeleted == Spec => []UnlockPodIsDeleted
<1>1. IInv => UnlockPodIsDeleted
  BY DEF IInv, UnlockOK, UnlockHolds, PodOK, UnlockPodIsDeleted
<1>2. QED
  BY Invariance, <1>1, PTL

\* "unlocked" is answered of pods that succeeded, and "failed" of none that
\* succeeded before the last interval of its time to live.
THEOREM OutcomesTrue == Spec => []OutcomeIsTrue
<1>1. IInv => OutcomeIsTrue
  BY DEF IInv, UnlockOK, UnlockHolds, OutcomeOK, OutcomeIsTrue
<1>2. QED
  BY Invariance, <1>1, PTL

\* A session whose RemoteDebug is over, even if nobody receives what it sends, has
\* no pod, unless a call failed or the process died.
DebugPodOutlivesNothing ==
  \A s \in Sessions :
    session[s].remote \in {"send", "ended"} => ~pods[s].exists \/ s \in broken

\* The deferred Delete of RemoteDebug runs whichever of its calls returns last.
THEOREM DebugPodsDeleted == Spec => []DebugPodOutlivesNothing
<1>1. IInv => DebugPodOutlivesNothing
  BY DEF IInv, SessionOK, DebugPodOutlivesNothing
<1>2. QED
  BY Invariance, <1>1, PTL
=============================================================================
