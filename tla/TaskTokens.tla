----------------------------- MODULE TaskTokens -----------------------------
(***************************************************************************)
(* The task tokens of one resource: NewTaskToken signs an access token and *)
(* a refresh token, puts both in the "-jwt" secret of the vcluster and     *)
(* keeps a versioned, hashed copy of the refresh token in refresh_tokens;  *)
(* the refresh endpoint exchanges the newest one for a new pair.           *)
(* One action is one statement or call, as in ResourceSync, which shows    *)
(* only what the requests of a resource make of the secret.                *)
(***************************************************************************)
EXTENDS Naturals, Sequences

CONSTANTS
  MaxGeneration,  \* bound on the generations (spec rows) of the resource
  Handlers,       \* request goroutines
  MaxMints,       \* bound on the number of requests that sign a token
  FaultKinds,     \* "call": a step fails and ends its request,
                  \* "version": the query for the last version fails, unnoticed
  SameSecond,     \* may two tokens be signed in one second?
  Null            \* no secret, nothing presented

Generation == Nat
Token == Nat      \* a refresh token: its uuid is the resource's, the rest is
                  \* its expiry, so that of one second there is only one
Labels == {"idle", "version", "secret", "cancel", "save"}

ASSUME BoundsAssumption == MaxGeneration \in Nat /\ MaxMints \in Nat
ASSUME FaultsAssumption == FaultKinds \subseteq {"call", "version"}
ASSUME SameSecondAssumption == SameSecond \in BOOLEAN
ASSUME NullAssumption == Null \notin Token /\ Null \notin [gen : Generation, token : Token]

VARIABLES
  current,  \* the generation of the newest spec row, 0 before the first
  rows,     \* refresh_tokens in the order of their commits
  secret,   \* what the "-jwt" secret holds
  held,     \* refresh tokens that were ever in the secret: pods keep them
  second,   \* the second of the last signature
  mints,    \* requests started so far
  used,     \* refresh tokens whose exchange was answered with a new token
  failed,   \* did the last request to end fail half way?
  pc, ctx   \* where each handler stands, and its locals

vars == <<current, rows, secret, held, second, mints, used, failed, pc, ctx>>

RefreshToken == [gen : Generation, version : Nat, token : Token, canceled : BOOLEAN]

\* The spec the token is for, the new refresh token, the last version read and
\* the refresh token that was presented, if any.
IdleCtx == [gen |-> 0, token |-> 0, version |-> 0, presented |-> Null]
Ctx == [gen : Generation, token : Token, version : Nat, presented : Token \cup {Null}]

TypeOK ==
  /\ current \in Generation
  /\ rows \in Seq(RefreshToken)
  /\ secret \in [gen : Generation, token : Token] \cup {Null}
  /\ held \subseteq Token
  /\ second \in Nat
  /\ mints \in Nat
  /\ used \subseteq Token
  /\ failed \in BOOLEAN
  /\ pc \in [Handlers -> Labels]
  /\ ctx \in [Handlers -> Ctx]

Init ==
  /\ current = 0
  /\ rows = <<>>
  /\ secret = Null
  /\ held = {}
  /\ second = 0
  /\ mints = 0
  /\ used = {}
  /\ failed = FALSE
  /\ pc = [h \in Handlers |-> "idle"]
  /\ ctx = [h \in Handlers |-> IdleCtx]

-----------------------------------------------------------------------------
RowsOf(g) == {i \in DOMAIN rows : rows[i].gen = g}

Goto(h, from, to) == pc[h] = from /\ pc' = [pc EXCEPT ![h] = to]

\* A request signs its tokens first and carries them to the statements below.
\* Tokens of the same second are the same string.
StartMint(h, g, presented) ==
  /\ mints < MaxMints
  /\ mints' = mints + 1
  /\ second' \in {second + 1} \cup IF SameSecond /\ second > 0 THEN {second} ELSE {}
  /\ Goto(h, "idle", "version")
  /\ ctx' = [ctx EXCEPT ![h] = [gen |-> g, token |-> second', version |-> 0,
                                presented |-> presented]]
  /\ UNCHANGED <<rows, secret, held, used, failed>>

\* A POST, or a PUT of a new generation, that has just created the spec row.
NewGeneration(h) ==
  /\ current < MaxGeneration
  /\ current' = current + 1
  /\ StartMint(h, current', Null)

\* A PUT of the current generation, or the manual token patch.
Reissue(h) ==
  /\ current > 0
  /\ StartMint(h, current, Null)
  /\ UNCHANGED current

\* The rows the refresh query selects: not cancelled, and of the highest version
\* of all specs of the uuid.
Matches == {i \in DOMAIN rows : ~rows[i].canceled
              /\ \A j \in DOMAIN rows : rows[j].version <= rows[i].version}

\* NewTaskTokenFromRefreshToken: of the selected rows the first one, in no
\* defined order, must hold the presented token.  It names the spec.
Refresh(h) ==
  /\ \E i \in Matches :
       /\ rows[i].token \in held
       /\ StartMint(h, rows[i].gen, rows[i].token)
  /\ UNCHANGED current

-----------------------------------------------------------------------------
\* The highest version among the rows of the spec, 0 if it has none.
LastVersion(h, v) ==
  /\ \A i \in RowsOf(ctx[h].gen) : rows[i].version <= v
  /\ IF RowsOf(ctx[h].gen) = {} THEN v = 0
     ELSE \E i \in RowsOf(ctx[h].gen) : rows[i].version = v

ReadVersionKeepsNull(h) ==
  /\ Goto(h, "version", "secret")
  /\ \E v \in 0 .. MaxMints :
       /\ LastVersion(h, v)
       /\ ctx' = [ctx EXCEPT ![h].version = IF RowsOf(ctx[h].gen) = {} THEN Null ELSE v]
  /\ UNCHANGED <<current, rows, secret, held, second, mints, used, failed>>
ReadVersion(h) ==
  /\ Goto(h, "version", "secret")
  /\ \E v \in 0 .. MaxMints :
       /\ LastVersion(h, v)
       /\ ctx' = [ctx EXCEPT ![h].version = v]
  /\ UNCHANGED <<current, rows, secret, held, second, mints, used, failed>>

\* The error of that query is lost: the code looks at an earlier result's.
ReadVersionFails(h) ==
  /\ "version" \in FaultKinds
  /\ Goto(h, "version", "secret")
  /\ UNCHANGED <<current, rows, secret, held, second, mints, used, failed, ctx>>

\* Create the secret, or patch the one that exists.
SecretOnlyCreated(h) ==
  /\ Goto(h, "secret", "cancel")
  /\ secret' = IF secret = Null THEN [gen |-> ctx[h].gen, token |-> ctx[h].token] ELSE secret
  /\ held' = held \cup {secret'.token}
  /\ UNCHANGED <<current, rows, second, mints, used, failed, ctx>>
WriteSecret(h) ==
  /\ Goto(h, "secret", "cancel")
  /\ secret' = [gen |-> ctx[h].gen, token |-> ctx[h].token]
  /\ held' = held \cup {ctx[h].token}
  /\ UNCHANGED <<current, rows, second, mints, used, failed, ctx>>

\* UPDATE refresh_tokens SET canceled_at WHERE the spec is the request's.
CancelNothing(h) ==
  /\ Goto(h, "cancel", "save")
  /\ UNCHANGED <<current, rows, secret, held, second, mints, used, failed, ctx>>
DeletePrevious(h) ==
  /\ Goto(h, "cancel", "save")
  /\ rows' = SelectSeq(rows, LAMBDA r : r.gen # ctx[h].gen)
  /\ UNCHANGED <<current, secret, held, second, mints, used, failed, ctx>>
CancelPrevious(h) ==
  /\ Goto(h, "cancel", "save")
  /\ rows' = [i \in DOMAIN rows |->
                IF rows[i].gen = ctx[h].gen THEN [rows[i] EXCEPT !.canceled = TRUE]
                                            ELSE rows[i]]
  /\ UNCHANGED <<current, secret, held, second, mints, used, failed, ctx>>

NewRow(c) ==
  [gen |-> c.gen, version |-> c.version + 1, token |-> c.token, canceled |-> FALSE]

\* Save the new row and answer.
SaveThenCancel(h) ==
  /\ Goto(h, "save", "idle")
  /\ rows' = Append(rows, [NewRow(ctx[h]) EXCEPT !.canceled = TRUE])
  /\ used' = used \cup ({ctx[h].presented} \ {Null})
  /\ failed' = FALSE
  /\ ctx' = [ctx EXCEPT ![h] = IdleCtx]
  /\ UNCHANGED <<current, secret, held, second, mints>>
SaveToken(h) ==
  /\ Goto(h, "save", "idle")
  /\ rows' = Append(rows, NewRow(ctx[h]))
  /\ used' = used \cup ({ctx[h].presented} \ {Null})
  /\ failed' = FALSE
  /\ ctx' = [ctx EXCEPT ![h] = IdleCtx]
  /\ UNCHANGED <<current, secret, held, second, mints>>

\* A statement or call fails, or the process dies; nothing is undone.
Fail(h) ==
  /\ "call" \in FaultKinds
  /\ pc[h] # "idle"
  /\ pc' = [pc EXCEPT ![h] = "idle"]
  /\ failed' = TRUE
  /\ ctx' = [ctx EXCEPT ![h] = IdleCtx]
  /\ UNCHANGED <<current, rows, secret, held, second, mints, used>>

AllIdle == \A h \in Handlers : pc[h] = "idle"

\* The bound on requests is used up and the server waits.
Waiting == AllIdle /\ mints = MaxMints /\ UNCHANGED vars

Next ==
  \/ \E h \in Handlers :
       \/ NewGeneration(h) \/ Reissue(h) \/ Refresh(h)
       \/ ReadVersion(h) \/ ReadVersionFails(h) \/ WriteSecret(h)
       \/ CancelPrevious(h) \/ SaveToken(h) \/ Fail(h)
  \/ Waiting

Spec == Init /\ [][Next]_vars

-----------------------------------------------------------------------------
(***************************************************************************)
(* Properties.                                                             *)
(***************************************************************************)

\* The refresh tokens an exchange may be answered for.
Accepted == {rows[i].token : i \in Matches}

\* A refresh token that was exchanged is never accepted again, whatever requests
\* run at the same time and whichever of them fail (tokens being distinct).
UsedIsRefused == Accepted \cap used = {}

\* A refresh token on record was in the secret before: no token is accepted that
\* was never handed out, even when requests fail half way.
AcceptedWasHandedOut == \A i \in DOMAIN rows : rows[i].token \in held

\* Once a token was issued, the refresh token in the secret is one that the
\* refresh endpoint accepts: a task can go on without a manual patch.
SecretTokenRefreshes ==
  AllIdle /\ ~failed /\ secret # Null => secret.token \in Accepted

\* ... and it is the only one: issuing a token invalidates the previous ones.
PreviousTokensInvalidated ==
  AllIdle /\ ~failed /\ secret # Null => Accepted \subseteq {secret.token}

\* A token that the endpoint has stopped accepting never becomes acceptable again.
WithdrawnStaysWithdrawn ==
  [][{rows[i].token : i \in DOMAIN rows} \cap Accepted' \subseteq Accepted]_vars
=============================================================================
