-------------------------- MODULE TaskTokensProofs --------------------------
(***************************************************************************)
(* Proofs about TaskTokens, for any number of handlers and any faults.     *)
(* What a token must never become again follows from where it may be: every *)
(* token in circulation was signed (Signed), no two requests or rows have   *)
(* the same one (Distinct), and a presented one is cancelled before its     *)
(* exchange is answered (Exchanged).                                        *)
(***************************************************************************)
EXTENDS TaskTokens, TLAPS

Busy(h) == pc[h] # "idle"

\* The rows' tokens, and those about to be saved, have been in the secret.
HandedOut ==
  /\ AcceptedWasHandedOut
  /\ \A h \in Handlers : pc[h] \in {"cancel", "save"} => ctx[h].token \in held

Signed ==
  /\ \A i \in DOMAIN rows : rows[i].token <= second
  /\ \A h \in Handlers : Busy(h) => ctx[h].token <= second
  /\ \A h \in Handlers : ctx[h].presented # Null => ctx[h].presented <= second
  /\ \A t \in used : t <= second

Distinct ==
  /\ \A i, j \in DOMAIN rows : rows[i].token = rows[j].token => i = j
  /\ \A h \in Handlers : Busy(h) => \A i \in DOMAIN rows : rows[i].token # ctx[h].token
  /\ \A h, k \in Handlers : Busy(h) /\ Busy(k) /\ h # k => ctx[h].token # ctx[k].token
  /\ \A h, k \in Handlers : Busy(h) => ctx[k].presented # ctx[h].token
  /\ \A h \in Handlers : Busy(h) => ctx[h].token \notin used

Exchanged ==
  /\ \A i \in DOMAIN rows : rows[i].token \in used => rows[i].canceled
  /\ \A h \in Handlers : \A i \in DOMAIN rows :
       rows[i].token = ctx[h].presented =>
         /\ rows[i].gen = ctx[h].gen
         /\ pc[h] = "save" => rows[i].canceled

RotationInv == TypeOK /\ Signed /\ Distinct /\ Exchanged

-----------------------------------------------------------------------------
\* What starting a request does, whichever endpoint it is of.
LEMMA StartMintTypes ==
  ASSUME TypeOK, NEW h \in Handlers, NEW g \in Generation,
         NEW p \in Token \cup {Null}, StartMint(h, g, p)
  PROVE  /\ mints' \in Nat
         /\ second' \in Nat
         /\ second' = second + 1 \/ (SameSecond /\ second' = second)
         /\ pc' = [pc EXCEPT ![h] = "version"]
         /\ pc' \in [Handlers -> Labels]
         /\ ctx' = [ctx EXCEPT ![h] = [gen |-> g, token |-> second', version |-> 0,
                                       presented |-> p]]
         /\ ctx' \in [Handlers -> Ctx]
<1>1. /\ second' \in Nat
      /\ second' = second + 1 \/ (SameSecond /\ second' = second)
      /\ mints' \in Nat
  BY DEF TypeOK, StartMint
<1>2. ctx' = [ctx EXCEPT ![h] = [gen |-> g, token |-> second', version |-> 0,
                                 presented |-> p]]
  BY DEF StartMint
<1>3. [gen |-> g, token |-> second', version |-> 0, presented |-> p] \in Ctx
  BY <1>1 DEF Ctx, Token
<1>4. pc' = [pc EXCEPT ![h] = "version"] /\ pc' \in [Handlers -> Labels]
  BY DEF TypeOK, StartMint, Goto, Labels
<1>5. ctx' \in [Handlers -> Ctx]
  BY <1>2, <1>3 DEF TypeOK
<1> QED
  BY <1>1, <1>2, <1>4, <1>5

\* The rows after the UPDATE that cancels: the same rows, some more cancelled.
LEMMA CancelKeepsRows ==
  ASSUME TypeOK, NEW h \in Handlers, CancelPrevious(h)
  PROVE  /\ rows' \in Seq(RefreshToken)
         /\ DOMAIN rows' = DOMAIN rows
         /\ \A i \in DOMAIN rows :
              /\ rows'[i].token = rows[i].token
              /\ rows'[i].gen = rows[i].gen
              /\ rows'[i].version = rows[i].version
              /\ rows'[i].canceled = (rows[i].canceled \/ rows[i].gen = ctx[h].gen)
<1>1. rows \in Seq(RefreshToken) /\ DOMAIN rows = 1 .. Len(rows) /\ Len(rows) \in Nat
  BY DEF TypeOK
<1>2. \A i \in DOMAIN rows : rows[i] \in RefreshToken
  BY <1>1
<1>3. rows' = [i \in DOMAIN rows |->
                 IF rows[i].gen = ctx[h].gen THEN [rows[i] EXCEPT !.canceled = TRUE]
                                             ELSE rows[i]]
  BY DEF CancelPrevious
<1>4. ASSUME NEW i \in DOMAIN rows
      PROVE  /\ rows'[i] \in RefreshToken
             /\ rows'[i].token = rows[i].token
             /\ rows'[i].gen = rows[i].gen
             /\ rows'[i].version = rows[i].version
             /\ rows'[i].canceled = (rows[i].canceled \/ rows[i].gen = ctx[h].gen)
  <2>1. rows[i] \in RefreshToken
    BY <1>2
  <2>2. CASE rows[i].gen = ctx[h].gen
    <3>1. rows'[i] = [rows[i] EXCEPT !.canceled = TRUE]
      BY <1>3, <2>2
    <3> QED
      BY <2>1, <2>2, <3>1 DEF RefreshToken
  <2>3. CASE rows[i].gen # ctx[h].gen
    <3>1. rows'[i] = rows[i]
      BY <1>3, <2>3
    <3> QED
      BY <2>1, <2>3, <3>1 DEF RefreshToken
  <2> QED
    BY <2>2, <2>3
<1>5. DOMAIN rows' = DOMAIN rows
  BY <1>3
<1>6. rows' \in Seq(RefreshToken)
  <2>1. rows' \in [1 .. Len(rows) -> RefreshToken]
    BY <1>1, <1>3, <1>4
  <2> QED
    BY <1>1, <2>1
<1> QED
  BY <1>4, <1>5, <1>6

\* The rows after the INSERT: one more, not cancelled.
LEMMA SaveAppendsRow ==
  ASSUME TypeOK, NEW h \in Handlers, SaveToken(h)
  PROVE  /\ rows' \in Seq(RefreshToken)
         /\ DOMAIN rows' = DOMAIN rows \cup {Len(rows) + 1}
         /\ Len(rows) + 1 \notin DOMAIN rows
         /\ \A i \in DOMAIN rows : rows'[i] = rows[i]
         /\ rows'[Len(rows) + 1] = NewRow(ctx[h])
         /\ NewRow(ctx[h]).token = ctx[h].token
         /\ NewRow(ctx[h]).gen = ctx[h].gen
         /\ NewRow(ctx[h]).canceled = FALSE
<1>1. rows \in Seq(RefreshToken) /\ ctx[h] \in Ctx
  BY DEF TypeOK
<1>2. NewRow(ctx[h]) \in RefreshToken
  BY <1>1 DEF NewRow, RefreshToken, Ctx
<1>3. rows' = Append(rows, NewRow(ctx[h]))
  BY DEF SaveToken
<1> QED
  BY <1>1, <1>2, <1>3 DEF NewRow

-----------------------------------------------------------------------------
LEMMA TypesPreserved == TypeOK /\ [Next]_vars => TypeOK'
<1> SUFFICES ASSUME TypeOK, [Next]_vars PROVE TypeOK'
  OBVIOUS
<1>1. ASSUME NEW h \in Handlers, NewGeneration(h) PROVE TypeOK'
  <2>1. current' \in Generation /\ StartMint(h, current', Null)
    BY <1>1 DEF NewGeneration, TypeOK, Generation
  <2> QED
    BY <2>1, StartMintTypes DEF TypeOK, StartMint
<1>2. ASSUME NEW h \in Handlers, Reissue(h) PROVE TypeOK'
  <2>1. current \in Generation /\ StartMint(h, current, Null) /\ current' = current
    BY <1>2 DEF Reissue, TypeOK
  <2> QED
    BY <2>1, StartMintTypes DEF TypeOK, StartMint
<1>3. ASSUME NEW h \in Handlers, Refresh(h) PROVE TypeOK'
  <2>1. PICK i \in Matches : StartMint(h, rows[i].gen, rows[i].token)
    BY <1>3 DEF Refresh
  <2>2. rows[i] \in RefreshToken
    BY <2>1 DEF TypeOK, Matches
  <2>3. rows[i].gen \in Generation /\ rows[i].token \in Token \cup {Null}
    BY <2>2 DEF RefreshToken
  <2> QED
    BY <1>3, <2>1, <2>3, StartMintTypes DEF TypeOK, StartMint, Refresh
<1>4. ASSUME NEW h \in Handlers, ReadVersion(h) PROVE TypeOK'
  <2>1. PICK v \in 0 .. MaxMints : ctx' = [ctx EXCEPT ![h].version = v]
    BY <1>4 DEF ReadVersion
  <2>2. v \in Nat
    BY <2>1, BoundsAssumption
  <2>3. ctx' \in [Handlers -> Ctx]
    BY <2>1, <2>2 DEF TypeOK, Ctx
  <2> QED
    BY <1>4, <2>3 DEF TypeOK, ReadVersion, Goto, Labels
<1>5. ASSUME NEW h \in Handlers, ReadVersionFails(h) PROVE TypeOK'
  BY <1>5 DEF TypeOK, ReadVersionFails, Goto, Labels
<1>6. ASSUME NEW h \in Handlers, WriteSecret(h) PROVE TypeOK'
  <2>1. ctx[h].gen \in Generation /\ ctx[h].token \in Token
    BY DEF TypeOK, Ctx
  <2> QED
    BY <1>6, <2>1 DEF TypeOK, WriteSecret, Goto, Labels
<1>7. ASSUME NEW h \in Handlers, CancelPrevious(h) PROVE TypeOK'
  <2>1. rows' \in Seq(RefreshToken)
    BY <1>7, CancelKeepsRows
  <2> QED
    BY <1>7, <2>1 DEF TypeOK, CancelPrevious, Goto, Labels
<1>8. ASSUME NEW h \in Handlers, SaveToken(h) PROVE TypeOK'
  <2>1. rows' \in Seq(RefreshToken)
    BY <1>8, SaveAppendsRow
  <2>2. used' \subseteq Token
    BY <1>8 DEF TypeOK, SaveToken, Ctx
  <2>3. ctx' \in [Handlers -> Ctx]
    BY <1>8 DEF TypeOK, SaveToken, Ctx, IdleCtx, Generation, Token
  <2> QED
    BY <1>8, <2>1, <2>2, <2>3 DEF TypeOK, SaveToken, Goto, Labels
<1>9. ASSUME NEW h \in Handlers, Fail(h) PROVE TypeOK'
  <2>1. ctx' \in [Handlers -> Ctx]
    BY <1>9 DEF TypeOK, Fail, Ctx, IdleCtx, Generation, Token
  <2> QED
    BY <1>9, <2>1 DEF TypeOK, Fail, Labels
<1>10. CASE UNCHANGED vars
  BY <1>10 DEF TypeOK, vars
<1> QED
  BY <1>1, <1>2, <1>3, <1>4, <1>5, <1>6, <1>7, <1>8, <1>9, <1>10 DEF Next, Waiting

\* Every reachable state is well typed.
THEOREM TypeCorrect == Spec => []TypeOK
<1>1. ASSUME Init PROVE TypeOK
  <2>1. IdleCtx \in Ctx
    BY DEF IdleCtx, Ctx, Generation, Token
  <2>2. rows \in Seq(RefreshToken)
    BY <1>1 DEF Init
  <2> QED
    BY <1>1, <2>1, <2>2 DEF Init, TypeOK, Generation, Labels
<1> QED
  BY <1>1, TypesPreserved, PTL DEF Spec

-----------------------------------------------------------------------------
(***************************************************************************)
(* AcceptedWasHandedOut: the row is saved only after the secret is written. *)
(***************************************************************************)

LEMMA HandedOutPreserved == TypeOK /\ HandedOut /\ [Next]_vars => HandedOut'
<1> SUFFICES ASSUME TypeOK, HandedOut, [Next]_vars PROVE HandedOut'
  OBVIOUS
<1> USE DEF HandedOut, AcceptedWasHandedOut
<1>1. ASSUME NEW h \in Handlers, NEW g \in Generation, NEW p \in Token \cup {Null},
             StartMint(h, g, p)
      PROVE  HandedOut'
  <2>1. pc' = [pc EXCEPT ![h] = "version"] /\ \A k \in Handlers : k # h => ctx'[k] = ctx[k]
    BY <1>1, StartMintTypes DEF TypeOK
  <2> QED
    BY <1>1, <2>1 DEF StartMint, TypeOK
<1>2. ASSUME NEW h \in Handlers, NewGeneration(h) PROVE HandedOut'
  BY <1>1, <1>2 DEF NewGeneration, TypeOK, Generation
<1>3. ASSUME NEW h \in Handlers, Reissue(h) PROVE HandedOut'
  BY <1>1, <1>3 DEF Reissue, TypeOK
<1>4. ASSUME NEW h \in Handlers, Refresh(h) PROVE HandedOut'
  <2>1. PICK i \in DOMAIN rows : StartMint(h, rows[i].gen, rows[i].token)
    BY <1>4 DEF Refresh, Matches
  <2>2. rows[i] \in RefreshToken
    BY <2>1 DEF TypeOK
  <2> QED
    BY <1>1, <2>1, <2>2 DEF RefreshToken
<1>5. ASSUME NEW h \in Handlers, ReadVersion(h) PROVE HandedOut'
  <2>1. PICK v \in 0 .. MaxMints : ctx' = [ctx EXCEPT ![h].version = v]
    BY <1>5 DEF ReadVersion
  <2>2. \A k \in Handlers : ctx'[k].token = ctx[k].token
    BY <2>1 DEF TypeOK, Ctx
  <2> QED
    BY <1>5, <2>2 DEF ReadVersion, Goto, TypeOK
<1>6. ASSUME NEW h \in Handlers, ReadVersionFails(h) PROVE HandedOut'
  BY <1>6 DEF ReadVersionFails, Goto, TypeOK
<1>7. ASSUME NEW h \in Handlers, WriteSecret(h) PROVE HandedOut'
  BY <1>7 DEF WriteSecret, Goto, TypeOK
<1>8. ASSUME NEW h \in Handlers, CancelPrevious(h) PROVE HandedOut'
  <2>1. DOMAIN rows' = DOMAIN rows /\ \A i \in DOMAIN rows : rows'[i].token = rows[i].token
    BY <1>8, CancelKeepsRows
  <2>2. /\ pc[h] = "cancel" /\ pc' = [pc EXCEPT ![h] = "save"]
        /\ held' = held /\ ctx' = ctx
    BY <1>8 DEF CancelPrevious, Goto
  <2> QED
    BY <2>1, <2>2 DEF TypeOK
<1>9. ASSUME NEW h \in Handlers, SaveToken(h) PROVE HandedOut'
  <2>1. \A i \in DOMAIN rows' : rows'[i].token \in held
    <3>1. pc[h] = "save" /\ ctx[h].token \in held
      BY <1>9 DEF SaveToken, Goto
    <3>2. ASSUME NEW i \in DOMAIN rows' PROVE rows'[i].token \in held
      <4>1. CASE i \in DOMAIN rows
        <5>1. rows'[i] = rows[i]
          BY <4>1, <1>9, SaveAppendsRow
        <5> QED
          BY <4>1, <5>1
      <4>2. CASE i \notin DOMAIN rows
        <5>1. i = Len(rows) + 1 /\ rows'[i].token = ctx[h].token
          BY <4>2, <3>2, <1>9, SaveAppendsRow
        <5> QED
          BY <5>1, <3>1
      <4> QED
        BY <4>1, <4>2
    <3> QED
      BY <3>2
  <2>2. /\ pc' = [pc EXCEPT ![h] = "idle"] /\ held' = held
        /\ \A k \in Handlers : k # h => ctx'[k] = ctx[k]
    BY <1>9 DEF SaveToken, Goto, TypeOK
  <2> QED
    BY <2>1, <2>2 DEF TypeOK
<1>10. ASSUME NEW h \in Handlers, Fail(h) PROVE HandedOut'
  BY <1>10 DEF Fail, TypeOK
<1>11. CASE UNCHANGED vars
  BY <1>11 DEF vars
<1> QED
  BY <1>2, <1>3, <1>4, <1>5, <1>6, <1>7, <1>8, <1>9, <1>10, <1>11 DEF Next, Waiting

\* No refresh token is on record, and so none is accepted, that NewTaskToken has
\* not put in the secret before.
THEOREM OnlyHandedOutAccepted == Spec => []AcceptedWasHandedOut
<1>1. ASSUME Init PROVE HandedOut
  BY <1>1 DEF Init, HandedOut, AcceptedWasHandedOut
<1>2. HandedOut => AcceptedWasHandedOut
  BY DEF HandedOut
<1> QED
  BY <1>1, <1>2, HandedOutPreserved, TypeCorrect, PTL DEF Spec

-----------------------------------------------------------------------------
(***************************************************************************)
(* UsedIsRefused and WithdrawnStaysWithdrawn.                              *)
(*                                                                         *)
(* Four kinds of step matter: a request is started, one moves on without   *)
(* touching a row, one cancels, one saves.                                 *)
(***************************************************************************)

Others(h) == \A k \in Handlers : k # h => pc'[k] = pc[k] /\ ctx'[k] = ctx[k]

Started(h, g, p) ==
  /\ pc[h] = "idle" /\ pc'[h] = "version"
  /\ ctx'[h].gen = g /\ ctx'[h].token = second' /\ ctx'[h].presented = p
  /\ Others(h)
  /\ second' \in Nat
  /\ second' = second + 1 \/ (SameSecond /\ second' = second)
  /\ UNCHANGED <<rows, used>>
  /\ p # Null => \E i \in DOMAIN rows :
                   rows[i].token = p /\ rows[i].gen = g /\ ~rows[i].canceled

Moved(h) ==
  /\ Busy(h)
  /\ Others(h)
  /\ \/ pc'[h] = "idle" /\ ctx'[h].presented = Null
     \/ /\ pc'[h] \in {"secret", "cancel"}
        /\ ctx'[h].gen = ctx[h].gen
        /\ ctx'[h].token = ctx[h].token
        /\ ctx'[h].presented = ctx[h].presented
  /\ UNCHANGED <<rows, used, second>>

LEMMA NextMoves ==
  ASSUME TypeOK, [Next]_vars
  PROVE  \/ \E h \in Handlers, g \in Generation, p \in Token \cup {Null} : Started(h, g, p)
         \/ \E h \in Handlers : Moved(h)
         \/ \E h \in Handlers : CancelPrevious(h)
         \/ \E h \in Handlers : SaveToken(h)
         \/ UNCHANGED vars
<1>1. ASSUME NEW h \in Handlers, NEW g \in Generation, NEW p \in Token \cup {Null},
             StartMint(h, g, p),
             p # Null => \E i \in DOMAIN rows :
                           rows[i].token = p /\ rows[i].gen = g /\ ~rows[i].canceled
      PROVE  Started(h, g, p)
  <2>1. /\ pc' = [pc EXCEPT ![h] = "version"]
        /\ ctx' = [ctx EXCEPT ![h] = [gen |-> g, token |-> second', version |-> 0,
                                      presented |-> p]]
        /\ second' \in Nat
        /\ second' = second + 1 \/ (SameSecond /\ second' = second)
    BY <1>1, StartMintTypes
  <2>2. pc[h] = "idle" /\ UNCHANGED <<rows, used>>
    BY <1>1 DEF StartMint, Goto
  <2>3. pc'[h] = "version" /\ Others(h)
    BY <2>1 DEF TypeOK, Others
  <2>4. ctx'[h].gen = g /\ ctx'[h].token = second' /\ ctx'[h].presented = p
    BY <2>1 DEF TypeOK
  <2> QED
    BY <1>1, <2>1, <2>2, <2>3, <2>4 DEF Started
<1>2. ASSUME NEW h \in Handlers, NewGeneration(h)
      PROVE  \E g \in Generation, p \in Token \cup {Null} : Started(h, g, p)
  <2>1. current' \in Generation /\ StartMint(h, current', Null)
    BY <1>2 DEF NewGeneration, TypeOK, Generation
  <2> QED
    BY <1>1, <2>1
<1>3. ASSUME NEW h \in Handlers, Reissue(h)
      PROVE  \E g \in Generation, p \in Token \cup {Null} : Started(h, g, p)
  <2>1. current \in Generation /\ StartMint(h, current, Null)
    BY <1>3 DEF Reissue, TypeOK
  <2> QED
    BY <1>1, <2>1
<1>4. ASSUME NEW h \in Handlers, Refresh(h)
      PROVE  \E g \in Generation, p \in Token \cup {Null} : Started(h, g, p)
  <2>1. PICK i \in DOMAIN rows : ~rows[i].canceled /\ StartMint(h, rows[i].gen, rows[i].token)
    BY <1>4 DEF Refresh, Matches
  <2>2. rows[i].gen \in Generation /\ rows[i].token \in Token \cup {Null}
    <3>1. rows[i] \in RefreshToken
      BY <2>1 DEF TypeOK
    <3> QED
      BY <3>1 DEF RefreshToken
  <2> QED
    BY <1>1, <2>1, <2>2
<1>5. ASSUME NEW h \in Handlers, ReadVersion(h) PROVE Moved(h)
  <2>1. PICK v \in 0 .. MaxMints : ctx' = [ctx EXCEPT ![h].version = v]
    BY <1>5 DEF ReadVersion
  <2>2. /\ ctx'[h].gen = ctx[h].gen /\ ctx'[h].token = ctx[h].token
        /\ ctx'[h].presented = ctx[h].presented
        /\ \A k \in Handlers : k # h => ctx'[k] = ctx[k]
    BY <2>1 DEF TypeOK, Ctx
  <2>3. /\ pc[h] = "version" /\ pc'[h] = "secret"
        /\ \A k \in Handlers : k # h => pc'[k] = pc[k]
        /\ UNCHANGED <<rows, used, second>>
    BY <1>5 DEF ReadVersion, Goto, TypeOK
  <2> QED
    BY <2>2, <2>3 DEF Moved, Busy, Others
<1>6. ASSUME NEW h \in Handlers, ReadVersionFails(h) PROVE Moved(h)
  BY <1>6 DEF ReadVersionFails, Goto, TypeOK, Moved, Busy, Others
<1>7. ASSUME NEW h \in Handlers, WriteSecret(h) PROVE Moved(h)
  BY <1>7 DEF WriteSecret, Goto, TypeOK, Moved, Busy, Others
<1>8. ASSUME NEW h \in Handlers, Fail(h) PROVE Moved(h)
  <2>1. ctx'[h].presented = Null
    BY <1>8 DEF Fail, TypeOK, IdleCtx
  <2>2. /\ pc[h] # "idle" /\ pc'[h] = "idle"
        /\ \A k \in Handlers : k # h => pc'[k] = pc[k] /\ ctx'[k] = ctx[k]
        /\ UNCHANGED <<rows, used, second>>
    BY <1>8 DEF Fail, TypeOK
  <2> QED
    BY <2>1, <2>2 DEF Moved, Busy, Others
<1> QED
  BY <1>2, <1>3, <1>4, <1>5, <1>6, <1>7, <1>8 DEF Next, Waiting

\* Values that are compared below are numbers.
LEMMA Numbers ==
  ASSUME TypeOK
  PROVE  /\ second \in Nat /\ Null \notin Nat
         /\ \A i \in DOMAIN rows : rows[i].token \in Nat /\ rows[i].version \in Nat
         /\ \A h \in Handlers : ctx[h].token \in Nat /\ ctx[h].presented \in Nat \cup {Null}
         /\ \A t \in used : t \in Nat
<1>1. \A i \in DOMAIN rows : rows[i] \in RefreshToken
  BY DEF TypeOK
<1>2. \A h \in Handlers : ctx[h] \in Ctx
  BY DEF TypeOK
<1> QED
  BY <1>1, <1>2, NullAssumption DEF TypeOK, RefreshToken, Ctx, Token

LEMMA StartKeepsRotation ==
  ASSUME RotationInv, ~SameSecond, NEW h \in Handlers, NEW g \in Generation,
         NEW p \in Token \cup {Null}, Started(h, g, p)
  PROVE  Signed' /\ Distinct' /\ Exchanged'
<1> USE DEF RotationInv
<1>1. /\ second' = second + 1 /\ second \in Nat
      /\ ctx'[h].token = second + 1
      /\ rows' = rows /\ used' = used
      /\ \A k \in Handlers : k # h => pc'[k] = pc[k] /\ ctx'[k] = ctx[k]
      /\ pc[h] = "idle" /\ pc'[h] = "version"
      /\ ctx'[h].gen = g /\ ctx'[h].presented = p
  BY Numbers DEF Started, Others
<1>2. p # Null => \E i \in DOMAIN rows : rows[i].token = p /\ rows[i].gen = g
  BY DEF Started
<1>3. p # Null => p <= second
  BY <1>2 DEF Signed
<1>4. Signed'
  <2>1. ASSUME NEW k \in Handlers
        PROVE  /\ Busy(k)' => ctx'[k].token <= second'
               /\ ctx'[k].presented # Null => ctx'[k].presented <= second'
    <3>1. CASE k = h
      BY <1>1, <1>2, <1>3, <3>1, Numbers
    <3>2. CASE k # h
      <4>1. /\ Busy(k) => ctx[k].token <= second
            /\ ctx[k].presented # Null => ctx[k].presented <= second
        BY DEF Signed
      <4>2. ctx[k].token \in Nat /\ ctx[k].presented \in Nat \cup {Null}
        BY Numbers
      <4>3. pc'[k] = pc[k] /\ ctx'[k] = ctx[k]
        BY <1>1, <3>2
      <4> QED
        BY <1>1, <4>1, <4>2, <4>3 DEF Busy
    <3> QED
      BY <3>1, <3>2
  <2>2. \A i \in DOMAIN rows : rows[i].token <= second + 1
    BY <1>1, Numbers DEF Signed
  <2>3. \A t \in used : t <= second + 1
    BY <1>1, Numbers DEF Signed
  <2> QED
    BY <1>1, <2>1, <2>2, <2>3 DEF Signed
<1>5. Distinct'
  <2>1. \A i \in DOMAIN rows : rows[i].token # second + 1
    BY <1>1, Numbers DEF Signed
  <2>2. \A k \in Handlers : ctx[k].presented # second + 1 /\ (Busy(k) => ctx[k].token # second + 1)
    BY <1>1, Numbers DEF Signed
  <2>3. second + 1 \notin used /\ p # second + 1
    BY <1>1, <1>3, Numbers DEF Signed
  <2>4. \A k \in Handlers : Busy(k)' => k = h \/ Busy(k)
    BY <1>1 DEF Busy
  <2>5. ASSUME NEW k \in Handlers, Busy(k)'
        PROVE  /\ \A i \in DOMAIN rows : rows[i].token # ctx'[k].token
               /\ ctx'[k].token \notin used
    BY <1>1, <2>1, <2>3, <2>4, <2>5 DEF Distinct
  <2>6. ASSUME NEW k \in Handlers, NEW l \in Handlers, Busy(k)'
        PROVE  /\ ctx'[l].presented # ctx'[k].token
               /\ Busy(l)' /\ k # l => ctx'[k].token # ctx'[l].token
    <3>1. CASE k = h
      BY <1>1, <2>2, <2>3, <2>4, <3>1 DEF Distinct
    <3>2. CASE k # h /\ l = h
      <4>1. Busy(k) /\ ctx'[k] = ctx[k]
        BY <1>1, <2>4, <2>6, <3>2
      <4>2. p # ctx[k].token
        BY <1>2, <4>1, Numbers, NullAssumption DEF Distinct
      <4> QED
        BY <1>1, <2>2, <3>2, <4>1, <4>2
    <3>3. CASE k # h /\ l # h
      BY <1>1, <2>4, <2>6, <3>3 DEF Distinct, Busy
    <3> QED
      BY <3>1, <3>2, <3>3
  <2> QED
    BY <1>1, <2>5, <2>6 DEF Distinct
<1>6. Exchanged'
  <2>1. ASSUME NEW k \in Handlers, NEW i \in DOMAIN rows, rows[i].token = ctx'[k].presented
        PROVE  rows[i].gen = ctx'[k].gen /\ (pc'[k] = "save" => rows[i].canceled)
    <3>1. CASE k = h
      <4>1. p # Null /\ rows[i].token = p
        BY <1>1, <2>1, <3>1, Numbers
      <4>2. rows[i].gen = g
        BY <1>2, <4>1 DEF Distinct
      <4> QED
        BY <1>1, <3>1, <4>2
    <3>2. CASE k # h
      BY <1>1, <2>1, <3>2 DEF Exchanged
    <3> QED
      BY <3>1, <3>2
  <2> QED
    BY <1>1, <2>1 DEF Exchanged
<1> QED
  BY <1>4, <1>5, <1>6

LEMMA MoveKeepsRotation ==
  ASSUME RotationInv, NEW h \in Handlers, Moved(h)
  PROVE  Signed' /\ Distinct' /\ Exchanged'
<1> USE DEF RotationInv
<1>1. /\ second' = second /\ rows' = rows /\ used' = used
      /\ \A k \in Handlers : k # h => pc'[k] = pc[k] /\ ctx'[k] = ctx[k]
  BY DEF Moved, Others
<1>2. \A k \in Handlers : Busy(k)' => Busy(k) /\ ctx'[k].token = ctx[k].token
  BY <1>1 DEF Moved, Busy
<1>3. \A k \in Handlers :
        \/ ctx'[k].presented = Null
        \/ /\ ctx'[k].presented = ctx[k].presented
           /\ ctx'[k].gen = ctx[k].gen
           /\ pc'[k] = "save" => pc[k] = "save"
  BY <1>1 DEF Moved
<1>4. Signed'
  BY <1>1, <1>2, <1>3 DEF Signed
<1>5. Distinct'
  <2>1. \A k \in Handlers : ctx[k].token \in Nat
    BY Numbers
  <2> QED
    BY <1>1, <1>2, <1>3, <2>1, Numbers DEF Distinct
<1>6. Exchanged'
  BY <1>1, <1>3, Numbers DEF Exchanged
<1> QED
  BY <1>4, <1>5, <1>6

LEMMA CancelKeepsRotation ==
  ASSUME RotationInv, NEW h \in Handlers, CancelPrevious(h)
  PROVE  Signed' /\ Distinct' /\ Exchanged'
<1> USE DEF RotationInv
<1>1. /\ DOMAIN rows' = DOMAIN rows
      /\ \A i \in DOMAIN rows :
           /\ rows'[i].token = rows[i].token
           /\ rows'[i].gen = rows[i].gen
           /\ rows'[i].canceled = (rows[i].canceled \/ rows[i].gen = ctx[h].gen)
  BY CancelKeepsRows
<1>2. /\ ctx' = ctx /\ used' = used /\ second' = second
      /\ pc[h] = "cancel" /\ pc' = [pc EXCEPT ![h] = "save"]
  BY DEF CancelPrevious, Goto
<1>3. \A k \in Handlers : /\ Busy(k)' <=> Busy(k)
                          /\ pc'[k] = "save" => k = h \/ pc[k] = "save"
  BY <1>2 DEF Busy, TypeOK
<1>4. Signed'
  BY <1>1, <1>2, <1>3 DEF Signed
<1>5. Distinct'
  BY <1>1, <1>2, <1>3 DEF Distinct
<1>6. Exchanged'
  <2>1. ASSUME NEW i \in DOMAIN rows', rows'[i].token \in used' PROVE rows'[i].canceled
    <3>1. rows[i].canceled
      BY <1>1, <1>2, <2>1 DEF Exchanged
    <3> QED
      BY <1>1, <3>1
  <2>2. ASSUME NEW k \in Handlers, NEW i \in DOMAIN rows', rows'[i].token = ctx'[k].presented
        PROVE  rows'[i].gen = ctx'[k].gen /\ (pc'[k] = "save" => rows'[i].canceled)
    <3>1. /\ rows[i].gen = ctx[k].gen /\ (pc[k] = "save" => rows[i].canceled)
      BY <1>1, <1>2, <2>2 DEF Exchanged
    <3>2. rows'[i].gen = ctx'[k].gen
      BY <1>1, <1>2, <3>1
    <3>3. ASSUME pc'[k] = "save" PROVE rows'[i].canceled
      <4>1. rows[i].canceled \/ rows[i].gen = ctx[h].gen
        BY <1>3, <3>1, <3>3
      <4> QED
        BY <1>1, <4>1
    <3> QED
      BY <3>2, <3>3
  <2> QED
    BY <2>1, <2>2 DEF Exchanged
<1> QED
  BY <1>4, <1>5, <1>6

LEMMA SaveKeepsRotation ==
  ASSUME RotationInv, NEW h \in Handlers, SaveToken(h)
  PROVE  Signed' /\ Distinct' /\ Exchanged'
<1> USE DEF RotationInv
<1> DEFINE n == Len(rows) + 1
<1>1. /\ DOMAIN rows' = DOMAIN rows \cup {n} /\ n \notin DOMAIN rows
      /\ \A i \in DOMAIN rows : rows'[i] = rows[i]
      /\ rows'[n].token = ctx[h].token
      /\ rows'[n].gen = ctx[h].gen
  BY SaveAppendsRow
<1> HIDE DEF n
<1>2. /\ pc[h] = "save" /\ pc' = [pc EXCEPT ![h] = "idle"]
      /\ second' = second
      /\ used' = used \cup ({ctx[h].presented} \ {Null})
      /\ ctx' = [ctx EXCEPT ![h] = IdleCtx]
  BY DEF SaveToken, Goto
<1>3. /\ ctx'[h].presented = Null
      /\ \A k \in Handlers : k # h => pc'[k] = pc[k] /\ ctx'[k] = ctx[k]
      /\ Busy(h) /\ ~Busy(h)'
  BY <1>2 DEF Busy, TypeOK, IdleCtx
<1>4. \A k \in Handlers : Busy(k)' => k # h /\ Busy(k) /\ ctx'[k].token = ctx[k].token
  BY <1>3 DEF Busy
<1>5. \A i \in DOMAIN rows : rows[i].token # ctx[h].token
  BY <1>3 DEF Distinct
<1>6. Signed'
  BY <1>1, <1>2, <1>3, <1>4 DEF Signed
<1>7. Distinct'
  <2>1. \A i, j \in DOMAIN rows' : rows'[i].token = rows'[j].token => i = j
    BY <1>1, <1>5 DEF Distinct
  <2>2. \A k \in Handlers : Busy(k)' => /\ \A i \in DOMAIN rows' : rows'[i].token # ctx'[k].token
                                        /\ ctx'[k].token \notin used'
    BY <1>1, <1>2, <1>3, <1>4 DEF Distinct
  <2>3. \A k, l \in Handlers : Busy(k)' => /\ ctx'[l].presented # ctx'[k].token
                                           /\ Busy(l)' /\ k # l => ctx'[k].token # ctx'[l].token
    BY <1>3, <1>4, Numbers DEF Distinct
  <2> QED
    BY <2>1, <2>2, <2>3 DEF Distinct
<1>8. Exchanged'
  <2>1. ASSUME NEW i \in DOMAIN rows', rows'[i].token \in used'
        PROVE  rows'[i].canceled
    <3>1. CASE i \in DOMAIN rows
      BY <1>1, <1>2, <2>1, <3>1 DEF Exchanged
    <3>2. CASE i = n
      BY <1>1, <1>2, <1>3, <2>1, <3>2 DEF Distinct
    <3> QED
      BY <1>1, <3>1, <3>2
  <2>2. ASSUME NEW k \in Handlers, NEW i \in DOMAIN rows', rows'[i].token = ctx'[k].presented
        PROVE  rows'[i].gen = ctx'[k].gen /\ (pc'[k] = "save" => rows'[i].canceled)
    <3>1. k # h
      <4>1. rows'[i].token # Null
        BY <1>1, Numbers
      <4> QED
        BY <1>3, <2>2, <4>1
    <3>2. i \in DOMAIN rows
      BY <1>1, <1>3, <2>2, <3>1 DEF Distinct
    <3> QED
      BY <1>1, <1>3, <2>2, <3>1, <3>2 DEF Exchanged
  <2> QED
    BY <2>1, <2>2 DEF Exchanged
<1> QED
  BY <1>6, <1>7, <1>8

LEMMA RotationPreserved ==
  ASSUME ~SameSecond
  PROVE  RotationInv /\ [Next]_vars => RotationInv'
<1> SUFFICES ASSUME RotationInv, [Next]_vars PROVE RotationInv'
  OBVIOUS
<1>1. TypeOK /\ TypeOK'
  BY TypesPreserved DEF RotationInv
<1>2. CASE UNCHANGED vars
  <2>1. rows' = rows /\ second' = second /\ used' = used /\ pc' = pc /\ ctx' = ctx
    BY <1>2 DEF vars
  <2> QED
    BY <1>1, <2>1 DEF RotationInv, Signed, Distinct, Exchanged, Busy
<1> QED
  BY <1>1, <1>2, NextMoves, StartKeepsRotation, MoveKeepsRotation, CancelKeepsRotation,
     SaveKeepsRotation DEF RotationInv

LEMMA RotationInvariance ==
  ASSUME ~SameSecond
  PROVE  Spec => []RotationInv
<1>1. ASSUME Init PROVE Signed /\ Distinct /\ Exchanged
  <2>1. DOMAIN rows = {} /\ used = {}
    BY <1>1 DEF Init
  <2>2. \A h \in Handlers : ~Busy(h) /\ ctx[h].presented = Null
    BY <1>1 DEF Init, Busy, IdleCtx
  <2> QED
    BY <2>1, <2>2 DEF Signed, Distinct, Exchanged
<1>2. Spec => []TypeOK
  BY TypeCorrect
<1>3. Init /\ TypeOK => RotationInv
  BY <1>1 DEF RotationInv
<1> QED
  BY <1>2, <1>3, RotationPreserved, PTL DEF Spec

\* Tokens being distinct, a refresh token that NewTaskTokenFromRefreshToken has
\* exchanged is refused from then on, with any number of concurrent requests and
\* with any statement of any of them failing.
THEOREM UsedAlwaysRefused ==
  ASSUME ~SameSecond
  PROVE  Spec => []UsedIsRefused
<1>1. RotationInv => UsedIsRefused
  BY DEF RotationInv, Exchanged, UsedIsRefused, Accepted, Matches
<1> QED
  BY <1>1, RotationInvariance, PTL

\* The rows of a step's result that are accepted were so before, or are new.
LEMMA AcceptedShrinks ==
  ASSUME RotationInv, [Next]_vars, NEW i \in DOMAIN rows, rows[i].token \in Accepted'
  PROVE  rows[i].token \in Accepted
<1> USE DEF RotationInv
<1>1. PICK j \in Matches' : rows'[j].token = rows[i].token
  BY DEF Accepted
<1>2. /\ j \in DOMAIN rows' /\ ~rows'[j].canceled
      /\ \A k \in DOMAIN rows' : rows'[k].version <= rows'[j].version
  BY <1>1 DEF Matches
<1>3. CASE UNCHANGED rows
  BY <1>3 DEF Accepted, Matches
<1>4. ASSUME NEW h \in Handlers, CancelPrevious(h) PROVE rows[i].token \in Accepted
  <2>1. /\ j \in DOMAIN rows /\ rows[j].token = rows[i].token /\ ~rows[j].canceled
        /\ \A k \in DOMAIN rows : rows[k].version <= rows[j].version
    <3>1. /\ DOMAIN rows' = DOMAIN rows
          /\ \A k \in DOMAIN rows : /\ rows'[k].token = rows[k].token
                                    /\ rows'[k].version = rows[k].version
                                    /\ rows[k].canceled => rows'[k].canceled
      BY <1>4, CancelKeepsRows
    <3> QED
      BY <1>1, <1>2, <3>1
  <2> QED
    BY <2>1 DEF Accepted, Matches
<1>5. ASSUME NEW h \in Handlers, SaveToken(h) PROVE rows[i].token \in Accepted
  <2> DEFINE n == Len(rows) + 1
  <2>1. /\ DOMAIN rows' = DOMAIN rows \cup {n}
        /\ \A k \in DOMAIN rows : rows'[k] = rows[k]
        /\ rows'[n].token = ctx[h].token
    BY <1>5, SaveAppendsRow
  <2> HIDE DEF n
  <2>2. j # n
    <3>1. Busy(h)
      BY <1>5 DEF SaveToken, Goto, Busy
    <3>2. rows[i].token # ctx[h].token
      BY <3>1 DEF Distinct
    <3> QED
      BY <1>1, <2>1, <3>2
  <2>3. /\ j \in DOMAIN rows /\ rows[j].token = rows[i].token /\ ~rows[j].canceled
        /\ \A k \in DOMAIN rows : rows[k].version <= rows[j].version
    BY <1>1, <1>2, <2>1, <2>2
  <2> QED
    BY <2>3 DEF Accepted, Matches
<1>6. CASE UNCHANGED vars
  BY <1>3, <1>6 DEF vars
<1> QED
  BY <1>3, <1>4, <1>5, <1>6, NextMoves DEF Started, Moved

\* Tokens being distinct, one that the refresh query has stopped selecting is never
\* selected again: versions only grow and a cancellation is final.
THEOREM WithdrawnForGood ==
  ASSUME ~SameSecond
  PROVE  Spec => WithdrawnStaysWithdrawn
<1>1. RotationInv /\ [Next]_vars =>
        [{rows[i].token : i \in DOMAIN rows} \cap Accepted' \subseteq Accepted]_vars
  BY AcceptedShrinks
<1> QED
  BY <1>1, RotationInvariance, PTL DEF Spec, WithdrawnStaysWithdrawn

-----------------------------------------------------------------------------
(***************************************************************************)
(* SecretTokenRefreshes and PreviousTokensInvalidated.                     *)
(*                                                                         *)
(* They are about requests that follow each other and a resource with one  *)
(* generation: the refresh query takes the highest version of all specs.   *)
(* Statements may fail, and tokens may be signed in one second.  Then the  *)
(* versions grow with the ids of the rows, every row but the last is       *)
(* cancelled, and what a request carries is about to become the last row.  *)
(***************************************************************************)
OneAtATime == \A g, h \in Handlers : Busy(g) /\ Busy(h) => g = h
OneGeneration == current <= 1

VersionsGrow == \A i, j \in DOMAIN rows : i < j => rows[i].version < rows[j].version
OnlyLastValid == \A i \in DOMAIN rows : i # Len(rows) => rows[i].canceled

\* What a request knows at each of its statements.
CarriesLast(h) ==
  /\ Busy(h) => ctx[h].gen = 1
  /\ pc[h] \in {"secret", "cancel", "save"} =>
       \A i \in DOMAIN rows : rows[i].version <= ctx[h].version
  /\ pc[h] \in {"cancel", "save"} => secret # Null /\ secret.token = ctx[h].token
  /\ pc[h] = "save" => \A i \in DOMAIN rows : rows[i].canceled

\* The last row is that of the secret.
SecretIsLast ==
  AllIdle /\ ~failed /\ secret # Null =>
    Len(rows) \in DOMAIN rows /\ ~rows[Len(rows)].canceled /\ rows[Len(rows)].token = secret.token

SerialInv ==
  /\ \A i \in DOMAIN rows : rows[i].gen = 1
  /\ VersionsGrow
  /\ OnlyLastValid
  /\ \A h \in Handlers : CarriesLast(h)
  /\ SecretIsLast

\* A step of h that leaves the rows alone and does not end a request well.
LEMMA CarriesOn ==
  ASSUME TypeOK, SerialInv, OneAtATime, NEW h \in Handlers, CarriesLast(h)',
         Others(h), UNCHANGED rows, Busy(h) \/ UNCHANGED secret,
         Busy(h)' \/ failed'
  PROVE  SerialInv'
<1>1. \A i \in DOMAIN rows' : rows'[i].gen = 1
  BY DEF SerialInv
<1>2. VersionsGrow' /\ OnlyLastValid'
  BY DEF SerialInv, VersionsGrow, OnlyLastValid
<1>3. ASSUME NEW k \in Handlers, k # h PROVE CarriesLast(k)'
  <2>1. pc'[k] = pc[k] /\ ctx'[k] = ctx[k] /\ CarriesLast(k) /\ rows' = rows
    BY <1>3 DEF Others, SerialInv
  <2>2. CASE Busy(h)
    <3>1. pc[k] = "idle"
      BY <1>3, <2>2 DEF OneAtATime, Busy
    <3>2. QED
      BY <2>1, <3>1 DEF CarriesLast, Busy
  <2>3. CASE secret' = secret
    BY <2>1, <2>3 DEF CarriesLast, Busy
  <2>4. QED
    BY <2>2, <2>3
<1>4. SecretIsLast'
  BY DEF SecretIsLast, AllIdle, Busy
<1>5. QED
  BY <1>1, <1>2, <1>3, <1>4 DEF SerialInv

LEMMA StartSerial ==
  ASSUME TypeOK, SerialInv, OneAtATime, NEW h \in Handlers, NEW p \in Token \cup {Null},
         StartMint(h, 1, p)
  PROVE  SerialInv'
<1>1. 1 \in Generation
  BY DEF Generation
<1>2. /\ pc' = [pc EXCEPT ![h] = "version"]
      /\ ctx' = [ctx EXCEPT ![h] = [gen |-> 1, token |-> second', version |-> 0, presented |-> p]]
  BY <1>1, StartMintTypes
<1>3. pc'[h] = "version" /\ ctx'[h].gen = 1 /\ Others(h)
  BY <1>2 DEF TypeOK, Others
<1>4. UNCHANGED <<rows, secret>>
  BY DEF StartMint
<1>5. CarriesLast(h)' /\ Busy(h)'
  BY <1>3 DEF CarriesLast, Busy
<1>6. QED
  BY <1>3, <1>4, <1>5, CarriesOn

LEMMA ReadVersionSerial ==
  ASSUME TypeOK, SerialInv, OneAtATime, NEW h \in Handlers, ReadVersion(h)
  PROVE  SerialInv'
<1>1. PICK v \in 0 .. MaxMints : LastVersion(h, v) /\ ctx' = [ctx EXCEPT ![h].version = v]
  BY DEF ReadVersion
<1>2. /\ pc[h] = "version" /\ pc'[h] = "secret"
      /\ \A k \in Handlers : k # h => pc'[k] = pc[k]
      /\ UNCHANGED <<rows, secret>>
  BY DEF ReadVersion, Goto, TypeOK
<1>3. /\ ctx'[h].gen = ctx[h].gen /\ ctx'[h].version = v
      /\ \A k \in Handlers : k # h => ctx'[k] = ctx[k]
  BY <1>1 DEF TypeOK, Ctx
<1>4. ctx[h].gen = 1 /\ Busy(h)
  BY <1>2 DEF SerialInv, CarriesLast, Busy
<1>5. \A i \in DOMAIN rows : rows[i].version <= v
  BY <1>1, <1>4 DEF LastVersion, RowsOf, SerialInv
<1>6. CarriesLast(h)' /\ Busy(h)'
  BY <1>2, <1>3, <1>4, <1>5 DEF CarriesLast, Busy
<1>7. QED
  BY <1>2, <1>3, <1>4, <1>6, CarriesOn DEF Others

LEMMA WriteSecretSerial ==
  ASSUME TypeOK, SerialInv, OneAtATime, NEW h \in Handlers, WriteSecret(h)
  PROVE  SerialInv'
<1>1. /\ pc[h] = "secret" /\ pc'[h] = "cancel" /\ ctx' = ctx /\ rows' = rows
      /\ Others(h)
      /\ secret' = [gen |-> ctx[h].gen, token |-> ctx[h].token]
  BY DEF WriteSecret, Goto, TypeOK, Others
<1>2. secret' # Null /\ secret'.token = ctx[h].token
  <2>1. ctx[h] \in Ctx
    BY DEF TypeOK
  <2>2. secret' \in [gen : Generation, token : Token]
    BY <1>1, <2>1 DEF Ctx
  <2>3. QED
    BY <1>1, <2>2, NullAssumption
<1>3. CarriesLast(h) /\ Busy(h)
  BY <1>1 DEF SerialInv, Busy
<1>4. CarriesLast(h)' /\ Busy(h)'
  BY <1>1, <1>2, <1>3 DEF CarriesLast, Busy
<1>5. QED
  BY <1>1, <1>3, <1>4, CarriesOn

LEMMA CancelSerial ==
  ASSUME TypeOK, SerialInv, OneAtATime, NEW h \in Handlers, CancelPrevious(h)
  PROVE  SerialInv'
<1>1. /\ pc[h] = "cancel" /\ pc'[h] = "save" /\ UNCHANGED <<ctx, secret>>
      /\ \A k \in Handlers : k # h => pc'[k] = pc[k]
  BY DEF CancelPrevious, Goto, TypeOK
<1>2. Busy(h) /\ CarriesLast(h) /\ ctx[h].gen = 1
  BY <1>1 DEF SerialInv, CarriesLast, Busy
<1>3. /\ rows' \in Seq(RefreshToken) /\ DOMAIN rows' = DOMAIN rows
      /\ \A i \in DOMAIN rows :
           /\ rows'[i].gen = 1 /\ rows'[i].version = rows[i].version
           /\ rows'[i].canceled
  <2>1. /\ rows' \in Seq(RefreshToken) /\ DOMAIN rows' = DOMAIN rows
        /\ \A i \in DOMAIN rows :
             /\ rows'[i].gen = rows[i].gen /\ rows'[i].version = rows[i].version
             /\ rows'[i].canceled = (rows[i].canceled \/ rows[i].gen = ctx[h].gen)
    BY CancelKeepsRows
  <2>2. \A i \in DOMAIN rows : rows[i].gen = 1 /\ rows[i].gen = ctx[h].gen
    BY <1>2 DEF SerialInv
  <2>3. QED
    BY <2>1, <2>2, Zenon
<1>4. VersionsGrow' /\ OnlyLastValid'
  BY <1>3 DEF SerialInv, VersionsGrow, OnlyLastValid
<1>5. CarriesLast(h)'
  BY <1>1, <1>2, <1>3 DEF CarriesLast, Busy
<1>6. ASSUME NEW k \in Handlers, k # h PROVE CarriesLast(k)'
  <2>1. pc'[k] = "idle"
    BY <1>1, <1>2, <1>6 DEF OneAtATime, Busy
  <2>2. QED
    BY <2>1 DEF CarriesLast, Busy
<1>7. SecretIsLast'
  BY <1>1 DEF SecretIsLast, AllIdle
<1>8. QED
  BY <1>3, <1>4, <1>5, <1>6, <1>7 DEF SerialInv

LEMMA SaveSerial ==
  ASSUME TypeOK, TypeOK', SerialInv, OneAtATime, NEW h \in Handlers, SaveToken(h)
  PROVE  SerialInv'
<1> PICK n \in Nat : n = Len(rows) + 1
  BY DEF TypeOK
<1>1. /\ pc[h] = "save" /\ pc'[h] = "idle" /\ secret' = secret
      /\ \A k \in Handlers : k # h => pc'[k] = pc[k]
  BY DEF SaveToken, Goto, TypeOK
<1>2. Busy(h) /\ CarriesLast(h)
  BY <1>1 DEF SerialInv, Busy
<1>3. /\ ctx[h].gen = 1 /\ secret # Null /\ secret.token = ctx[h].token
      /\ \A i \in DOMAIN rows : rows[i].version <= ctx[h].version /\ rows[i].canceled
  BY <1>1, <1>2 DEF CarriesLast
<1>4. /\ DOMAIN rows' = DOMAIN rows \cup {n} /\ n \notin DOMAIN rows
      /\ \A i \in DOMAIN rows : rows'[i] = rows[i]
      /\ rows'[n] = NewRow(ctx[h])
  BY SaveAppendsRow
<1>5. /\ rows'[n].gen = 1 /\ rows'[n].token = secret.token /\ rows'[n].canceled = FALSE
      /\ rows'[n].version = ctx[h].version + 1
  BY <1>3, <1>4 DEF NewRow
<1>6. Len(rows') = n /\ \A i \in DOMAIN rows : i < n
  BY DEF SaveToken, TypeOK
<1>7. \A i \in DOMAIN rows : rows[i].version \in Nat
  BY Numbers
<1>8. ctx[h].version \in Nat
  <2>1. ctx[h] \in Ctx
    BY DEF TypeOK
  <2>2. QED
    BY <2>1 DEF Ctx
<1>9. \A i \in DOMAIN rows' : rows'[i].gen = 1
  BY <1>4, <1>5 DEF SerialInv
<1>10. VersionsGrow'
  <2>1. ASSUME NEW i \in DOMAIN rows', NEW j \in DOMAIN rows', i < j
        PROVE  rows'[i].version < rows'[j].version
    <3>1. CASE j \in DOMAIN rows /\ i \in DOMAIN rows
      BY <1>4, <2>1, <3>1 DEF SerialInv, VersionsGrow
    <3>2. CASE j = n /\ i \in DOMAIN rows
      BY <1>3, <1>4, <1>5, <1>7, <1>8, <3>2
    <3>3. CASE i = n
      <4>1. j \in DOMAIN rows \/ j = n
        BY <1>4
      <4>2. ~(i < j)
        <5>1. DOMAIN rows \subseteq Nat
          BY DEF TypeOK
        <5>2. QED
          BY <1>6, <3>3, <4>1, <5>1
      <4>3. QED
        BY <2>1, <4>2
    <3>4. QED
      BY <1>4, <3>1, <3>2, <3>3
  <2>2. QED
    BY <2>1 DEF VersionsGrow
<1>11. OnlyLastValid'
  BY <1>3, <1>4, <1>6 DEF OnlyLastValid
<1>12. ASSUME NEW k \in Handlers PROVE CarriesLast(k)'
  <2>1. pc'[k] = "idle"
    BY <1>1, <1>2 DEF OneAtATime, Busy
  <2>2. QED
    BY <2>1 DEF CarriesLast, Busy
<1>13. SecretIsLast'
  BY <1>1, <1>4, <1>5, <1>6 DEF SecretIsLast
<1>14. QED
  BY <1>9, <1>10, <1>11, <1>12, <1>13 DEF SerialInv

LEMMA FailSerial ==
  ASSUME TypeOK, SerialInv, OneAtATime, NEW h \in Handlers, Fail(h)
  PROVE  SerialInv'
<1>1. /\ pc'[h] = "idle" /\ Others(h) /\ Busy(h) /\ failed' = TRUE
      /\ UNCHANGED <<rows, secret>>
  BY DEF Fail, TypeOK, Others, Busy
<1>2. CarriesLast(h)'
  BY <1>1 DEF CarriesLast, Busy
<1>3. QED
  BY <1>1, <1>2, CarriesOn

LEMMA SerialPreserved ==
  ASSUME "version" \notin FaultKinds,
         TypeOK, TypeOK', SerialInv, OneAtATime, OneGeneration, OneGeneration', [Next]_vars
  PROVE  SerialInv'
<1>1. ASSUME NEW h \in Handlers, NewGeneration(h) PROVE SerialInv'
  <2>1. current' = 1
    BY <1>1 DEF NewGeneration, OneGeneration, TypeOK, Generation
  <2>2. QED
    BY <1>1, <2>1, StartSerial DEF NewGeneration
<1>2. ASSUME NEW h \in Handlers, Reissue(h) PROVE SerialInv'
  <2>1. current = 1
    BY <1>2 DEF Reissue, OneGeneration, TypeOK, Generation
  <2>2. QED
    BY <1>2, <2>1, StartSerial DEF Reissue
<1>3. ASSUME NEW h \in Handlers, Refresh(h) PROVE SerialInv'
  <2>1. PICK i \in DOMAIN rows : StartMint(h, rows[i].gen, rows[i].token)
    BY <1>3 DEF Refresh, Matches
  <2>2. rows[i].gen = 1 /\ rows[i].token \in Token
    BY Numbers DEF SerialInv, Token
  <2>3. QED
    BY <2>1, <2>2, StartSerial
<1>4. ASSUME NEW h \in Handlers, ReadVersionFails(h) PROVE FALSE
  BY <1>4 DEF ReadVersionFails
<1>5. CASE UNCHANGED vars
  <2>1. rows' = rows /\ secret' = secret /\ failed' = failed /\ pc' = pc /\ ctx' = ctx
    BY <1>5 DEF vars
  <2>2. VersionsGrow' /\ OnlyLastValid' /\ SecretIsLast'
    BY <2>1 DEF SerialInv, VersionsGrow, OnlyLastValid, SecretIsLast, AllIdle
  <2>3. \A h \in Handlers : CarriesLast(h)'
    BY <2>1 DEF SerialInv, CarriesLast, Busy
  <2>4. QED
    BY <2>1, <2>2, <2>3 DEF SerialInv
<1>6. QED
  BY <1>1, <1>2, <1>3, <1>4, <1>5, ReadVersionSerial, WriteSecretSerial, CancelSerial,
     SaveSerial, FailSerial DEF Next, Waiting

LEMMA SerialInvariance ==
  ASSUME "version" \notin FaultKinds
  PROVE  Spec /\ []OneAtATime /\ []OneGeneration => [](TypeOK /\ SerialInv)
<1>1. Init => SerialInv
  BY DEF Init, SerialInv, VersionsGrow, OnlyLastValid, CarriesLast, Busy, SecretIsLast
<1>2. /\ TypeOK /\ TypeOK' /\ SerialInv /\ OneAtATime /\ OneGeneration /\ OneGeneration'
      /\ [Next]_vars
      => SerialInv'
  BY SerialPreserved
<1>3. QED
  BY <1>1, <1>2, TypeCorrect, PTL DEF Spec

\* The rows that the refresh query selects once a request has ended well.
LEMMA LastMatches ==
  ASSUME TypeOK, SerialInv, AllIdle, ~failed, secret # Null
  PROVE  Accepted = {secret.token}
<1> PICK n \in Nat : n = Len(rows)
  BY DEF TypeOK
<1>1. n \in DOMAIN rows /\ ~rows[n].canceled /\ rows[n].token = secret.token
  BY DEF SerialInv, SecretIsLast
<1>2. \A i \in DOMAIN rows : i \in Nat /\ i <= n /\ rows[i].version \in Nat
  BY Numbers DEF TypeOK
<1>3. \A i \in DOMAIN rows : rows[i].version <= rows[n].version
  <2>1. ASSUME NEW i \in DOMAIN rows PROVE rows[i].version <= rows[n].version
    <3>1. CASE i = n
      BY <1>2, <3>1
    <3>2. CASE i < n
      BY <1>1, <1>2, <3>2 DEF SerialInv, VersionsGrow
    <3>3. QED
      BY <1>2, <3>1, <3>2
  <2>2. QED
    BY <2>1
<1>4. \A i \in DOMAIN rows : i # n => rows[i].canceled
  BY DEF SerialInv, OnlyLastValid
<1>5. Matches = {n}
  BY <1>1, <1>3, <1>4 DEF Matches
<1>6. QED
  BY <1>1, <1>5 DEF Accepted

\* A task of a resource with one generation, whose requests follow each other, can
\* always exchange the refresh token of its secret, after whatever failed before.
THEOREM SecretAlwaysRefreshes ==
  ASSUME "version" \notin FaultKinds
  PROVE  Spec /\ []OneAtATime /\ []OneGeneration => []SecretTokenRefreshes
<1>1. TypeOK /\ SerialInv => SecretTokenRefreshes
  BY LastMatches DEF SecretTokenRefreshes
<1>2. QED
  BY <1>1, SerialInvariance, PTL

\* ... and no other token: NewTaskToken has invalidated the previous ones.
THEOREM OnlySecretRefreshes ==
  ASSUME "version" \notin FaultKinds
  PROVE  Spec /\ []OneAtATime /\ []OneGeneration => []PreviousTokensInvalidated
<1>1. TypeOK /\ SerialInv => PreviousTokensInvalidated
  BY LastMatches DEF PreviousTokensInvalidated
<1>2. QED
  BY <1>1, SerialInvariance, PTL
=============================================================================
