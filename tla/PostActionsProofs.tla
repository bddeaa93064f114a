------------------------- MODULE PostActionsProofs -------------------------
(***************************************************************************)
(* Theorems about PostActions, for any number of sessions, tokens, quotes, *)
(* publications and troubles: its types, that the account keeps its        *)
(* connection, that a repost request alone leaves the row and X in         *)
(* agreement, that a deleted post leaves no tweet but those of repeated    *)
(* publications, and that quotes have their rows.                          *)
(***************************************************************************)
EXTENDS PostActions, FiniteSetTheorems, TLAPS

-----------------------------------------------------------------------------
(* Type correctness                                                        *)

LEMMA IdleTyped == Idle \in Session
BY PostActionsAssumption DEF Idle, Session, NewPost, PostRow, AccountRow, Ops

LEMMA FailedTyped ==
    \A s \in Session : Failed(s) \in Session
BY IdleTyped DEF Failed, Session

LEMMA StoredTyped ==
    ASSUME TypeOK, NEW s \in Session, s.op # None
    PROVE  Stored(s) \in PostRow
<1> USE DEF TypeOK
<1>1. CASE s.op = "delete"
  BY <1>1 DEF Stored, PostRow
<1>2. CASE s.op = "repost"
  BY <1>2 DEF Stored, Toggled, PostRow, Session
<1>3. CASE s.op = "quote"
  BY <1>3 DEF Stored
<1>4. CASE s.op = "publish"
  <2>1. /\ Written(s, "published") \in {"publishing", "published", "failed"}
        /\ Written(s, "failed") \in {"publishing", "published", "failed"}
    BY DEF Written, PostRow
  <2> QED  BY <1>4, <2>1 DEF Stored, PostRow, Session
<1> QED  BY <1>1, <1>2, <1>3, <1>4 DEF Session, Ops

TroubleKinds == {"crash", "lost", "refused", "repeated"}

LEMMA TroubleTyped ==
    ASSUME TypeOK, NEW kind \in TroubleKinds, Trouble(kind)
    PROVE  faults' \in Faults
BY DEF TypeOK, Trouble, TroubleKinds, Faults

LEMMA KindTyped ==
    \A a, kind : kind \in TroubleKinds => Kind(a, kind) \in TroubleKinds
BY DEF Kind, TroubleKinds

LEMMA FailTyped ==
    ASSUME TypeOK, NEW a \in Agents, Fail(a)
    PROVE  agent' \in [Agents -> Session]
BY FailedTyped DEF TypeOK, Fail

LEMMA EffectTyped ==
    ASSUME TypeOK, NEW a \in Agents, Effect(agent[a].op, agent[a].seen)
    PROVE  /\ made' \in Nat
           /\ tweets' \subseteq 1 .. made'
           /\ onX' \subseteq Nat
           /\ quotes' \in [x : Nat, rows : Nat]
<1> DEFINE op == agent[a].op
<1>1. agent[a].seen.pid \in Nat
  BY DEF TypeOK, Session, PostRow
<1>2. made' \in Nat
  BY DEF TypeOK, Effect
<1>3. onX' \subseteq Nat
  BY <1>1 DEF Effect, TypeOK
<1>4. quotes' \in [x : Nat, rows : Nat]
  <2>1. CASE op = "quote"
    BY <2>1 DEF Effect, TypeOK
  <2>2. CASE op # "quote"
    BY <2>2 DEF Effect, TypeOK
  <2> QED  BY <2>1, <2>2
<1>5. tweets' \subseteq 1 .. made'
  <2>1. CASE op = "publish"
    BY <2>1 DEF TypeOK, Effect
  <2>2. CASE op = "delete"
    BY <2>2 DEF TypeOK, Effect
  <2>3. CASE op \notin {"publish", "delete"}
    BY <2>3 DEF TypeOK, Effect
  <2> QED  BY <2>1, <2>2, <2>3
<1> QED  BY <1>2, <1>3, <1>4, <1>5

\* What the start of an operation leaves of the other sessions.
LEMMA Others ==
    ASSUME TypeOK, NEW a \in Agents, NEW op \in Ops, Begin(a, op), NEW b \in Agents \ {a}
    PROVE  /\ agent'[b].op = agent[b].op /\ agent'[b].pc = agent[b].pc
           /\ agent'[b].seen = agent[b].seen /\ agent'[b].acct = agent[b].acct
           /\ agent'[b].fresh = agent[b].fresh /\ agent'[b].ok = agent[b].ok
           /\ agent'[b].tweet = agent[b].tweet
           /\ agent'[b].alone => agent[b].alone
           /\ op = "repost" /\ agent[b].op = "repost" => ~agent'[b].alone
<1>1. agent[b] \in Session
  BY DEF TypeOK
<1>2. \/ agent'[b] = agent[b] /\ ~(op = "repost" /\ agent[b].op = "repost")
      \/ agent'[b] = [agent[b] EXCEPT !.alone = FALSE]
  BY DEF Begin
<1> QED  BY <1>1, <1>2 DEF Session

\* A session has an operation from its start to its end.
Operating == \A a \in Agents : agent[a].pc # "idle" => agent[a].op # None

LEMMA TypesInit == Init => TypeOK /\ Operating
<1> SUFFICES ASSUME Init PROVE TypeOK /\ Operating
  OBVIOUS
<1>1. agent \in [Agents -> Session]
  BY IdleTyped DEF Init
<1>2. token \in 1 .. MaxTokens
  BY PostActionsAssumption DEF Init
<1>3. row \in PostRow /\ account \in AccountRow
  BY DEF Init, NewPost, PostRow, AccountRow
<1>4. tweets \subseteq 1 .. made /\ faults \in Faults
  BY DEF Init, Faults
<1>5. Operating
  BY DEF Init, Operating, Idle
<1> QED  BY <1>1, <1>2, <1>3, <1>4, <1>5 DEF Init, TypeOK

LEMMA TypesStep == TypeOK /\ Operating /\ [Next]_vars => TypeOK' /\ Operating'
<1> SUFFICES ASSUME TypeOK, Operating, [Next]_vars PROVE TypeOK' /\ Operating'
  OBVIOUS
<1>1. CASE TokenDue
  <2>1. account' \in AccountRow
    BY <1>1 DEF TokenDue, TypeOK, AccountRow
  <2>2. Operating'
    BY <1>1 DEF TokenDue, Operating
  <2> QED  BY <1>1, <2>1, <2>2 DEF TokenDue, TypeOK
<1>2. CASE Reconnect
  <2>1. token' \in 1 .. MaxTokens
    BY <1>2, PostActionsAssumption DEF Reconnect, TypeOK
  <2>2. account' \in AccountRow
    BY <1>2 DEF Reconnect, TypeOK, AccountRow
  <2>3. Operating'
    BY <1>2 DEF Reconnect, Operating
  <2> QED  BY <1>2, <2>1, <2>2, <2>3 DEF Reconnect, TypeOK
<1>3. ASSUME NEW a \in Agents, NEW op \in Ops, Begin(a, op)
      PROVE  TypeOK' /\ Operating'
  <2> DEFINE overlaps == {b \in Agents : agent[b].op = "repost" /\ op = "repost"}
             next == CASE op = "delete" /\ ~ShouldDeleteOnX(row) -> "commit"
                       [] account.due -> "token"
                       [] OTHER -> "call"
             new == [Idle EXCEPT !.op = op, !.pc = next, !.seen = row,
                                 !.acct = account, !.alone = overlaps = {}, !.ok = TRUE]
  <2>1. next \in {"token", "call", "commit"}
    OBVIOUS
  <2>2. new \in Session /\ new.op = op /\ new.pc = next
    BY <2>1, IdleTyped DEF Session, TypeOK, Idle
  <2>3. agent' = [b \in Agents |-> IF b = a THEN new
                    ELSE IF b \in overlaps THEN [agent[b] EXCEPT !.alone = FALSE]
                    ELSE agent[b]]
    BY <1>3 DEF Begin
  <2>4. ASSUME NEW b \in Agents
        PROVE  [agent[b] EXCEPT !.alone = FALSE] \in Session
    <3>1. agent[b] \in Session
      BY DEF TypeOK
    <3> QED  BY <3>1 DEF Session
  <2>5. agent' \in [Agents -> Session]
    BY <2>2, <2>3, <2>4 DEF TypeOK
  <2>6. Operating'
    <3>1. op # None
      BY PostActionsAssumption DEF Ops
    <3> QED  BY <2>2, <2>3, <3>1 DEF Operating, TypeOK, Session
  <2>7. tasks' \in Nat
    <3>1. CASE op = "publish"
      <4>1. tasks > 0 /\ tasks' = tasks - 1
        BY <1>3, <3>1 DEF Begin, Accepts
      <4> QED  BY <4>1 DEF TypeOK
    <3>2. CASE op # "publish"
      BY <1>3, <3>2 DEF Begin, TypeOK
    <3> QED  BY <3>1, <3>2
  <2> QED  BY <1>3, <2>5, <2>6, <2>7 DEF Begin, TypeOK
<1>4. ASSUME NEW a \in Agents, Refresh(a)
      PROVE  TypeOK' /\ Operating'
  <2>1. token' \in 1 .. MaxTokens
    BY <1>4, PostActionsAssumption DEF Refresh, TypeOK
  <2>2. [agent[a] EXCEPT !.pc = "call", !.fresh = token + 1] \in Session
    <3>1. agent[a] \in Session /\ token + 1 \in Nat
      BY DEF TypeOK
    <3> QED  BY <3>1 DEF Session
  <2>3. agent' \in [Agents -> Session]
    BY <1>4, <2>2 DEF Refresh, TypeOK
  <2>4. Operating'
    BY <1>4 DEF Refresh, Operating, TypeOK, Session
  <2> QED  BY <1>4, <2>1, <2>3, <2>4 DEF Refresh, TypeOK
<1>5. ASSUME NEW a \in Agents, agent[a].pc # "idle", Fail(a)
      PROVE  agent' \in [Agents -> Session] /\ Operating'
  <2>1. agent' \in [Agents -> Session]
    BY <1>5, FailTyped
  <2>2. agent[a].op # None
    BY <1>5 DEF Operating
  <2>3. Failed(agent[a]).pc # "idle" => Failed(agent[a]).op # None
    <3>1. agent[a] \in Session
      BY DEF TypeOK
    <3> QED  BY <2>2, <3>1 DEF Failed, Idle, Session
  <2>4. Operating'
    BY <1>5, <2>3 DEF Fail, Operating, TypeOK
  <2> QED  BY <2>1, <2>4
<1>6. ASSUME NEW a \in Agents, RefreshDenied(a)
      PROVE  TypeOK' /\ Operating'
  BY <1>5, <1>6 DEF RefreshDenied, TypeOK
<1>7. ASSUME NEW a \in Agents, RefreshLost(a)
      PROVE  TypeOK' /\ Operating'
  <2>1. token' \in 1 .. MaxTokens
    BY <1>7, PostActionsAssumption DEF RefreshLost, TypeOK
  <2>2. faults' \in Faults
    BY <1>7, TroubleTyped DEF RefreshLost, TroubleKinds
  <2> QED  BY <1>5, <1>7, <2>1, <2>2 DEF RefreshLost, TypeOK
<1>8. ASSUME NEW a \in Agents, CallSucceeds(a)
      PROVE  TypeOK' /\ Operating'
  <2>1. [agent[a] EXCEPT !.pc = "commit",
                         !.tweet = IF agent[a].op = "publish" THEN made + 1 ELSE 0] \in Session
    <3> DEFINE tweet == IF agent[a].op = "publish" THEN made + 1 ELSE 0
    <3>1. agent[a] \in Session /\ tweet \in Nat
      BY DEF TypeOK
    <3>2. \A s \in Session, n \in Nat : [s EXCEPT !.pc = "commit", !.tweet = n] \in Session
      BY DEF Session
    <3> QED  BY <3>1, <3>2
  <2>2. agent' \in [Agents -> Session]
    BY <1>8, <2>1 DEF CallSucceeds, TypeOK
  <2>3. Operating'
    BY <1>8 DEF CallSucceeds, Operating, TypeOK, Session
  <2> QED  BY <1>8, <2>2, <2>3, EffectTyped DEF CallSucceeds, TypeOK
<1>9. ASSUME NEW a \in Agents, CallRefused(a)
      PROVE  TypeOK' /\ Operating'
  <2>1. faults' \in Faults
    BY <1>9, TroubleTyped DEF CallRefused, TypeOK, TroubleKinds
  <2> QED  BY <1>5, <1>9, <2>1 DEF CallRefused, TypeOK
<1>10. ASSUME NEW a \in Agents, CallLost(a)
       PROVE  TypeOK' /\ Operating'
  <2>1. faults' \in Faults
    BY <1>10, TroubleTyped, KindTyped DEF CallLost, TroubleKinds
  <2> QED  BY <1>5, <1>10, <2>1, EffectTyped DEF CallLost, TypeOK
<1>11. ASSUME NEW a \in Agents, Commit(a)
       PROVE  TypeOK' /\ Operating'
  <2>1. agent[a] \in Session /\ agent[a].op # None
    BY <1>11 DEF Commit, TypeOK, Operating
  <2>2. row' \in PostRow
    BY <1>11, <2>1, StoredTyped DEF Commit
  <2>3. account' \in AccountRow
    BY <1>11, <2>1 DEF Commit, TypeOK, AccountRow, Session
  <2>4. quotes' \in [x : Nat, rows : Nat]
    BY <1>11 DEF Commit, TypeOK
  <2>5. blind' \in BOOLEAN
    BY <1>11 DEF Commit, TypeOK
  <2>6. agent' \in [Agents -> Session]
    BY <1>11, IdleTyped DEF Commit, TypeOK
  <2>7. Operating'
    BY <1>11 DEF Commit, Operating, TypeOK, Idle
  <2>8. tasks' \in Nat
    BY <1>11 DEF Commit, Owed, TypeOK
  <2> QED  BY <1>11, <2>2, <2>3, <2>4, <2>5, <2>6, <2>7, <2>8 DEF Commit, TypeOK
<1>12. ASSUME NEW a \in Agents, Crash(a)
       PROVE  TypeOK' /\ Operating'
  <2>1. faults' \in Faults
    BY <1>12, TroubleTyped, KindTyped DEF Crash, TroubleKinds
  <2>2. tasks' \in Nat
    BY <1>12 DEF Crash, TypeOK
  <2> QED  BY <1>12, <2>1, <2>2, IdleTyped DEF Crash, TypeOK, Operating, Idle
<1>14. CASE Repeat
  <2>1. faults' \in Faults
    BY <1>14, TroubleTyped DEF Repeat, TroubleKinds
  <2> QED  BY <1>14, <2>1 DEF Repeat, TypeOK, Operating
<1>13. CASE UNCHANGED vars
  BY <1>13 DEF vars, TypeOK, Operating
<1> QED
  BY <1>1, <1>2, <1>3, <1>4, <1>6, <1>7, <1>8, <1>9, <1>10, <1>11, <1>12, <1>13, <1>14
     DEF Next

\* Every variable keeps its type, whatever the sessions do (TypeOK).
THEOREM TypesAlways == Spec => [](TypeOK /\ Operating)
BY TypesInit, TypesStep, PTL DEF Spec

-----------------------------------------------------------------------------
(* The connection to X                                                     *)

\* Refresh tokens are numbered as X hands them out: nobody holds a later one
\* than the one X accepts.  A session that holds a fresh one is the only one,
\* it is the one X accepts, and no row or loaded row has it yet.
TokensKnown ==
    /\ account.refresh <= token
    /\ \A a \in Agents :
         /\ agent[a].acct.refresh <= token
         /\ agent[a].pc \in {"idle", "token"} => agent[a].fresh = 0

FreshIsOnly ==
    \A a \in Agents : agent[a].fresh # 0 =>
      /\ agent[a].fresh = token
      /\ account.refresh < token
      /\ \A b \in Agents :
           /\ agent[b].acct.refresh < token
           /\ b # a => agent[b].fresh = 0

Connection == TokensKnown /\ FreshIsOnly /\ AccountKept

LEMMA ConnectionInit == Init => Connection
BY TypesInit DEF Init, Connection, TokensKnown, FreshIsOnly, AccountKept, Idle

\* A trouble is remembered.
LEMMA TroubleStays ==
    ASSUME TypeOK, NEW kind \in TroubleKinds, Trouble(kind)
    PROVE  AccountKept'
BY DEF TypeOK, Trouble, Troubles, AccountKept, TroubleKinds, Faults

\* A session that fails keeps its fresh token, if it is the publisher's, or
\* leaves none behind.
LEMMA FailedSessions ==
    ASSUME TypeOK, NEW a \in Agents, Fail(a), NEW b \in Agents
    PROVE  /\ agent'[b].fresh = 0 \/ agent'[b].fresh = agent[b].fresh
           /\ agent'[b].acct.refresh = 0 \/ agent'[b].acct.refresh = agent[b].acct.refresh
           /\ agent'[b].pc \in {"idle", "token"}
                => agent'[b].fresh = 0 \/ agent'[b] = agent[b]
           /\ b # a => agent'[b] = agent[b]
           /\ agent[a].op = "publish" => agent'[b].fresh = agent[b].fresh
BY DEF TypeOK, Fail, Failed, Idle, Session

LEMMA ConnectionStep ==
    TypeOK /\ Connection /\ [Next]_vars => Connection'
<1> SUFFICES ASSUME TypeOK, Connection, [Next]_vars PROVE Connection'
  OBVIOUS
<1> USE DEF Connection
<1>n. /\ token \in Nat \ {0} /\ account.refresh \in Nat
      /\ \A b \in Agents : agent[b].fresh \in Nat /\ agent[b].acct.refresh \in Nat
  BY DEF TypeOK, AccountRow, Session
<1>1. CASE TokenDue
  BY <1>1 DEF TokenDue, TypeOK, AccountRow, TokensKnown, FreshIsOnly, AccountKept, Troubles
<1>2. CASE Reconnect
  BY <1>2, <1>n DEF Reconnect, TokensKnown, FreshIsOnly, AccountKept
<1>3. ASSUME NEW a \in Agents, NEW op \in Ops, Begin(a, op)
      PROVE  Connection'
  <2>1. /\ agent'[a].fresh = 0 /\ agent[a].fresh = 0
        /\ agent'[a].acct.refresh = account.refresh
    BY <1>3 DEF Begin, TypeOK, Idle, TokensKnown
  <2>2. \A b \in Agents \ {a} : /\ agent'[b].fresh = agent[b].fresh
                                /\ agent'[b].acct = agent[b].acct
                                /\ agent'[b].pc = agent[b].pc
    BY <1>3, Others
  <2>3. UNCHANGED <<account, token, faults>>
    BY <1>3 DEF Begin
  <2>4. TokensKnown'
    BY <2>1, <2>2, <2>3 DEF TokensKnown
  <2>5. FreshIsOnly'
    BY <2>1, <2>2, <2>3 DEF FreshIsOnly
  <2>6. AccountKept'
    BY <2>1, <2>2, <2>3, <1>n, PostActionsAssumption DEF AccountKept, Troubles, TypeOK
  <2> QED  BY <2>4, <2>5, <2>6
<1>4. ASSUME NEW a \in Agents, Refresh(a)
      PROVE  Connection'
  <2>1. /\ agent[a].acct.refresh = token /\ token' = token + 1
        /\ agent'[a].fresh = token' /\ agent'[a].pc = "call"
        /\ agent'[a].acct = agent[a].acct
        /\ \A b \in Agents \ {a} : agent'[b] = agent[b]
        /\ UNCHANGED <<account, faults>>
    BY <1>4 DEF Refresh, TypeOK, Session
  <2>2. \A b \in Agents : agent[b].fresh = 0
    BY <2>1, <1>n DEF FreshIsOnly
  <2>3. TokensKnown'
    BY <2>1, <1>n DEF TokensKnown
  <2>4. FreshIsOnly'
    BY <2>1, <2>2, <1>n DEF FreshIsOnly, TokensKnown
  <2>5. AccountKept'
    BY <2>1 DEF AccountKept
  <2> QED  BY <2>3, <2>4, <2>5
<1>5. ASSUME NEW a \in Agents, Fail(a), UNCHANGED account
      PROVE  /\ token' = token \/ token' = token + 1 => TokensKnown'
             /\ UNCHANGED token => FreshIsOnly'
             /\ (\A b \in Agents : agent[b].fresh = 0) => FreshIsOnly'
  <2>1. \A b \in Agents :
          /\ agent'[b].fresh = 0 \/ agent'[b].fresh = agent[b].fresh
          /\ agent'[b].acct.refresh = 0 \/ agent'[b].acct.refresh = agent[b].acct.refresh
          /\ agent'[b].pc \in {"idle", "token"}
               => agent'[b].fresh = 0 \/ agent'[b] = agent[b]
    BY <1>5, FailedSessions
  <2>2. ASSUME token' = token \/ token' = token + 1 PROVE TokensKnown'
    <3>1. account'.refresh <= token'
      BY <1>5, <1>n, <2>2 DEF TokensKnown
    <3>2. ASSUME NEW b \in Agents
          PROVE  /\ agent'[b].acct.refresh <= token'
                 /\ agent'[b].pc \in {"idle", "token"} => agent'[b].fresh = 0
      <4>1. agent[b].acct.refresh <= token
        BY DEF TokensKnown
      <4> QED  BY <1>n, <2>1, <2>2, <4>1 DEF TokensKnown
    <3> QED  BY <3>1, <3>2 DEF TokensKnown
  <2>3. ASSUME UNCHANGED token PROVE FreshIsOnly'
    <3> SUFFICES ASSUME NEW b \in Agents, agent'[b].fresh # 0, NEW c \in Agents
                 PROVE  /\ agent'[b].fresh = token'
                        /\ account'.refresh < token'
                        /\ agent'[c].acct.refresh < token'
                        /\ c # b => agent'[c].fresh = 0
      BY DEF FreshIsOnly
    <3>1. agent[b].fresh # 0 /\ agent'[b].fresh = agent[b].fresh
      BY <2>1
    <3> QED  BY <1>5, <1>n, <2>1, <2>3, <3>1 DEF FreshIsOnly
  <2>4. ASSUME \A b \in Agents : agent[b].fresh = 0 PROVE FreshIsOnly'
    <3>1. \A b \in Agents : agent'[b].fresh = 0
      BY <2>1, <2>4
    <3> QED  BY <3>1 DEF FreshIsOnly
  <2> QED  BY <2>2, <2>3, <2>4
<1>6. ASSUME NEW a \in Agents, RefreshDenied(a)
      PROVE  Connection'
  <2>1. agent[a].fresh = 0 /\ Fail(a) /\ UNCHANGED <<account, token, faults>>
    BY <1>6 DEF RefreshDenied, TokensKnown
  <2>2. AccountKept'
    <3>1. \A b \in Agents : agent[b].fresh = token => agent'[b] = agent[b]
      BY <2>1, FailedSessions, PostActionsAssumption DEF TypeOK
    <3> QED  BY <2>1, <3>1 DEF AccountKept, Troubles
  <2> QED  BY <1>5, <2>1, <2>2
<1>7. ASSUME NEW a \in Agents, RefreshLost(a)
      PROVE  Connection'
  <2>1. \A b \in Agents : agent[b].fresh = 0
    BY <1>7, <1>n DEF RefreshLost, FreshIsOnly
  <2>2. AccountKept'
    BY <1>7, TroubleStays DEF RefreshLost, TroubleKinds
  <2> QED  BY <1>5, <1>7, <2>1, <2>2 DEF RefreshLost
<1>8. ASSUME NEW a \in Agents, CallSucceeds(a)
      PROVE  Connection'
  <2>1. /\ \A b \in Agents : /\ agent'[b].fresh = agent[b].fresh
                             /\ agent'[b].acct = agent[b].acct
                             /\ agent'[b].pc = agent[b].pc \/ agent'[b].pc = "commit"
        /\ UNCHANGED <<account, token, faults>>
    BY <1>8 DEF CallSucceeds, TypeOK, Session
  <2>2. TokensKnown'
    BY <2>1 DEF TokensKnown
  <2>3. FreshIsOnly'
    BY <2>1 DEF FreshIsOnly
  <2>4. AccountKept'
    BY <2>1 DEF AccountKept, Troubles
  <2> QED  BY <2>2, <2>3, <2>4
<1>9. ASSUME NEW a \in Agents, CallRefused(a)
      PROVE  Connection'
  <2>1. Fail(a) /\ UNCHANGED <<account, token>>
    BY <1>9 DEF CallRefused
  <2>2. AccountKept'
    <3>1. CASE agent[a].op = "publish"
      <4>1. UNCHANGED faults
        BY <1>9, <3>1 DEF CallRefused
      <4>2. \A b \in Agents : agent'[b].fresh = agent[b].fresh
        BY <2>1, <3>1, FailedSessions
      <4> QED  BY <2>1, <4>1, <4>2 DEF AccountKept, Troubles
    <3>2. CASE agent[a].op # "publish"
      BY <1>9, <3>2, TroubleStays DEF CallRefused, TroubleKinds
    <3> QED  BY <3>1, <3>2
  <2> QED  BY <1>5, <2>1, <2>2
<1>10. ASSUME NEW a \in Agents, CallLost(a)
       PROVE  Connection'
  BY <1>5, <1>10, TroubleStays, KindTyped DEF CallLost, TroubleKinds
<1>11. ASSUME NEW a \in Agents, Commit(a)
       PROVE  Connection'
  <2> DEFINE s == agent[a]
  <2>1. /\ agent'[a].fresh = 0 /\ agent'[a].acct.refresh = 0
        /\ \A b \in Agents \ {a} : agent'[b] = agent[b]
        /\ UNCHANGED <<token, faults>>
    BY <1>11 DEF Commit, TypeOK, Idle
  <2>2. CASE s.fresh = 0
    <3>1. UNCHANGED account
      BY <1>11, <2>2 DEF Commit
    <3>2. TokensKnown' /\ FreshIsOnly'
      BY <1>n, <2>1, <3>1 DEF TokensKnown, FreshIsOnly
    <3>3. AccountKept'
      BY <2>1, <2>2, <3>1, PostActionsAssumption DEF AccountKept, Troubles, TypeOK
    <3> QED  BY <3>2, <3>3
  <2>3. CASE s.fresh # 0
    <3>1. account'.refresh = token
      BY <1>11, <2>3 DEF Commit, FreshIsOnly
    <3>2. \A b \in Agents : agent'[b].fresh = 0
      BY <2>1, <2>3 DEF FreshIsOnly
    <3>3. TokensKnown'
      BY <1>n, <2>1, <3>1 DEF TokensKnown
    <3>4. FreshIsOnly' /\ AccountKept'
      BY <2>1, <3>1, <3>2 DEF FreshIsOnly, AccountKept
    <3> QED  BY <3>3, <3>4
  <2> QED  BY <2>2, <2>3
<1>12. ASSUME NEW a \in Agents, Crash(a)
       PROVE  Connection'
  <2>1. /\ agent'[a].fresh = 0 /\ agent'[a].acct.refresh = 0
        /\ \A b \in Agents \ {a} : agent'[b] = agent[b]
        /\ UNCHANGED <<account, token>>
    BY <1>12 DEF Crash, TypeOK, Idle
  <2>2. TokensKnown' /\ FreshIsOnly'
    BY <1>n, <2>1 DEF TokensKnown, FreshIsOnly
  <2> QED  BY <1>12, <2>2, TroubleStays, KindTyped DEF Crash, TroubleKinds
<1>14. CASE Repeat
  <2>1. UNCHANGED <<account, token, agent>>
    BY <1>14 DEF Repeat
  <2>2. TokensKnown' /\ FreshIsOnly'
    BY <2>1 DEF TokensKnown, FreshIsOnly
  <2> QED  BY <1>14, <2>2, TroubleStays DEF Repeat, TroubleKinds
<1>13. CASE UNCHANGED vars
  <2>1. UNCHANGED <<account, token, agent, faults>>
    BY <1>13 DEF vars
  <2>2. TokensKnown'
    BY <2>1 DEF TokensKnown
  <2>3. FreshIsOnly'
    BY <2>1 DEF FreshIsOnly
  <2>4. AccountKept'
    BY <2>1 DEF AccountKept, Troubles
  <2> QED  BY <2>2, <2>3, <2>4
<1> QED
  BY <1>1, <1>2, <1>3, <1>4, <1>6, <1>7, <1>8, <1>9, <1>10, <1>11, <1>12, <1>13, <1>14
     DEF Next

\* Neither concurrent refreshes nor publications X refuses, at whatever point
\* of however many sessions, cost the account its refresh token (AccountKept).
THEOREM AccountKeptAlways == Spec => []AccountKept
<1>1. Init /\ TypeOK => Connection
  BY ConnectionInit
<1>2. TypeOK /\ Connection /\ [Next]_vars => Connection'
  BY ConnectionStep
<1>3. Connection => AccountKept
  BY DEF Connection
<1> QED  BY <1>1, <1>2, <1>3, TypesAlways, PTL DEF Spec

-----------------------------------------------------------------------------
(* Reposts                                                                 *)

\* No other repost request runs beside one that is alone, and once X has
\* done what it asked for, X has the opposite of what it loaded.
AloneIsAlone ==
    \A a \in Agents : agent[a].op = "repost" /\ agent[a].alone =>
      /\ \A b \in Agents \ {a} : agent[b].op # "repost"
      /\ agent[a].pc = "commit" => (agent[a].seen.pid \in onX) = ~agent[a].seen.reposted

\* A session that fails has no operation but the publisher's.
LEMMA FailedReposts ==
    ASSUME TypeOK, Operating, AloneIsAlone, NEW a \in Agents, agent[a].pc # "idle", Fail(a),
           agent[a].op = "repost" \/ UNCHANGED onX
    PROVE  AloneIsAlone'
<1>1. \A b \in Agents : agent'[b] = agent[b] \/ agent'[b].op # "repost"
  BY PostActionsAssumption DEF TypeOK, Fail, Failed, Idle, Session, Ops
<1>2. agent'[a].op # "repost"
  BY PostActionsAssumption DEF TypeOK, Fail, Failed, Idle, Session, Ops
<1> SUFFICES ASSUME NEW b \in Agents, agent'[b].op = "repost", agent'[b].alone
             PROVE  /\ \A c \in Agents \ {b} : agent'[c].op # "repost"
                    /\ agent'[b].pc = "commit" => (agent'[b].seen.pid \in onX') = ~agent'[b].seen.reposted
  BY DEF AloneIsAlone
<1>3. b # a /\ agent'[b] = agent[b]
  BY <1>1, <1>2
<1>4. \A c \in Agents \ {b} : agent[c].op # "repost"
  BY <1>3 DEF AloneIsAlone
<1>5. UNCHANGED onX
  BY <1>3, <1>4
<1> QED  BY <1>1, <1>3, <1>4, <1>5 DEF AloneIsAlone

\* Steps that start no repost and do nothing on X.
LEMMA AloneFramed ==
    ASSUME AloneIsAlone, UNCHANGED onX,
           \A b \in Agents : agent'[b].op = "repost" =>
             /\ agent[b].op = "repost"
             /\ agent'[b].alone => agent[b].alone
             /\ agent'[b].seen = agent[b].seen
             /\ agent'[b].pc = "commit" => agent[b].pc = "commit"
    PROVE  AloneIsAlone'
<1> SUFFICES ASSUME NEW b \in Agents, agent'[b].op = "repost", agent'[b].alone
             PROVE  /\ \A c \in Agents \ {b} : agent'[c].op # "repost"
                    /\ agent'[b].pc = "commit" => (agent'[b].seen.pid \in onX') = ~agent'[b].seen.reposted
  BY DEF AloneIsAlone
<1>1. agent[b].op = "repost" /\ agent[b].alone
  OBVIOUS
<1>2. \A c \in Agents \ {b} : agent[c].op # "repost"
  BY <1>1 DEF AloneIsAlone
<1>3. agent[b].pc = "commit" => (agent[b].seen.pid \in onX) = ~agent[b].seen.reposted
  BY <1>1 DEF AloneIsAlone
<1> QED  BY <1>2, <1>3

LEMMA AloneStep ==
    TypeOK /\ Operating /\ AloneIsAlone /\ [Next]_vars => AloneIsAlone'
<1> SUFFICES ASSUME TypeOK, Operating, AloneIsAlone, [Next]_vars PROVE AloneIsAlone'
  OBVIOUS
<1>1. CASE UNCHANGED <<agent, onX>>
  BY <1>1 DEF AloneIsAlone
<1>2. ASSUME NEW a \in Agents, NEW op \in Ops, Begin(a, op)
      PROVE  AloneIsAlone'
  <2>1. /\ agent'[a].op = op /\ agent'[a].pc # "idle"
        /\ op = "repost" => agent'[a].pc \in {"token", "call"}
        /\ agent'[a].alone = ({b \in Agents : agent[b].op = "repost" /\ op = "repost"} = {})
        /\ UNCHANGED onX
    BY <1>2 DEF Begin, TypeOK, Idle
  <2>2. \A b \in Agents \ {a} :
          /\ agent'[b].op = agent[b].op /\ agent'[b].pc = agent[b].pc
          /\ agent'[b].seen = agent[b].seen
          /\ agent'[b].alone => agent[b].alone
          /\ op = "repost" /\ agent[b].op = "repost" => ~agent'[b].alone
    BY <1>2, Others
  <2>3. ASSUME NEW b \in Agents, agent'[b].op = "repost", agent'[b].alone
        PROVE  /\ \A c \in Agents \ {b} : agent'[c].op # "repost"
               /\ agent'[b].pc = "commit" => (agent'[b].seen.pid \in onX') = ~agent'[b].seen.reposted
    <3>1. CASE b = a
      <4>1. op = "repost" /\ agent'[b].pc # "commit"
        BY <2>1, <2>3, <3>1
      <4>2. {c \in Agents : agent[c].op = "repost" /\ op = "repost"} = {}
        BY <2>1, <2>3, <3>1
      <4>3. \A c \in Agents : agent[c].op # "repost"
        BY <4>1, <4>2
      <4> QED  BY <2>2, <3>1, <4>1, <4>3
    <3>2. CASE b # a
      <4>1. agent[b].op = "repost" /\ agent[b].alone /\ op # "repost"
        BY <2>2, <2>3, <3>2
      <4>2. \A c \in Agents \ {b} : agent[c].op # "repost"
        BY <4>1 DEF AloneIsAlone
      <4>3. agent[b].pc = "commit" => (agent[b].seen.pid \in onX) = ~agent[b].seen.reposted
        BY <4>1 DEF AloneIsAlone
      <4>4. \A c \in Agents \ {b} : agent'[c].op # "repost"
        BY <2>1, <2>2, <4>1, <4>2
      <4>5. agent'[b].pc = "commit" => (agent'[b].seen.pid \in onX') = ~agent'[b].seen.reposted
        BY <2>1, <2>2, <3>2, <4>3
      <4> QED  BY <4>4, <4>5
    <3> QED  BY <3>1, <3>2
  <2> QED  BY <2>3 DEF AloneIsAlone
<1>3. ASSUME NEW a \in Agents, Refresh(a)
      PROVE  AloneIsAlone'
  <2>1. \A b \in Agents : /\ agent'[b].op = agent[b].op
                          /\ agent'[b].alone = agent[b].alone
                          /\ agent'[b].seen = agent[b].seen
                          /\ agent'[b].pc = "commit" => agent[b].pc = "commit"
    BY <1>3 DEF Refresh, TypeOK, Session
  <2>2. UNCHANGED onX
    BY <1>3 DEF Refresh
  <2> QED  BY <2>1, <2>2, AloneFramed
<1>4. ASSUME NEW a \in Agents, RefreshDenied(a) \/ RefreshLost(a) \/ CallRefused(a)
      PROVE  AloneIsAlone'
  BY <1>4, FailedReposts DEF RefreshDenied, RefreshLost, CallRefused
<1>5. ASSUME NEW a \in Agents, CallLost(a)
      PROVE  AloneIsAlone'
  BY <1>5, FailedReposts DEF CallLost, Effect
<1>6. ASSUME NEW a \in Agents, CallSucceeds(a)
      PROVE  AloneIsAlone'
  <2>1. \A b \in Agents : /\ agent'[b].op = agent[b].op
                          /\ agent'[b].alone = agent[b].alone
                          /\ agent'[b].seen = agent[b].seen
                          /\ b # a => agent'[b].pc = agent[b].pc
    BY <1>6 DEF CallSucceeds, TypeOK, Session
  <2>2. /\ agent[a].op # "repost" => onX' = onX
        /\ agent[a].op = "repost" =>
             onX' = IF agent[a].seen.reposted THEN onX \ {agent[a].seen.pid}
                    ELSE onX \cup {agent[a].seen.pid}
    BY <1>6 DEF CallSucceeds, Effect
  <2>3. agent[a].seen.reposted \in BOOLEAN
    BY DEF TypeOK, Session, PostRow
  <2>4. CASE agent[a].op # "repost"
    <3>1. UNCHANGED onX
      BY <2>2, <2>4
    <3> QED  BY <2>1, <2>4, <3>1, AloneFramed
  <2>5. CASE agent[a].op = "repost"
    <3>1. (agent[a].seen.pid \in onX') = ~agent[a].seen.reposted
      BY <2>2, <2>3, <2>5
    <3> SUFFICES ASSUME NEW b \in Agents, agent'[b].op = "repost", agent'[b].alone
                 PROVE  /\ \A c \in Agents \ {b} : agent'[c].op # "repost"
                        /\ agent'[b].pc = "commit" => (agent'[b].seen.pid \in onX') = ~agent'[b].seen.reposted
      BY DEF AloneIsAlone
    <3>2. agent[b].op = "repost" /\ agent[b].alone
      BY <2>1
    <3>3. \A c \in Agents \ {b} : agent[c].op # "repost"
      BY <3>2 DEF AloneIsAlone
    <3>4. b = a
      BY <2>5, <3>3
    <3> QED  BY <2>1, <3>1, <3>3, <3>4
  <2> QED  BY <2>4, <2>5
<1>7. ASSUME NEW a \in Agents, Commit(a) \/ Crash(a)
      PROVE  AloneIsAlone'
  <2>1. /\ agent'[a].op # "repost"
        /\ \A b \in Agents \ {a} : agent'[b] = agent[b]
        /\ UNCHANGED onX
    BY <1>7, PostActionsAssumption DEF Commit, Crash, TypeOK, Idle, Ops
  <2> QED  BY <2>1 DEF AloneIsAlone
<1> QED
  BY <1>1, <1>2, <1>3, <1>4, <1>5, <1>6, <1>7 DEF Next, TokenDue, Reconnect, Repeat, vars

\* Whenever a repost request that no other one overlaps commits, the row says
\* what X has, also if troubles had set them apart before (ToggleAligns).
THEOREM ToggleAlignsAlways == Spec => ToggleAligns
<1> DEFINE Aligned ==
      \A a \in Agents :
        LET s == agent[a] IN
        s.op = "repost" /\ s.alone /\ s.pc = "commit" /\ agent'[a] = Idle /\ faults' = faults
          => row'.reposted = (s.seen.pid \in onX')
<1>1. Init => AloneIsAlone
  BY PostActionsAssumption DEF Init, AloneIsAlone, Idle, Ops
<1>2. TypeOK /\ Operating /\ AloneIsAlone /\ [Next]_vars => [Aligned]_vars
  <2> SUFFICES ASSUME TypeOK, Operating, AloneIsAlone, Next,
                      NEW a \in Agents,
                      agent[a].op = "repost", agent[a].alone, agent[a].pc = "commit",
                      agent'[a] = Idle, faults' = faults
               PROVE  row'.reposted = (agent[a].seen.pid \in onX')
    OBVIOUS
  <2>1. (agent[a].seen.pid \in onX) = ~agent[a].seen.reposted
    BY DEF AloneIsAlone
  <2>2. Commit(a)
    <3>1. agent'[a].pc = "idle" /\ agent[a] # Idle
      BY DEF Idle
    <3>2. ~TokenDue /\ ~Reconnect /\ ~Repeat
      BY <3>1 DEF TokenDue, Reconnect, Repeat
    <3>3. ASSUME NEW b \in Agents, NEW op \in Ops, Begin(b, op) PROVE FALSE
      <4>1. b # a
        BY <3>3 DEF Begin
      <4>2. agent'[a] = agent[a] \/ agent'[a] = [agent[a] EXCEPT !.alone = FALSE]
        BY <3>3, <4>1 DEF Begin
      <4>3. agent'[a].pc = agent[a].pc
        BY <4>2 DEF TypeOK, Session
      <4> QED  BY <3>1, <4>3
    <3>4. ASSUME NEW b \in Agents \ {a},
                 \/ Refresh(b) \/ RefreshDenied(b) \/ RefreshLost(b) \/ CallSucceeds(b)
                 \/ CallRefused(b) \/ CallLost(b) \/ Commit(b) \/ Crash(b)
          PROVE  FALSE
      <4>1. agent'[a] = agent[a]
        BY <3>4 DEF Refresh, RefreshDenied, RefreshLost, CallSucceeds, CallRefused, CallLost,
                    Commit, Crash, Fail, TypeOK
      <4> QED  BY <3>1, <4>1
    <3>5. /\ ~Refresh(a) /\ ~RefreshDenied(a) /\ ~RefreshLost(a)
          /\ ~CallSucceeds(a) /\ ~CallRefused(a) /\ ~CallLost(a)
      BY DEF Refresh, RefreshDenied, RefreshLost, CallSucceeds, CallRefused, CallLost
    <3>6. ~Crash(a)
      <4>1. Kind(a, "crash") \in TroubleKinds
        BY KindTyped DEF TroubleKinds
      <4> QED  BY <4>1 DEF Crash, Trouble, TypeOK, TroubleKinds, Faults
    <3> QED  BY <3>2, <3>3, <3>4, <3>5, <3>6 DEF Next
  <2> QED  BY <2>1, <2>2 DEF Commit, Stored, Toggled, TypeOK, Session, PostRow
<1> QED  BY <1>1, <1>2, AloneStep, TypesAlways, PTL DEF Spec, ToggleAligns

-----------------------------------------------------------------------------
(* Publications                                                            *)

\* The publications that may still tweet, or may have another attempt.
Unpublished ==
    {a \in Agents : /\ agent[a].op = "publish"
                    /\ agent[a].pc \in {"token", "call"}
                       \/ (agent[a].pc = "commit" /\ agent[a].ok = FALSE)}

\* A session has not failed before its call of X.
Trying == \A a \in Agents : agent[a].pc \in {"token", "call"} => agent[a].ok = TRUE

\* The tweets X has created and the publications that are owed or under way:
\* one for the claimed post, and one more to each that was repeated.
PaidFor ==
    /\ IsFiniteSet(Unpublished)
    /\ made + tasks + Cardinality(Unpublished) <= 1 + faults.repeated

\* What a step may do to that account: nothing; a publication begins; it ends,
\* with a tweet or with another attempt; or a trouble adds to it.
PublicationSteps ==
    \/ /\ UNCHANGED <<made, tasks, Unpublished>>
       /\ faults'.repeated \in {faults.repeated, faults.repeated + 1}
    \/ \E a \in Agents \ Unpublished :
         /\ Unpublished' = Unpublished \cup {a}
         /\ tasks > 0 /\ tasks' = tasks - 1
         /\ UNCHANGED <<made, faults>>
    \/ \E a \in Unpublished :
         /\ Unpublished' = Unpublished \ {a}
         /\ made' + tasks' <= made + tasks + 1
         /\ faults'.repeated \in {faults.repeated, faults.repeated + 1}
    \/ /\ UNCHANGED Unpublished
       /\ made' + tasks' <= made + tasks + 1
       /\ faults'.repeated = faults.repeated + 1

LEMMA RepeatedTrouble ==
    ASSUME TypeOK, NEW kind \in TroubleKinds, Trouble(kind)
    PROVE  /\ faults'.repeated \in {faults.repeated, faults.repeated + 1}
           /\ kind = "repeated" => faults'.repeated = faults.repeated + 1
<1>1. CASE kind = "repeated"
  BY <1>1 DEF Trouble, TypeOK, Faults
<1>2. CASE kind # "repeated"
  BY <1>2 DEF Trouble, TypeOK, Faults, TroubleKinds
<1> QED  BY <1>1, <1>2

LEMMA TryingStep == TypeOK /\ Trying /\ [Next]_vars => Trying'
<1> SUFFICES ASSUME TypeOK, Trying, [Next]_vars PROVE Trying'
  OBVIOUS
<1>1. CASE UNCHANGED agent
  BY <1>1 DEF Trying
<1>2. ASSUME NEW a \in Agents, NEW op \in Ops, Begin(a, op)
      PROVE  Trying'
  <2>1. agent'[a].ok = TRUE
    BY <1>2 DEF Begin, TypeOK, Idle
  <2>2. \A b \in Agents \ {a} : agent'[b].ok = agent[b].ok /\ agent'[b].pc = agent[b].pc
    BY <1>2, Others
  <2> QED  BY <2>1, <2>2 DEF Trying
<1>3. ASSUME NEW a \in Agents, Refresh(a) \/ CallSucceeds(a)
      PROVE  Trying'
  <2>1. agent'[a].ok = agent[a].ok /\ agent[a].pc \in {"token", "call"}
    <3>1. CASE Refresh(a)
      BY <3>1 DEF Refresh, TypeOK, Session
    <3>2. CASE CallSucceeds(a)
      BY <3>2 DEF CallSucceeds, TypeOK, Session
    <3> QED  BY <1>3, <3>1, <3>2
  <2>2. \A b \in Agents \ {a} : agent'[b] = agent[b]
    BY <1>3 DEF Refresh, CallSucceeds, TypeOK
  <2> QED  BY <2>1, <2>2 DEF Trying
<1>4. ASSUME NEW a \in Agents, Fail(a) \/ Commit(a) \/ Crash(a)
      PROVE  Trying'
  <2>1. agent'[a].pc \in {"idle", "commit"}
    <3>1. CASE Fail(a)
      BY <3>1 DEF Fail, Failed, Idle, TypeOK, Session
    <3>2. CASE Commit(a) \/ Crash(a)
      BY <3>2 DEF Commit, Crash, Idle, TypeOK
    <3> QED  BY <1>4, <3>1, <3>2
  <2>2. \A b \in Agents \ {a} : agent'[b] = agent[b]
    BY <1>4 DEF Fail, Commit, Crash, TypeOK
  <2> QED  BY <2>1, <2>2 DEF Trying
<1> QED
  BY <1>1, <1>2, <1>3, <1>4
     DEF Next, TokenDue, Reconnect, Repeat, RefreshDenied, RefreshLost, CallRefused, CallLost, vars

\* A session that fails before its commit is unpublished as before.
LEMMA FailKeepsUnpublished ==
    ASSUME TypeOK, NEW a \in Agents, Fail(a), agent[a].pc \in {"token", "call"}
    PROVE  Unpublished' = Unpublished
<1>1. \A b \in Agents \ {a} : agent'[b] = agent[b]
  BY DEF Fail, TypeOK
<1>2. CASE agent[a].op = "publish"
  <2>1. agent'[a].op = "publish" /\ agent'[a].pc = "commit" /\ agent'[a].ok = FALSE
    BY <1>2 DEF Fail, Failed, TypeOK, Session
  <2> QED  BY <1>1, <1>2, <2>1 DEF Unpublished
<1>3. CASE agent[a].op # "publish"
  <2>1. agent'[a].op # "publish"
    BY <1>3, PostActionsAssumption DEF Fail, Failed, Idle, TypeOK, Ops
  <2> QED  BY <1>1, <1>3, <2>1 DEF Unpublished
<1> QED  BY <1>2, <1>3

LEMMA PublicationStep == TypeOK /\ Trying /\ [Next]_vars => PublicationSteps
<1> SUFFICES ASSUME TypeOK, Trying, [Next]_vars PROVE PublicationSteps
  OBVIOUS
<1>0. made \in Nat /\ tasks \in Nat /\ faults.repeated \in Nat
  BY DEF TypeOK, Faults
<1>1. CASE UNCHANGED <<agent, made, tasks, faults>>
  BY <1>1 DEF PublicationSteps, Unpublished
<1>2. CASE Repeat
  <2>1. faults'.repeated = faults.repeated + 1
    BY <1>2, RepeatedTrouble DEF Repeat, TroubleKinds
  <2>2. made' + tasks' <= made + tasks + 1 /\ Unpublished' = Unpublished
    BY <1>0, <1>2 DEF Repeat, Unpublished
  <2> QED  BY <2>1, <2>2 DEF PublicationSteps
<1>3. ASSUME NEW a \in Agents, NEW op \in Ops, Begin(a, op)
      PROVE  PublicationSteps
  <2>1. /\ agent'[a].op = op /\ agent'[a].ok = TRUE /\ agent[a].pc = "idle"
        /\ op = "publish" => agent'[a].pc \in {"token", "call"} /\ tasks > 0
        /\ tasks' = IF op = "publish" THEN tasks - 1 ELSE tasks
        /\ UNCHANGED <<made, faults>>
    BY <1>3 DEF Begin, Accepts, TypeOK, Idle
  <2>2. \A b \in Agents \ {a} : /\ agent'[b].op = agent[b].op /\ agent'[b].pc = agent[b].pc
                                /\ agent'[b].ok = agent[b].ok
    BY <1>3, Others
  <2>3. CASE op = "publish"
    <3>1. Unpublished' = Unpublished \cup {a} /\ a \notin Unpublished
      BY <2>1, <2>2, <2>3 DEF Unpublished
    <3> QED  BY <2>1, <2>3, <3>1 DEF PublicationSteps
  <2>4. CASE op # "publish"
    <3>1. Unpublished' = Unpublished
      BY <2>1, <2>2, <2>4 DEF Unpublished
    <3> QED  BY <2>1, <2>4, <3>1 DEF PublicationSteps
  <2> QED  BY <2>3, <2>4
<1>4. ASSUME NEW a \in Agents, Refresh(a)
      PROVE  PublicationSteps
  <2>1. Unpublished' = Unpublished
    BY <1>4 DEF Refresh, Unpublished, TypeOK, Session
  <2> QED  BY <1>4, <2>1 DEF Refresh, PublicationSteps
<1>5. ASSUME NEW a \in Agents, RefreshDenied(a) \/ RefreshLost(a) \/ CallRefused(a)
      PROVE  PublicationSteps
  <2>1. Unpublished' = Unpublished /\ UNCHANGED <<made, tasks>>
    BY <1>5, FailKeepsUnpublished DEF RefreshDenied, RefreshLost, CallRefused
  <2>2. UNCHANGED faults \/ Trouble("lost") \/ Trouble("refused")
    BY <1>5 DEF RefreshDenied, RefreshLost, CallRefused
  <2>3. faults'.repeated \in {faults.repeated, faults.repeated + 1}
    BY <2>2, RepeatedTrouble DEF TroubleKinds
  <2> QED  BY <2>1, <2>3 DEF PublicationSteps
<1>6. ASSUME NEW a \in Agents, CallSucceeds(a)
      PROVE  PublicationSteps
  <2>1. /\ agent[a].pc = "call" /\ agent'[a].pc = "commit"
        /\ agent'[a].op = agent[a].op /\ agent'[a].ok = TRUE
        /\ \A b \in Agents \ {a} : agent'[b] = agent[b]
        /\ UNCHANGED <<tasks, faults>>
    BY <1>6 DEF CallSucceeds, Trying, TypeOK, Session
  <2>2. CASE agent[a].op = "publish"
    <3>1. Unpublished' = Unpublished \ {a} /\ a \in Unpublished
      BY <2>1, <2>2 DEF Unpublished
    <3>2. made' = made + 1
      BY <1>6, <2>2 DEF CallSucceeds, Effect
    <3>3. made' + tasks' <= made + tasks + 1
      BY <1>0, <2>1, <3>2
    <3> QED  BY <2>1, <3>1, <3>3 DEF PublicationSteps
  <2>3. CASE agent[a].op # "publish"
    <3>1. Unpublished' = Unpublished
      BY <2>1, <2>3 DEF Unpublished
    <3>2. made' = made
      BY <1>6, <2>3 DEF CallSucceeds, Effect
    <3> QED  BY <2>1, <3>1, <3>2 DEF PublicationSteps
  <2> QED  BY <2>2, <2>3
<1>7. ASSUME NEW a \in Agents, CallLost(a)
      PROVE  PublicationSteps
  <2>1. Unpublished' = Unpublished /\ tasks' = tasks
    BY <1>7, FailKeepsUnpublished DEF CallLost
  <2>2. CASE agent[a].op = "publish"
    <3>1. faults'.repeated = faults.repeated + 1
      BY <1>7, <2>2, RepeatedTrouble DEF CallLost, Kind, TroubleKinds
    <3>2. made' = made + 1
      BY <1>7, <2>2 DEF CallLost, Effect
    <3>3. made' + tasks' <= made + tasks + 1
      BY <1>0, <2>1, <3>2
    <3> QED  BY <2>1, <3>1, <3>3 DEF PublicationSteps
  <2>3. CASE agent[a].op # "publish"
    <3>1. faults'.repeated \in {faults.repeated, faults.repeated + 1}
      BY <1>7, KindTyped, RepeatedTrouble DEF CallLost, TroubleKinds
    <3>2. made' = made
      BY <1>7, <2>3 DEF CallLost, Effect
    <3> QED  BY <2>1, <3>1, <3>2 DEF PublicationSteps
  <2> QED  BY <2>2, <2>3
<1>8. ASSUME NEW a \in Agents, Commit(a)
      PROVE  PublicationSteps
  <2>1. /\ agent[a].pc = "commit" /\ agent'[a].op # "publish"
        /\ \A b \in Agents \ {a} : agent'[b] = agent[b]
        /\ UNCHANGED <<made, faults>>
    BY <1>8, PostActionsAssumption DEF Commit, TypeOK, Idle, Ops
  <2>2. Unpublished' = Unpublished \ {a}
    BY <2>1 DEF Unpublished
  <2>3. CASE a \in Unpublished
    <3>1. made' + tasks' <= made + tasks + 1
      BY <1>0, <1>8, <2>1 DEF Commit, Owed
    <3> QED  BY <2>1, <2>2, <2>3, <3>1 DEF PublicationSteps
  <2>4. CASE a \notin Unpublished
    <3>1. agent[a].op = "publish" => agent[a].ok = TRUE
      BY <2>1, <2>4 DEF Unpublished, TypeOK, Session
    <3>2. tasks' = tasks
      BY <1>8, <3>1 DEF Commit, Owed
    <3> QED  BY <2>1, <2>2, <2>4, <3>2 DEF PublicationSteps
  <2> QED  BY <2>3, <2>4
<1>9. ASSUME NEW a \in Agents, Crash(a)
      PROVE  PublicationSteps
  <2>1. /\ agent'[a].op # "publish"
        /\ \A b \in Agents \ {a} : agent'[b] = agent[b]
        /\ UNCHANGED made
    BY <1>9, PostActionsAssumption DEF Crash, TypeOK, Idle, Ops
  <2>2. Unpublished' = Unpublished \ {a}
    BY <2>1 DEF Unpublished
  <2>3. CASE agent[a].op = "publish"
    <3>1. faults'.repeated = faults.repeated + 1
      BY <1>9, <2>3, RepeatedTrouble DEF Crash, Kind, TroubleKinds
    <3>2. made' + tasks' <= made + tasks + 1
      <4>1. tasks' = tasks \/ tasks' = tasks + 1
        BY <1>9, <2>3 DEF Crash
      <4> QED  BY <1>0, <2>1, <4>1
    <3>3. a \in Unpublished \/ Unpublished' = Unpublished
      BY <2>2
    <3> QED  BY <2>2, <3>1, <3>2, <3>3 DEF PublicationSteps
  <2>4. CASE agent[a].op # "publish"
    <3>1. faults'.repeated \in {faults.repeated, faults.repeated + 1}
      BY <1>9, KindTyped, RepeatedTrouble DEF Crash, TroubleKinds
    <3>2. tasks' = tasks /\ Unpublished' = Unpublished
      BY <1>9, <2>2, <2>4 DEF Crash, Unpublished
    <3> QED  BY <2>1, <3>1, <3>2 DEF PublicationSteps
  <2> QED  BY <2>3, <2>4
<1> QED
  BY <1>1, <1>2, <1>3, <1>4, <1>5, <1>6, <1>7, <1>8, <1>9 DEF Next, TokenDue, Reconnect, vars

\* The arithmetic of a step that ends a publication or adds one.
LEMMA Balance ==
    ASSUME NEW m \in Nat, NEW t \in Nat, NEW c \in Nat, NEW r \in Nat,
           NEW n \in Nat, NEW u \in Nat,
           m + t + c <= 1 + r, n + u <= m + t + 1
    PROVE  n + u + (c - 1) <= 1 + r /\ n + u + c <= 1 + (r + 1)
OBVIOUS

LEMMA PaidForStep == TypeOK /\ TypeOK' /\ PaidFor /\ PublicationSteps => PaidFor'
<1> SUFFICES ASSUME TypeOK, TypeOK', PaidFor, PublicationSteps PROVE PaidFor'
  OBVIOUS
<1>1. /\ made \in Nat /\ tasks \in Nat /\ faults.repeated \in Nat
      /\ made' \in Nat /\ tasks' \in Nat /\ faults'.repeated \in Nat
      /\ IsFiniteSet(Unpublished) /\ Cardinality(Unpublished) \in Nat
      /\ made + tasks + Cardinality(Unpublished) <= 1 + faults.repeated
  BY FS_CardinalityType DEF TypeOK, Faults, PaidFor
<1>2. CASE /\ UNCHANGED <<made, tasks, Unpublished>>
           /\ faults'.repeated \in {faults.repeated, faults.repeated + 1}
  BY <1>1, <1>2 DEF PaidFor
<1>3. ASSUME NEW a \in Agents \ Unpublished, Unpublished' = Unpublished \cup {a},
             tasks > 0, tasks' = tasks - 1, UNCHANGED <<made, faults>>
      PROVE  PaidFor'
  <2>1. IsFiniteSet(Unpublished') /\ Cardinality(Unpublished') = Cardinality(Unpublished) + 1
    BY <1>1, <1>3, FS_AddElement
  <2> QED  BY <1>1, <1>3, <2>1 DEF PaidFor
<1>4. ASSUME NEW a \in Unpublished, Unpublished' = Unpublished \ {a},
             made' + tasks' <= made + tasks + 1,
             faults'.repeated \in {faults.repeated, faults.repeated + 1}
      PROVE  PaidFor'
  <2>1. IsFiniteSet(Unpublished') /\ Cardinality(Unpublished') = Cardinality(Unpublished) - 1
    BY <1>1, <1>4, FS_RemoveElement
  <2>2. made' + tasks' + Cardinality(Unpublished') <= 1 + faults'.repeated
    <3>1. made' + tasks' + (Cardinality(Unpublished) - 1) <= 1 + faults.repeated
      BY <1>1, <1>4, Balance
    <3> QED  BY <1>1, <1>4, <2>1, <3>1
  <2> QED  BY <2>1, <2>2 DEF PaidFor
<1>5. CASE /\ UNCHANGED Unpublished
           /\ made' + tasks' <= made + tasks + 1
           /\ faults'.repeated = faults.repeated + 1
  <2>1. made' + tasks' + Cardinality(Unpublished) <= 1 + faults'.repeated
    <3>1. made' + tasks' + Cardinality(Unpublished) <= 1 + (faults.repeated + 1)
      BY <1>1, <1>5, Balance
    <3> QED  BY <1>5, <3>1
  <2> QED  BY <1>1, <1>5, <2>1 DEF PaidFor
<1> QED  BY <1>2, <1>3, <1>4, <1>5 DEF PublicationSteps

-----------------------------------------------------------------------------
(* Deletions                                                               *)

\* Every id refers to a tweet X has created, a loaded row to a past of the row.
IdsKnown ==
    /\ row.pid <= made
    /\ \A a \in Agents :
         /\ agent[a].seen.pid <= made /\ agent[a].tweet <= made
         /\ agent[a].seen.deleted => row.deleted

\* A deletion that found a tweet has removed it before it commits.
Deleters ==
    \A a \in Agents :
      agent[a].op = "delete" /\ agent[a].pc = "commit" /\ Shown(agent[a].seen)
        => agent[a].seen.deleted \/ agent[a].seen.pid \notin tweets

\* A tweet has been deleted on X.
Removed == \E k \in 1 .. made : k \notin tweets

Deletion == IdsKnown /\ Deleters /\ (row.deleted => blind \/ Removed)

LEMMA DeletionInit == Init => Deletion
BY PostActionsAssumption
   DEF Init, Deletion, IdsKnown, Deleters, Idle, NewPost, Ops

\* A tweet that is gone does not come back.
LEMMA TweetsGone ==
    ASSUME TypeOK, NEW op, NEW seen, Effect(op, seen)
    PROVE  /\ made' \in Nat /\ made <= made'
           /\ \A k \in 1 .. made : k \notin tweets => k \notin tweets'
           /\ Removed => Removed'
           /\ op = "delete" => seen.pid \notin tweets'
<1>1. made' \in Nat /\ made <= made'
  BY DEF Effect, TypeOK
<1>2. \A k \in 1 .. made : k \notin tweets => k \notin tweets'
  BY DEF Effect, TypeOK
<1>3. \A k \in 1 .. made : k \in 1 .. made'
  BY <1>1 DEF TypeOK
<1> QED  BY <1>1, <1>2, <1>3 DEF Effect, Removed

\* Steps of sessions that end or fail, or go on without an answer of X.
LEMMA SessionsFramed ==
    ASSUME TypeOK, Deletion, UNCHANGED <<row, blind>>,
           made' \in Nat, made <= made', Removed => Removed',
           \A k \in 1 .. made : k \notin tweets => k \notin tweets',
           \A b \in Agents :
             \/ agent'[b] = Idle
             \/ /\ agent'[b].op = agent[b].op
                /\ agent'[b].seen = agent[b].seen
                /\ agent'[b].tweet = agent[b].tweet
                /\ agent'[b].pc = "commit" => agent[b].pc = "commit" \/ agent[b].op = "publish"
    PROVE  Deletion'
<1> USE DEF Deletion
<1>0. /\ Idle.op \notin {"publish", "delete"}
      /\ Idle.seen.pid = 0 /\ Idle.seen.deleted = FALSE /\ Idle.tweet = 0
  BY PostActionsAssumption DEF Idle, NewPost, Ops
<1>1. /\ row.pid \in Nat
      /\ \A b \in Agents : agent[b].seen.pid \in Nat /\ agent[b].tweet \in Nat
  BY DEF TypeOK, Session, PostRow
<1>2. IdsKnown'
  BY <1>0, <1>1 DEF IdsKnown, TypeOK
<1>3. Deleters'
  <2> SUFFICES ASSUME NEW b \in Agents, agent'[b].op = "delete", agent'[b].pc = "commit",
                      Shown(agent'[b].seen), ~agent'[b].seen.deleted
               PROVE  agent'[b].seen.pid \notin tweets'
    BY DEF Deleters
  <2>1. agent[b].op = "delete" /\ agent[b].pc = "commit" /\ agent'[b].seen = agent[b].seen
    BY <1>0
  <2>2. agent[b].seen.pid \notin tweets /\ agent[b].seen.pid \in 1 .. made
    BY <1>1, <2>1 DEF Deleters, IdsKnown, Shown, TypeOK
  <2> QED  BY <2>1, <2>2
<1> QED  BY <1>2, <1>3

LEMMA DeletionStep ==
    TypeOK /\ Operating /\ Deletion /\ [Next]_vars => Deletion'
<1> SUFFICES ASSUME TypeOK, Operating, Deletion, [Next]_vars PROVE Deletion'
  OBVIOUS
<1>0. /\ made \in Nat /\ made <= made
      /\ UNCHANGED <<made, tweets>> => Removed' = Removed
  BY DEF TypeOK, Removed
<1>1. CASE UNCHANGED <<agent, row, blind, tweets, made>>
  BY <1>0, <1>1, SessionsFramed
<1>2. ASSUME NEW a \in Agents, NEW op \in Ops, Begin(a, op)
      PROVE  Deletion'
  <2> USE DEF Deletion
  <2>1. /\ agent'[a].op = op /\ agent'[a].seen = row /\ agent'[a].tweet = 0
        /\ agent'[a].pc = "commit" => op = "delete" /\ ~ShouldDeleteOnX(row)
        /\ UNCHANGED <<row, blind, tweets, made>>
    BY <1>2 DEF Begin, TypeOK, Idle
  <2>2. \A b \in Agents \ {a} :
          /\ agent'[b].op = agent[b].op /\ agent'[b].seen = agent[b].seen
          /\ agent'[b].pc = agent[b].pc /\ agent'[b].tweet = agent[b].tweet
    BY <1>2, Others
  <2>3. IdsKnown'
    BY <1>0, <2>1, <2>2 DEF IdsKnown
  <2>4. Deleters'
    BY <2>1, <2>2 DEF Deleters, ShouldDeleteOnX
  <2> QED  BY <1>0, <2>1, <2>3, <2>4
<1>3. ASSUME NEW a \in Agents, Refresh(a)
      PROVE  Deletion'
  <2>1. \A b \in Agents : /\ agent'[b].op = agent[b].op /\ agent'[b].seen = agent[b].seen
                          /\ agent'[b].tweet = agent[b].tweet
                          /\ agent'[b].pc = "commit" => agent[b].pc = "commit"
    BY <1>3 DEF Refresh, TypeOK, Session
  <2>2. UNCHANGED <<row, blind, tweets, made>>
    BY <1>3 DEF Refresh
  <2> QED  BY <1>0, <2>1, <2>2, SessionsFramed
<1>4. ASSUME NEW a \in Agents, Fail(a), NEW b \in Agents
      PROVE  \/ agent'[b] = Idle
             \/ /\ agent'[b].op = agent[b].op /\ agent'[b].seen = agent[b].seen
                /\ agent'[b].tweet = agent[b].tweet
                /\ agent'[b].pc = "commit" => agent[b].pc = "commit" \/ agent[b].op = "publish"
  BY <1>4 DEF Fail, Failed, TypeOK, Session
<1>5. ASSUME NEW a \in Agents, RefreshDenied(a) \/ RefreshLost(a) \/ CallRefused(a)
      PROVE  Deletion'
  <2>1. Fail(a) /\ UNCHANGED <<row, blind, tweets, made>>
    BY <1>5 DEF RefreshDenied, RefreshLost, CallRefused
  <2> QED  BY <1>0, <1>4, <2>1, SessionsFramed
<1>6. ASSUME NEW a \in Agents, Crash(a)
      PROVE  Deletion'
  <2>1. /\ \A b \in Agents : agent'[b] = Idle \/ agent'[b] = agent[b]
        /\ UNCHANGED <<row, blind, tweets, made>>
    BY <1>6 DEF Crash, TypeOK
  <2> QED  BY <1>0, <2>1, SessionsFramed
<1>7. ASSUME NEW a \in Agents, CallLost(a)
      PROVE  Deletion'
  <2>1. Fail(a) /\ Effect(agent[a].op, agent[a].seen) /\ UNCHANGED <<row, blind>>
    BY <1>7 DEF CallLost
  <2> QED  BY <1>4, <2>1, SessionsFramed, TweetsGone
<1>8. ASSUME NEW a \in Agents, CallSucceeds(a)
      PROVE  Deletion'
  <2> USE DEF Deletion
  <2>1. Effect(agent[a].op, agent[a].seen) /\ UNCHANGED <<row, blind>>
    BY <1>8 DEF CallSucceeds
  <2>2. /\ made' \in Nat /\ made <= made' /\ (Removed => Removed')
        /\ \A k \in 1 .. made : k \notin tweets => k \notin tweets'
        /\ agent[a].op = "delete" => agent[a].seen.pid \notin tweets'
    BY <2>1, TweetsGone
  <2>3. /\ row.pid \in Nat
        /\ \A b \in Agents : agent[b].seen.pid \in Nat /\ agent[b].tweet \in Nat
    BY DEF TypeOK, Session, PostRow
  <2>4. \A b \in Agents :
          /\ agent'[b].op = agent[b].op /\ agent'[b].seen = agent[b].seen
          /\ b # a => agent'[b].pc = agent[b].pc /\ agent'[b].tweet = agent[b].tweet
    BY <1>8 DEF CallSucceeds, TypeOK, Session
  <2>5. agent'[a].tweet <= made'
    <3>1. agent'[a].tweet = IF agent[a].op = "publish" THEN made + 1 ELSE 0
      BY <1>8 DEF CallSucceeds, TypeOK, Session
    <3>2. agent[a].op = "publish" => made' = made + 1
      BY <2>1 DEF Effect
    <3> QED  BY <1>0, <2>2, <3>1, <3>2
  <2>6. IdsKnown'
    BY <1>0, <2>1, <2>2, <2>3, <2>4, <2>5 DEF IdsKnown
  <2>7. Deleters'
    <3> SUFFICES ASSUME NEW b \in Agents, agent[b].op = "delete", agent'[b].pc = "commit",
                        Shown(agent[b].seen), ~agent[b].seen.deleted
                 PROVE  agent[b].seen.pid \notin tweets'
      BY <2>4 DEF Deleters
    <3>1. CASE b = a
      BY <2>2, <3>1
    <3>2. CASE b # a
      <4>1. agent[b].seen.pid \notin tweets /\ agent[b].seen.pid \in 1 .. made
        BY <1>0, <2>3, <2>4, <3>2 DEF Deleters, IdsKnown, Shown
      <4> QED  BY <2>2, <4>1
    <3> QED  BY <3>1, <3>2
  <2> QED  BY <2>1, <2>2, <2>6, <2>7
<1>9. ASSUME NEW a \in Agents, Commit(a)
      PROVE  Deletion'
  <2> USE DEF Deletion
  <2> DEFINE s == agent[a]
  <2>1. /\ agent'[a] = Idle /\ \A b \in Agents \ {a} : agent'[b] = agent[b]
        /\ row' = Stored(s) /\ UNCHANGED <<tweets, made>>
        /\ blind' = (blind \/ (s.op = "delete" /\ ~s.seen.deleted /\ ~Shown(s.seen)))
        /\ s.pc = "commit"
    BY <1>9 DEF Commit, TypeOK
  <2>2. /\ Idle.op \notin {"publish", "delete"}
        /\ Idle.seen.pid = 0 /\ Idle.seen.deleted = FALSE /\ Idle.tweet = 0
    BY PostActionsAssumption DEF Idle, NewPost, Ops
  <2>3. Deleters'
    BY <2>1, <2>2 DEF Deleters
  <2>4. /\ row'.pid \in {row.pid, s.tweet}
        /\ row'.deleted = row.deleted \/ (s.op = "delete" /\ row'.deleted)
        /\ row.deleted => row'.deleted
    <3>1. CASE s.op = "delete"
      BY <2>1, <3>1 DEF Stored, TypeOK, PostRow
    <3>2. CASE s.op = "repost"
      BY <2>1, <3>2 DEF Stored, Toggled, TypeOK, PostRow
    <3>3. CASE s.op = "quote"
      BY <2>1, <3>3 DEF Stored, TypeOK
    <3>4. CASE s.op = "publish"
      BY <2>1, <3>4 DEF Stored, TypeOK, PostRow
    <3>5. s.op # None
      BY <2>1 DEF Operating
    <3> QED  BY <3>1, <3>2, <3>3, <3>4, <3>5 DEF TypeOK, Session, Ops
  <2>5. IdsKnown'
    BY <1>0, <2>1, <2>2, <2>4 DEF IdsKnown
  <2>6. row'.deleted => blind' \/ Removed'
    <3>1. CASE s.op = "delete" /\ s.seen.deleted
      <4>1. row.deleted
        BY <3>1 DEF IdsKnown
      <4>2. (blind \/ Removed) /\ (blind => blind')
        BY <2>1, <4>1
      <4> QED  BY <1>0, <2>1, <4>2
    <3>2. CASE s.op = "delete" /\ ~s.seen.deleted /\ Shown(s.seen)
      <4>1. s.seen.pid \notin tweets /\ s.seen.pid \in 1 .. made
        BY <1>0, <2>1, <3>2 DEF Deleters, IdsKnown, Shown, TypeOK, Session, PostRow
      <4>2. Removed
        BY <4>1 DEF Removed
      <4> QED  BY <1>0, <2>1, <4>2
    <3>3. CASE s.op = "delete" /\ ~s.seen.deleted /\ ~Shown(s.seen)
      BY <2>1, <3>3
    <3>4. CASE s.op # "delete"
      <4>1. row'.deleted => row.deleted
        BY <2>4, <3>4
      <4>2. blind => blind'
        BY <2>1
      <4> QED  BY <1>0, <2>1, <4>1, <4>2
    <3> QED  BY <3>1, <3>2, <3>3, <3>4
  <2> QED  BY <2>3, <2>5, <2>6
<1> QED
  BY <1>1, <1>2, <1>3, <1>5, <1>6, <1>7, <1>8, <1>9
     DEF Next, TokenDue, Reconnect, Repeat, vars

\* A post that was deleted by a request that found its tweet has no other on X
\* but one for each publication that was repeated or broke off unanswered, in
\* whatever order attempts, retries and deletions came (DeletedIsGone).
THEOREM DeletedIsGoneAlways == Spec => []DeletedIsGone
<1>1. Init => PaidFor /\ Trying
  <2> SUFFICES ASSUME Init PROVE PaidFor /\ Trying
    OBVIOUS
  <2>1. Unpublished = {} /\ made = 0 /\ tasks = 1 /\ faults.repeated = 0
    BY PostActionsAssumption DEF Init, Unpublished, Idle, Ops
  <2> QED  BY <2>1, FS_EmptySet DEF Init, PaidFor, Trying, Idle
<1>2. TypeOK /\ PaidFor /\ Deletion => DeletedIsGone
  <2> SUFFICES ASSUME TypeOK, PaidFor, Deletion, row.deleted, ~blind
               PROVE  Cardinality(tweets) <= faults.repeated
    BY DEF DeletedIsGone
  <2>1. PICK k \in 1 .. made : k \notin tweets
    BY DEF Deletion, Removed
  <2>2. made \in Nat /\ tasks \in Nat /\ faults.repeated \in Nat /\ tweets \subseteq (1 .. made) \ {k}
    BY <2>1 DEF TypeOK, Faults
  <2>3. IsFiniteSet(1 .. made) /\ Cardinality(1 .. made) = made
    BY <2>2, FS_Interval
  <2>4. IsFiniteSet((1 .. made) \ {k}) /\ Cardinality((1 .. made) \ {k}) = made - 1
    BY <2>1, <2>3, FS_RemoveElement
  <2>5. Cardinality(tweets) <= made - 1 /\ Cardinality(tweets) \in Nat
    <3>1. IsFiniteSet(tweets) /\ Cardinality(tweets) <= Cardinality((1 .. made) \ {k})
      BY <2>2, <2>4, FS_Subset
    <3> QED  BY <2>4, <3>1, FS_CardinalityType
  <2>6. made <= 1 + faults.repeated
    <3>1. Cardinality(Unpublished) \in Nat
      BY FS_CardinalityType DEF PaidFor
    <3> QED  BY <2>2, <3>1 DEF PaidFor
  <2> QED  BY <2>2, <2>5, <2>6
<1>3. TypeOK /\ TypeOK' /\ Trying /\ PaidFor /\ [Next]_vars => PaidFor' /\ Trying'
  BY PublicationStep, PaidForStep, TryingStep
<1> QED
  BY <1>1, <1>2, <1>3, DeletionInit, DeletionStep, TypesAlways, PTL DEF Spec

-----------------------------------------------------------------------------
(* Quote tweets and their rows                                             *)

\* The sessions that have a quote tweet and have not committed its row.
Inserting == {a \in Agents : agent[a].op = "quote" /\ agent[a].pc = "commit"}

\* Of the quote tweets on X, all have a row or a session about to insert it,
\* but for one to each trouble.
QuotesKept ==
    /\ IsFiniteSet(Inserting)
    /\ quotes.rows + Cardinality(Inserting) <= quotes.x
    /\ quotes.x <= quotes.rows + Cardinality(Inserting) + Troubles

\* What a step may do to the count: nothing, a tweet whose row is to come, a
\* tweet that a trouble has orphaned, a row, or a session that a trouble ended.
QuoteSteps ==
    \/ UNCHANGED <<quotes, Inserting>> /\ Troubles' \in {Troubles, Troubles + 1}
    \/ \E a \in Agents \ Inserting :
         /\ Inserting' = Inserting \cup {a}
         /\ quotes' = [quotes EXCEPT !.x = @ + 1]
         /\ Troubles' = Troubles
    \/ /\ UNCHANGED Inserting
       /\ quotes' = [quotes EXCEPT !.x = @ + 1]
       /\ Troubles' = Troubles + 1
    \/ \E a \in Inserting :
         /\ Inserting' = Inserting \ {a}
         /\ quotes' = [quotes EXCEPT !.rows = @ + 1]
         /\ Troubles' = Troubles
    \/ \E a \in Inserting :
         /\ Inserting' = Inserting \ {a}
         /\ UNCHANGED quotes
         /\ Troubles' = Troubles + 1

LEMMA TroubleAdds ==
    ASSUME TypeOK, NEW kind \in TroubleKinds, Trouble(kind)
    PROVE  Troubles \in Nat /\ Troubles' = Troubles + 1
<1>1. CASE kind = "crash"
  BY <1>1 DEF TypeOK, Trouble, Troubles, Faults
<1>2. CASE kind = "lost"
  BY <1>2 DEF TypeOK, Trouble, Troubles, Faults
<1>3. CASE kind = "refused"
  BY <1>3 DEF TypeOK, Trouble, Troubles, Faults
<1>4. CASE kind = "repeated"
  BY <1>4 DEF TypeOK, Trouble, Troubles, Faults
<1> QED  BY <1>1, <1>2, <1>3, <1>4 DEF TroubleKinds

\* A session that fails before its commit was not about to insert, nor is it.
LEMMA FailInsertsNothing ==
    ASSUME TypeOK, NEW a \in Agents, Fail(a), agent[a].pc # "commit"
    PROVE  Inserting' = Inserting
<1>1. \/ agent'[a] = Idle
      \/ agent'[a].op = "publish"
  BY DEF Fail, Failed, TypeOK, Session
<1>2. \A b \in Agents \ {a} : agent'[b] = agent[b]
  BY DEF Fail, TypeOK
<1>3. Idle.pc = "idle"
  BY DEF Idle
<1> QED  BY <1>1, <1>2, <1>3 DEF Inserting

LEMMA QuoteStep == TypeOK /\ [Next]_vars => QuoteSteps
<1> SUFFICES ASSUME TypeOK, [Next]_vars PROVE QuoteSteps
  OBVIOUS
<1>1. Troubles \in Nat
  BY DEF TypeOK, Troubles, Faults
<1>2. CASE TokenDue \/ Reconnect \/ UNCHANGED vars
  BY <1>1, <1>2 DEF TokenDue, Reconnect, vars, QuoteSteps, Inserting, Troubles
<1>3. ASSUME NEW a \in Agents, NEW op \in Ops, Begin(a, op)
      PROVE  QuoteSteps
  <2>1. agent'[a].op = op /\ (op = "quote" => agent'[a].pc # "commit") /\ agent[a].pc = "idle"
    BY <1>3 DEF Begin, Idle, Ops
  <2>2. \A b \in Agents \ {a} : agent'[b].op = agent[b].op /\ agent'[b].pc = agent[b].pc
    BY <1>3, Others
  <2>3. Inserting' = Inserting
    BY <2>1, <2>2 DEF Inserting
  <2> QED  BY <1>1, <1>3, <2>3 DEF Begin, QuoteSteps, Troubles
<1>4. ASSUME NEW a \in Agents, Refresh(a)
      PROVE  QuoteSteps
  <2>1. Inserting' = Inserting
    BY <1>4 DEF Refresh, Inserting, TypeOK
  <2> QED  BY <1>1, <1>4, <2>1 DEF Refresh, QuoteSteps, Troubles
<1>5. ASSUME NEW a \in Agents, RefreshDenied(a) \/ RefreshLost(a) \/ CallRefused(a)
      PROVE  QuoteSteps
  <2>1. Inserting' = Inserting /\ quotes' = quotes
    BY <1>5, FailInsertsNothing DEF RefreshDenied, RefreshLost, CallRefused
  <2>2. Troubles' = Troubles \/ Troubles' = Troubles + 1
    BY <1>5, TroubleAdds DEF TroubleKinds, RefreshDenied, RefreshLost, CallRefused, Troubles
  <2> QED  BY <1>1, <2>1, <2>2 DEF QuoteSteps
<1>6. ASSUME NEW a \in Agents, CallSucceeds(a)
      PROVE  QuoteSteps
  <2>1. /\ agent[a].pc = "call" /\ agent'[a].pc = "commit" /\ agent'[a].op = agent[a].op
        /\ \A b \in Agents \ {a} : agent'[b] = agent[b]
        /\ Troubles' = Troubles
    BY <1>6 DEF CallSucceeds, TypeOK, Session, Troubles
  <2>2. CASE agent[a].op = "quote"
    <3>1. Inserting' = Inserting \cup {a} /\ a \in Agents \ Inserting
      BY <2>1, <2>2 DEF Inserting
    <3>2. quotes' = [quotes EXCEPT !.x = @ + 1]
      BY <1>6, <2>2 DEF CallSucceeds, Effect
    <3> QED  BY <2>1, <3>1, <3>2 DEF QuoteSteps
  <2>3. CASE agent[a].op # "quote"
    <3>1. Inserting' = Inserting
      BY <2>1, <2>3 DEF Inserting
    <3>2. quotes' = quotes
      BY <1>6, <2>3 DEF CallSucceeds, Effect
    <3> QED  BY <1>1, <2>1, <3>1, <3>2 DEF QuoteSteps
  <2> QED  BY <2>2, <2>3
<1>7. ASSUME NEW a \in Agents, CallLost(a)
      PROVE  QuoteSteps
  <2>1. Inserting' = Inserting /\ Troubles' = Troubles + 1
    BY <1>7, FailInsertsNothing, TroubleAdds, KindTyped DEF CallLost, TroubleKinds
  <2>2. quotes' = quotes \/ quotes' = [quotes EXCEPT !.x = @ + 1]
    BY <1>7 DEF CallLost, Effect
  <2> QED  BY <1>1, <2>1, <2>2 DEF QuoteSteps
<1>8. ASSUME NEW a \in Agents, Commit(a)
      PROVE  QuoteSteps
  <2>1. /\ agent[a].pc = "commit" /\ agent'[a] = Idle /\ Idle.pc = "idle"
        /\ \A b \in Agents \ {a} : agent'[b] = agent[b]
        /\ Troubles' = Troubles
    BY <1>8 DEF Commit, TypeOK, Idle, Troubles
  <2>2. CASE agent[a].op = "quote"
    <3>1. Inserting' = Inserting \ {a} /\ a \in Inserting
      BY <2>1, <2>2 DEF Inserting
    <3>2. quotes' = [quotes EXCEPT !.rows = @ + 1]
      BY <1>8, <2>2 DEF Commit
    <3> QED  BY <2>1, <3>1, <3>2 DEF QuoteSteps
  <2>3. CASE agent[a].op # "quote"
    <3>1. Inserting' = Inserting
      BY <2>1, <2>3 DEF Inserting
    <3>2. quotes' = quotes
      BY <1>8, <2>3 DEF Commit
    <3> QED  BY <1>1, <2>1, <3>1, <3>2 DEF QuoteSteps
  <2> QED  BY <2>2, <2>3
<1>9. ASSUME NEW a \in Agents, Crash(a)
      PROVE  QuoteSteps
  <2>1. /\ agent'[a] = Idle /\ Idle.pc = "idle"
        /\ \A b \in Agents \ {a} : agent'[b] = agent[b]
        /\ Troubles' = Troubles + 1 /\ quotes' = quotes
    BY <1>9, TroubleAdds, KindTyped DEF Crash, TypeOK, Idle, TroubleKinds
  <2>2. Inserting' = Inserting \ {a}
    BY <2>1 DEF Inserting
  <2> QED  BY <1>1, <2>1, <2>2 DEF QuoteSteps
<1>10. CASE Repeat
  <2>1. Troubles' = Troubles + 1
    BY <1>10, TroubleAdds DEF Repeat, TroubleKinds
  <2> QED  BY <1>1, <1>10, <2>1 DEF Repeat, QuoteSteps, Inserting
<1> QED  BY <1>2, <1>3, <1>4, <1>5, <1>6, <1>7, <1>8, <1>9, <1>10 DEF Next

LEMMA QuotesKeptStep == TypeOK /\ QuotesKept /\ [Next]_vars => QuotesKept'
<1> SUFFICES ASSUME TypeOK, QuotesKept, QuoteSteps PROVE QuotesKept'
  BY QuoteStep
<1>1. /\ quotes.x \in Nat /\ quotes.rows \in Nat /\ quotes \in [x : Nat, rows : Nat]
      /\ Troubles \in Nat
      /\ IsFiniteSet(Inserting) /\ Cardinality(Inserting) \in Nat
      /\ quotes.rows + Cardinality(Inserting) <= quotes.x
      /\ quotes.x <= quotes.rows + Cardinality(Inserting) + Troubles
  BY FS_CardinalityType DEF TypeOK, Troubles, QuotesKept, Faults
<1>2. CASE UNCHANGED <<quotes, Inserting>> /\ Troubles' \in {Troubles, Troubles + 1}
  BY <1>1, <1>2 DEF QuotesKept
<1>3. ASSUME NEW a \in Agents \ Inserting,
             Inserting' = Inserting \cup {a},
             quotes' = [quotes EXCEPT !.x = @ + 1], Troubles' = Troubles
      PROVE  QuotesKept'
  <2>1. IsFiniteSet(Inserting') /\ Cardinality(Inserting') = Cardinality(Inserting) + 1
    BY <1>1, <1>3, FS_AddElement
  <2>2. quotes'.x = quotes.x + 1 /\ quotes'.rows = quotes.rows
    BY <1>1, <1>3
  <2> QED  BY <1>1, <1>3, <2>1, <2>2 DEF QuotesKept
<1>4. CASE /\ UNCHANGED Inserting
           /\ quotes' = [quotes EXCEPT !.x = @ + 1]
           /\ Troubles' = Troubles + 1
  <2>1. quotes'.x = quotes.x + 1 /\ quotes'.rows = quotes.rows
    BY <1>1, <1>4
  <2> QED  BY <1>1, <1>4, <2>1 DEF QuotesKept
<1>5. ASSUME NEW a \in Inserting, Inserting' = Inserting \ {a}
      PROVE  IsFiniteSet(Inserting') /\ Cardinality(Inserting') = Cardinality(Inserting) - 1
  BY <1>1, <1>5, FS_RemoveElement
<1>6. ASSUME NEW a \in Inserting, Inserting' = Inserting \ {a},
             quotes' = [quotes EXCEPT !.rows = @ + 1], Troubles' = Troubles
      PROVE  QuotesKept'
  <2>1. quotes'.x = quotes.x /\ quotes'.rows = quotes.rows + 1
    BY <1>1, <1>6
  <2>2. IsFiniteSet(Inserting') /\ Cardinality(Inserting') = Cardinality(Inserting) - 1
    BY <1>5, <1>6
  <2>3. Troubles' = Troubles
    BY <1>6
  <2> QED  BY <1>1, <2>1, <2>2, <2>3 DEF QuotesKept
<1>7. ASSUME NEW a \in Inserting, Inserting' = Inserting \ {a}, UNCHANGED quotes,
             Troubles' = Troubles + 1
      PROVE  QuotesKept'
  <2>1. IsFiniteSet(Inserting') /\ Cardinality(Inserting') = Cardinality(Inserting) - 1
    BY <1>5, <1>7
  <2>2. quotes' = quotes /\ Troubles' = Troubles + 1
    BY <1>7
  <2> QED  BY <1>1, <2>1, <2>2 DEF QuotesKept
<1> QED  BY <1>2, <1>3, <1>4, <1>6, <1>7 DEF QuoteSteps

\* Every row of a quote has its tweet, and a quote tweet without a row is one a
\* session is about to insert or a trouble has orphaned (QuotesHaveRows).
THEOREM QuotesHaveRowsAlways == Spec => []QuotesHaveRows
<1>1. Init => QuotesKept
  <2> SUFFICES ASSUME Init PROVE QuotesKept
    OBVIOUS
  <2>1. Inserting = {} /\ Troubles = 0 /\ quotes.x = 0 /\ quotes.rows = 0
    BY DEF Init, Inserting, Idle, Troubles
  <2> QED  BY <2>1, FS_EmptySet DEF QuotesKept
<1>2. TypeOK /\ QuotesKept => QuotesHaveRows
  BY DEF QuotesKept, QuotesHaveRows, Inserting
<1> QED  BY <1>1, <1>2, QuotesKeptStep, TypesAlways, PTL DEF Spec

=============================================================================
