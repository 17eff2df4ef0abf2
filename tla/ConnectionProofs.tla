-------------------------- MODULE ConnectionProofs --------------------------
(*****************************************************************************)
(* Proofs about the life of a connection, for any set of handshakes and any  *)
(* bounds: the session has one current connection and leaves no worker behind *)
(* (ConnectionHost), and what the page shows and plays is that of the client *)
(* it listens to (BrowserConnection).                                        *)
(*****************************************************************************)
EXTENDS MCConnection, TLAPS

-----------------------------------------------------------------------------
(*****************************************************************************)
(* ConnectionHost.                                                           *)
(*****************************************************************************)

\* Before it is promoted an attempt has no pipeline: nothing runs for it and
\* nobody shuts it down.
Early == {"none", "issued", "refused", "offered"}
BeforePromotion ==
  \A a \in Attempts :
    /\ pc[a] # "none" => proposed[a] >= 1
    /\ pc[a] \in Early =>
         /\ ~active[a] /\ connection # a /\ a \notin closed
         /\ \A c \in Host!Callers : down[a][c] = "none"
    /\ pc[a] \in Early \cup {"registering", "dialing"} => worker[a] = "none"

\* Epochs rise: every promoted attempt is at or below the arbiter's epoch, and
\* only the current connection has that epoch itself.
EpochsRise ==
  /\ \A a \in Host!Promoted : proposed[a] <= arbiterEpoch
  /\ connection # NoAttempt =>
       \A a \in Host!Promoted : proposed[a] = proposed[connection] => a = connection
  /\ host \in {"draining", "down"} => connection = NoAttempt

\* What a shutdown that has passed a stage knows of its pipeline: it is
\* inactive, and once the worker was joined there is none to run or observe.
ShutdownAgrees ==
  \A a \in Attempts :
    /\ active[a] => a \notin closed /\ \A c \in Host!Callers : down[a][c] \in {"none", "start"}
    /\ worker[a] = "running" => a \in task
    /\ \A c \in Host!Callers : down[a][c] = "clean" => worker[a] # "running" /\ a \notin observing

IInv ==
  /\ Host!TypeOK /\ Host!OneCurrent /\ Host!NoOrphanWorker
  /\ BeforePromotion /\ EpochsRise /\ ShutdownAgrees

\* What the host's constants are assumed to be.
LEMMA HostConstants ==
  NoAttempt \notin Attempts /\ MaxTokens \in Nat \ {0} /\ MaxWorkers \in Nat /\ MaxFaults \in Nat
BY Zenon, ConnectionAssumption DEF Host!HostAssumption

\* The token store stays within its bound.
LEMMA TrimmedType ==
  ASSUME NEW s \in Seq(Attempts), Len(s) <= MaxTokens, NEW a \in Attempts
  PROVE  /\ Host!Trimmed(Append(s, a)) \in Seq(Attempts)
         /\ Len(Host!Trimmed(Append(s, a))) <= MaxTokens
<1>1. /\ Append(s, a) \in Seq(Attempts) /\ Append(s, a) # <<>>
      /\ Len(Append(s, a)) = Len(s) + 1
  OBVIOUS
<1>2. Tail(Append(s, a)) \in Seq(Attempts) /\ Len(Tail(Append(s, a))) = Len(s)
  BY <1>1
<1> QED
  BY <1>1, <1>2, HostConstants DEF Host!Trimmed

\* Moving one shutdown to another stage.
LEMMA DownUpdate ==
  ASSUME NEW S, NEW D \in [Attempts -> [Host!Callers -> S]], NEW a \in Attempts, NEW c \in Host!Callers,
         NEW x \in S
  PROVE  LET E == [D EXCEPT ![a][c] = x]
         IN  /\ E \in [Attempts -> [Host!Callers -> S]]
             /\ E[a][c] = x
             /\ \A d \in Host!Callers : d # c => E[a][d] = D[a][d]
             /\ \A b \in Attempts : b # a => E[b] = D[b]
  BY Zenon

\* Only a handshake and an expiry touch the token store.
LEMMA TokensStep ==
  ASSUME Host!TokensOK, [Host!Next]_hostVars
  PROVE  Host!TokensOK'
<1>1. ASSUME NEW a \in Attempts, Host!Session(a) PROVE Host!TokensOK'
  BY Zenon, <1>1, TrimmedType DEF Host!Session, Host!TokensOK
<1>2. CASE Host!Expire
  <2>1. Tail(tokens) \in Seq(Attempts) /\ Len(Tail(tokens)) <= MaxTokens
    BY <1>2, HostConstants DEF Host!Expire, Host!TokensOK
  <2> QED
    BY Zenon, <2>1, <1>2 DEF Host!Expire, Host!TokensOK
<1>3. CASE UNCHANGED tokens
  BY Zenon, <1>3 DEF Host!TokensOK
<1> QED
  BY ZenonT(60), <1>1, <1>2, <1>3 DEF Host!Next, hostVars, Host!gateVars, Host!ShutdownStep, Host!Offer, Host!Promote, Host!PromoteRaises,
     Host!Attach, Host!Replaced, Host!SetupRaises, Host!SetupOver, Host!WorkerCancelled, Host!WorkerEnds, Host!Teardown,
     Host!TeardownEnds, Host!ShutdownBegins, Host!CancelReturns, Host!JoinReturns, Host!CleanReturns, Host!CreateWorker,
     Host!RegistrationEnds, Host!HostCloses, Host!HostDrains, Host!HostDown

\* Every step keeps every variable within its type.
LEMMA TypeStep ==
  ASSUME Host!TypeOK, [Host!Next]_hostVars
  PROVE  Host!TypeOK'
<1>0. Host!TokensOK'
  BY Zenon, TokensStep DEF Host!TypeOK
<1> USE HostConstants, <1>0 DEF Host!TypeOK, Host!gateVars, Host!hostVars, Host!pipeVars, Host!regVars
<1>1. ASSUME NEW a \in Attempts, Host!Session(a) PROVE Host!TypeOK'
  BY <1>1, TrimmedType DEF Host!Session
<1>2. ASSUME NEW a \in Attempts, Host!Promote(a) PROVE Host!TypeOK'
  BY Zenon, <1>2 DEF Host!Promote, Host!Retired, Host!Callers
<1>3. ASSUME NEW a \in Attempts, Host!SetupRaises(a) PROVE Host!TypeOK'
  BY Zenon, <1>3 DEF Host!SetupRaises, Host!LiveAfterAbort
<1>4. ASSUME NEW a \in Attempts, Host!Offer(a) PROVE Host!TypeOK'
  <2>1. CASE Host!HasToken(a)
    <3>1. redeemed' = redeemed \cup {a} /\ pc' = [pc EXCEPT ![a] = "offered"]
          /\ peer' = [peer EXCEPT ![a] = "open"]
      BY Zenon, <1>4, <2>1 DEF Host!Offer
    <3> QED
      BY Zenon, <1>4, <3>1 DEF Host!Offer
  <2>2. CASE ~Host!HasToken(a)
    BY Zenon, <1>4, <2>2 DEF Host!Offer
  <2> QED
    BY Zenon, <2>1, <2>2
<1>5. ASSUME NEW a \in Attempts, Host!PromoteRaises(a) PROVE Host!TypeOK'
  BY Zenon, <1>5 DEF Host!PromoteRaises
<1>6. ASSUME NEW a \in Attempts, Host!Attach(a) PROVE Host!TypeOK'
  BY <1>6 DEF Host!Attach
<1>7. ASSUME NEW a \in Attempts, Host!Replaced(a) PROVE Host!TypeOK'
  BY Zenon, <1>7 DEF Host!Replaced
<1>8. ASSUME NEW a \in Attempts, Host!SetupOver(a) PROVE Host!TypeOK'
  BY Zenon, <1>8 DEF Host!SetupOver
<1>9. ASSUME NEW a \in Attempts, Host!WorkerCancelled(a) PROVE Host!TypeOK'
  BY Zenon, <1>9 DEF Host!WorkerCancelled
<1>10. ASSUME NEW a \in Attempts, Host!WorkerEnds(a) PROVE Host!TypeOK'
  <2>1. down' \in [Attempts -> [Host!Callers -> {"start", "teardown", "cancel", "join", "clean"} \cup Host!Over]]
    <3>1. CASE down' = down
      BY Zenon, <3>1
    <3>2. CASE down' = [down EXCEPT ![a]["worker"] = "start"]
      BY Zenon, <3>2 DEF Host!Callers
    <3> QED
      BY Zenon, <1>10, <3>1, <3>2 DEF Host!WorkerEnds
  <2>2. faults' \in 0..MaxFaults
    BY <1>10 DEF Host!WorkerEnds
  <2>3. /\ worker' \in [Attempts -> {"none", "running", "stopped"}]
        /\ (attr \cup task \cup observing)' \subseteq {b \in Attempts : worker'[b] # "none"}
    BY Zenon, <1>10 DEF Host!WorkerEnds
  <2> QED
    BY Zenon, <1>10, <2>1, <2>2, <2>3 DEF Host!WorkerEnds
<1>11. ASSUME NEW a \in Attempts, Host!Teardown(a) PROVE Host!TypeOK'
  <2>1. down' \in [Attempts -> [Host!Callers -> {"start", "teardown", "cancel", "join", "clean"} \cup Host!Over]]
    BY Zenon, <1>11 DEF Host!Teardown, Host!Callers
  <2>2. faults' \in 0..MaxFaults
    BY <1>11 DEF Host!Teardown
  <2> QED
    BY Zenon, <1>11, <2>1, <2>2 DEF Host!Teardown
<1>12. ASSUME NEW a \in Attempts, Host!TeardownEnds(a) PROVE Host!TypeOK'
  BY Zenon, <1>12 DEF Host!TeardownEnds
<1>13. ASSUME NEW a \in Attempts, NEW c \in Host!Callers, Host!ShutdownBegins(a, c) PROVE Host!TypeOK'
  <2>1. CASE a \in attr
    <3>1. down' = [down EXCEPT ![a][c] = "cancel"] /\ UNCHANGED observing
      BY Zenon, <1>13, <2>1 DEF Host!ShutdownBegins
    <3> QED
      BY Zenon, <1>13, <3>1 DEF Host!ShutdownBegins
  <2>2. CASE a \notin attr /\ a \in task
    BY SMTT(30), <1>13, <2>2 DEF Host!ShutdownBegins, Host!AfterCancel
  <2>3. CASE a \notin attr /\ a \notin task
    BY <1>13, <2>3 DEF Host!ShutdownBegins, Host!AfterCancel, Host!Unsubscribed
  <2> QED
    BY Zenon, <2>1, <2>2, <2>3
<1>14. ASSUME NEW a \in Attempts, NEW c \in Host!Callers, Host!CancelReturns(a, c) PROVE Host!TypeOK'
  <2>1. CASE a \in task
    <3>1. UNCHANGED observing /\ down' = [down EXCEPT ![a][c] = "join"]
      BY Zenon, <1>14, <2>1 DEF Host!CancelReturns, Host!AfterCancel
    <3> QED
      BY Zenon, <1>14, <3>1 DEF Host!CancelReturns
  <2>2. CASE a \notin task
    <3>1. observing' = observing \ {a} /\ down' = [down EXCEPT ![a][c] = "clean"]
      BY Zenon, <1>14, <2>2 DEF Host!CancelReturns, Host!AfterCancel, Host!Unsubscribed
    <3> QED
      BY Zenon, <1>14, <3>1 DEF Host!CancelReturns
  <2> QED
    BY Zenon, <2>1, <2>2
<1>15. ASSUME NEW a \in Attempts, NEW c \in Host!Callers, Host!JoinReturns(a, c) PROVE Host!TypeOK'
  BY Zenon, <1>15 DEF Host!JoinReturns, Host!Unsubscribed
<1>16. ASSUME NEW a \in Attempts, NEW c \in Host!Callers, Host!CleanReturns(a, c) PROVE Host!TypeOK'
  BY Zenon, <1>16 DEF Host!CleanReturns, Host!Closed, Host!Over
<1>17. CASE Host!Expire
  BY Zenon, <1>17 DEF Host!Expire
<1>18. CASE Host!CreateWorker
  BY <1>18 DEF Host!CreateWorker
<1>19. CASE Host!HostCloses
  BY Zenon, <1>19 DEF Host!HostCloses
<1>20. CASE Host!HostDrains
  <2>1. CASE connection = NoAttempt
    BY Zenon, <1>20, <2>1 DEF Host!HostDrains
  <2>2. CASE connection # NoAttempt
    <3>1. /\ active' = [active EXCEPT ![connection] = FALSE]
          /\ down' = [down EXCEPT ![connection]["host"] = "start"]
      BY Zenon, <1>20, <2>2 DEF Host!HostDrains
    <3>2. down' \in [Attempts -> [Host!Callers -> {"start", "teardown", "cancel", "join", "clean"} \cup Host!Over]]
      BY Zenon, <2>2, <3>1 DEF Host!Callers
    <3> QED
      BY Zenon, <1>20, <2>2, <3>1, <3>2 DEF Host!HostDrains
  <2> QED
    BY Zenon, <2>1, <2>2
<1>21. CASE Host!HostDown
  <2>1. down' \in [Attempts -> [Host!Callers -> {"start", "teardown", "cancel", "join", "clean"} \cup Host!Over]]
    BY ZenonT(60), <1>21 DEF Host!HostDown, Host!Over
  <2> QED
    BY Zenon, <1>21, <2>1 DEF Host!HostDown
<1>22. ASSUME NEW ok \in BOOLEAN, Host!RegistrationEnds(ok) PROVE Host!TypeOK'
  BY Zenon, <1>22 DEF Host!RegistrationEnds
<1>23. CASE UNCHANGED hostVars
  BY Zenon, <1>23 DEF hostVars
<1> QED
  BY ZenonT(60), <1>1, <1>2, <1>3, <1>4, <1>5, <1>6, <1>7, <1>8, <1>9, <1>10, <1>11, <1>12, <1>13, <1>14, <1>15, <1>16, <1>17, <1>18, <1>19, <1>20, <1>21, <1>22, <1>23 DEF Host!Next, Host!ShutdownStep

\* Every step keeps one current connection.
LEMMA OneCurrentStep ==
  ASSUME IInv, [Host!Next]_hostVars
  PROVE  Host!OneCurrent'
<1> USE HostConstants DEF IInv, Host!OneCurrent, BeforePromotion, EpochsRise, Early, Host!Promoted, Host!TypeOK, Host!gateVars, Host!hostVars, Host!pipeVars, Host!regVars
<1>1. ASSUME NEW a \in Attempts, Host!Session(a) PROVE Host!OneCurrent'
  BY <1>1 DEF Host!Session
<1>2. ASSUME NEW a \in Attempts, Host!Offer(a) PROVE Host!OneCurrent'
  BY <1>2 DEF Host!Offer
<1>3. ASSUME NEW a \in Attempts, Host!Promote(a) PROVE Host!OneCurrent'
  BY <1>3 DEF Host!Promote, Host!Retired, Host!Fresh
<1>4. ASSUME NEW a \in Attempts, Host!PromoteRaises(a) PROVE Host!OneCurrent'
  BY <1>4 DEF Host!PromoteRaises
<1>5. ASSUME NEW a \in Attempts, Host!Attach(a) PROVE Host!OneCurrent'
  BY <1>5 DEF Host!Attach, Host!StillAccepts, Host!Accepts
<1>6. ASSUME NEW a \in Attempts, Host!Replaced(a) PROVE Host!OneCurrent'
  BY <1>6 DEF Host!Replaced
<1>7. ASSUME NEW a \in Attempts, Host!SetupRaises(a) PROVE Host!OneCurrent'
  <2>1. CASE connection = a
    BY <1>7, <2>1 DEF Host!SetupRaises
  <2>2. CASE connection # a
    BY <1>7, <2>2 DEF Host!SetupRaises, Host!LiveAfterAbort
  <2> QED
    BY Zenon, <2>1, <2>2
<1>8. ASSUME NEW a \in Attempts, Host!SetupOver(a) PROVE Host!OneCurrent'
  BY <1>8 DEF Host!SetupOver
<1>9. ASSUME NEW a \in Attempts, Host!Teardown(a) PROVE Host!OneCurrent'
  BY <1>9 DEF Host!Teardown
<1>10. ASSUME NEW a \in Attempts, NEW c \in Host!Callers, Host!ShutdownBegins(a, c) PROVE Host!OneCurrent'
  BY <1>10 DEF Host!ShutdownBegins, Host!AfterCancel, Host!Unsubscribed
<1>11. CASE Host!HostDrains
  BY <1>11 DEF Host!HostDrains
<1>12. CASE Host!HostDown
  BY Zenon, <1>12 DEF Host!HostDown
<1>13. ASSUME NEW ok \in BOOLEAN, Host!RegistrationEnds(ok) PROVE Host!OneCurrent'
  BY <1>13 DEF Host!RegistrationEnds
<1>14. CASE UNCHANGED <<proposed, arbiterEpoch, connection, liveEpoch, pc, active>>
  BY Zenon, <1>14
<1> HIDE HostConstants DEF IInv, Host!OneCurrent, BeforePromotion, EpochsRise, Early, Host!Promoted, Host!TypeOK
<1>15. ASSUME \/ \E a \in Attempts : Host!WorkerCancelled(a) \/ Host!WorkerEnds(a) \/ Host!TeardownEnds(a)
              \/ \E a \in Attempts, c \in Host!Callers : Host!CancelReturns(a, c) \/ Host!JoinReturns(a, c) \/ Host!CleanReturns(a, c)
              \/ Host!Expire \/ Host!CreateWorker \/ Host!HostCloses \/ UNCHANGED hostVars
       PROVE  UNCHANGED <<proposed, arbiterEpoch, connection, liveEpoch, pc, active>>
  BY Zenon, <1>15 DEF hostVars, Host!WorkerCancelled, Host!WorkerEnds, Host!TeardownEnds, Host!CancelReturns, Host!JoinReturns, Host!CleanReturns,
                      Host!Expire, Host!CreateWorker, Host!HostCloses
<1> QED
  BY Zenon, <1>1, <1>2, <1>3, <1>4, <1>5, <1>6, <1>7, <1>8, <1>9, <1>10, <1>11, <1>12, <1>13, <1>14, <1>15
     DEF Host!Next, Host!ShutdownStep

\* Every step leaves an attempt that is not promoted without a pipeline.
LEMMA BeforePromotionStep ==
  ASSUME IInv, [Host!Next]_hostVars
  PROVE  BeforePromotion'
<1> USE HostConstants DEF IInv, Host!OneCurrent, BeforePromotion, EpochsRise, Early, Host!Promoted, Host!TypeOK, Host!gateVars, Host!hostVars, Host!pipeVars, Host!regVars
<1>1. ASSUME NEW a \in Attempts, Host!Session(a) PROVE BeforePromotion'
  BY <1>1 DEF Host!Session
<1>2. ASSUME NEW a \in Attempts, Host!Offer(a) PROVE BeforePromotion'
  BY <1>2 DEF Host!Offer
<1>3. ASSUME NEW a \in Attempts, Host!Promote(a) PROVE BeforePromotion'
  BY <1>3 DEF Host!Promote, Host!Retired, Host!Fresh
<1>4. ASSUME NEW a \in Attempts, Host!PromoteRaises(a) PROVE BeforePromotion'
  BY <1>4 DEF Host!PromoteRaises
<1>5. ASSUME NEW a \in Attempts, Host!Attach(a) PROVE BeforePromotion'
  BY <1>5 DEF Host!Attach, Host!StillAccepts, Host!Accepts
<1>6. ASSUME NEW a \in Attempts, Host!Replaced(a) PROVE BeforePromotion'
  BY <1>6 DEF Host!Replaced
<1>7. ASSUME NEW a \in Attempts, Host!SetupRaises(a) PROVE BeforePromotion'
  BY <1>7 DEF Host!SetupRaises, Host!LiveAfterAbort
<1>8. ASSUME NEW a \in Attempts, Host!SetupOver(a) PROVE BeforePromotion'
  BY <1>8 DEF Host!SetupOver
<1>9. ASSUME NEW a \in Attempts, Host!WorkerCancelled(a) PROVE BeforePromotion'
  BY <1>9 DEF Host!WorkerCancelled
<1>10. ASSUME NEW a \in Attempts, Host!WorkerEnds(a) PROVE BeforePromotion'
  BY <1>10 DEF Host!WorkerEnds
<1>11. ASSUME NEW a \in Attempts, Host!Teardown(a) PROVE BeforePromotion'
  BY <1>11 DEF Host!Teardown
<1>12. ASSUME NEW a \in Attempts, Host!TeardownEnds(a) PROVE BeforePromotion'
  BY <1>12 DEF Host!TeardownEnds
<1>13. ASSUME NEW a \in Attempts, NEW c \in Host!Callers, Host!ShutdownBegins(a, c) PROVE BeforePromotion'
  BY <1>13 DEF Host!ShutdownBegins, Host!AfterCancel, Host!Unsubscribed
<1>14. ASSUME NEW a \in Attempts, NEW c \in Host!Callers, Host!CancelReturns(a, c) PROVE BeforePromotion'
  BY SMTT(30), <1>14 DEF Host!CancelReturns, Host!AfterCancel, Host!Unsubscribed
<1>15. ASSUME NEW a \in Attempts, NEW c \in Host!Callers, Host!JoinReturns(a, c) PROVE BeforePromotion'
  BY <1>15 DEF Host!JoinReturns, Host!Unsubscribed
<1>16. ASSUME NEW a \in Attempts, NEW c \in Host!Callers, Host!CleanReturns(a, c) PROVE BeforePromotion'
  BY <1>16 DEF Host!CleanReturns, Host!Closed
<1>17. CASE Host!HostDrains
  BY <1>17 DEF Host!HostDrains
<1>18. CASE Host!HostDown
  BY Zenon, <1>18 DEF Host!HostDown
<1>19. ASSUME NEW ok \in BOOLEAN, Host!RegistrationEnds(ok) PROVE BeforePromotion'
  BY Zenon, <1>19 DEF Host!RegistrationEnds
<1>20. CASE UNCHANGED <<proposed, pc, active, connection, closed, down, worker>>
  BY Zenon, <1>20
<1> HIDE HostConstants DEF IInv, Host!OneCurrent, BeforePromotion, EpochsRise, Early, Host!Promoted, Host!TypeOK
<1>21. ASSUME Host!Expire \/ Host!CreateWorker \/ Host!HostCloses \/ UNCHANGED hostVars
       PROVE  UNCHANGED <<proposed, pc, active, connection, closed, down, worker>>
  BY Zenon, <1>21 DEF hostVars, Host!Expire, Host!CreateWorker, Host!HostCloses
<1> QED
  BY Zenon, <1>1, <1>2, <1>3, <1>4, <1>5, <1>6, <1>7, <1>8, <1>9, <1>10, <1>11, <1>12, <1>13, <1>14, <1>15, <1>16,
     <1>17, <1>18, <1>19, <1>20, <1>21 DEF Host!Next, Host!ShutdownStep

\* Every step keeps the epochs rising.
LEMMA EpochsRiseStep ==
  ASSUME IInv, [Host!Next]_hostVars
  PROVE  EpochsRise'
<1> USE HostConstants DEF IInv, Host!OneCurrent, BeforePromotion, EpochsRise, Early, Host!Promoted, Host!TypeOK, Host!gateVars, Host!hostVars, Host!pipeVars, Host!regVars
<1>1. ASSUME NEW a \in Attempts, Host!Session(a) PROVE EpochsRise'
  BY <1>1 DEF Host!Session
<1>2. ASSUME NEW a \in Attempts, Host!Offer(a) PROVE EpochsRise'
  BY <1>2 DEF Host!Offer
<1>3. ASSUME NEW a \in Attempts, Host!Promote(a) PROVE EpochsRise'
  BY <1>3 DEF Host!Promote, Host!Retired, Host!Fresh
<1>4. ASSUME NEW a \in Attempts, Host!PromoteRaises(a) PROVE EpochsRise'
  BY <1>4 DEF Host!PromoteRaises
<1>5. ASSUME NEW a \in Attempts, Host!Attach(a) PROVE EpochsRise'
  BY <1>5 DEF Host!Attach, Host!StillAccepts, Host!Accepts
<1>6. ASSUME NEW a \in Attempts, Host!Replaced(a) PROVE EpochsRise'
  BY <1>6 DEF Host!Replaced
<1>7. ASSUME NEW a \in Attempts, Host!SetupRaises(a) PROVE EpochsRise'
  BY <1>7 DEF Host!SetupRaises, Host!LiveAfterAbort
<1>8. ASSUME NEW a \in Attempts, Host!SetupOver(a) PROVE EpochsRise'
  BY <1>8 DEF Host!SetupOver
<1>9. CASE Host!HostCloses
  BY Zenon, <1>9 DEF Host!HostCloses
<1>10. CASE Host!HostDrains
  BY Zenon, <1>10 DEF Host!HostDrains
<1>11. CASE Host!HostDown
  BY Zenon, <1>11 DEF Host!HostDown
<1>12. ASSUME NEW ok \in BOOLEAN, Host!RegistrationEnds(ok) PROVE EpochsRise'
  BY Zenon, <1>12 DEF Host!RegistrationEnds
<1>13. CASE UNCHANGED <<proposed, pc, arbiterEpoch, connection, host>>
  BY Zenon, <1>13
<1> HIDE HostConstants DEF IInv, Host!OneCurrent, BeforePromotion, EpochsRise, Early, Host!Promoted, Host!TypeOK
<1>14. ASSUME \/ \E a \in Attempts : Host!WorkerCancelled(a) \/ Host!WorkerEnds(a) \/ Host!Teardown(a) \/ Host!TeardownEnds(a)
              \/ \E a \in Attempts, c \in Host!Callers : Host!ShutdownStep(a, c)
              \/ Host!Expire \/ Host!CreateWorker \/ UNCHANGED hostVars
       PROVE  UNCHANGED <<proposed, pc, arbiterEpoch, connection, host>>
  BY Zenon, <1>14 DEF hostVars, Host!WorkerCancelled, Host!WorkerEnds, Host!Teardown, Host!TeardownEnds, Host!ShutdownStep, Host!ShutdownBegins,
                      Host!CancelReturns, Host!JoinReturns, Host!CleanReturns, Host!Expire, Host!CreateWorker
<1> QED
  BY Zenon, <1>1, <1>2, <1>3, <1>4, <1>5, <1>6, <1>7, <1>8, <1>9, <1>10, <1>11, <1>12, <1>13, <1>14 DEF Host!Next

\* Every step keeps what a shutdown knows of its pipeline.
LEMMA ShutdownAgreesStep ==
  ASSUME IInv, [Host!Next]_hostVars
  PROVE  ShutdownAgrees'
<1> USE HostConstants DEF IInv, Host!OneCurrent, BeforePromotion, ShutdownAgrees, EpochsRise, Early, Host!Promoted, Host!TypeOK, Host!gateVars, Host!hostVars, Host!pipeVars, Host!regVars
<1>1. ASSUME NEW a \in Attempts, Host!Promote(a) PROVE ShutdownAgrees'
  BY <1>1 DEF Host!Promote, Host!Retired, Host!Fresh
<1>2. ASSUME NEW a \in Attempts, Host!Attach(a) PROVE ShutdownAgrees'
  <2>1. connection \in Attempts /\ active[connection] /\ arbiterEpoch = proposed[a] /\ a \in Host!Promoted
    BY Zenon, <1>2 DEF Host!Attach, Host!StillAccepts, Host!Accepts
  <2>2. connection = a
    BY <2>1
  <2>3. active[a] /\ a \notin closed /\ \A c \in Host!Callers : down[a][c] \in {"none", "start"}
    BY Zenon, <2>1, <2>2
  <2> QED
    BY <1>2, <2>3 DEF Host!Attach
<1>3. ASSUME NEW a \in Attempts, Host!Replaced(a) PROVE ShutdownAgrees'
  BY <1>3 DEF Host!Replaced
<1>4. ASSUME NEW a \in Attempts, Host!SetupRaises(a) PROVE ShutdownAgrees'
  BY <1>4 DEF Host!SetupRaises, Host!LiveAfterAbort
<1>5. ASSUME NEW a \in Attempts, Host!WorkerCancelled(a) PROVE ShutdownAgrees'
  BY <1>5 DEF Host!WorkerCancelled
<1>6. ASSUME NEW a \in Attempts, Host!WorkerEnds(a) PROVE ShutdownAgrees'
  BY <1>6 DEF Host!WorkerEnds
<1>7. ASSUME NEW a \in Attempts, Host!Teardown(a) PROVE ShutdownAgrees'
  BY <1>7 DEF Host!Teardown
<1>8. ASSUME NEW a \in Attempts, Host!TeardownEnds(a) PROVE ShutdownAgrees'
  BY <1>8 DEF Host!TeardownEnds
<1>9. ASSUME NEW a \in Attempts, NEW c \in Host!Callers, Host!ShutdownBegins(a, c) PROVE ShutdownAgrees'
  BY <1>9 DEF Host!ShutdownBegins, Host!AfterCancel, Host!Unsubscribed
<1>10. ASSUME NEW a \in Attempts, NEW c \in Host!Callers, Host!CancelReturns(a, c) PROVE ShutdownAgrees'
  BY SMTT(30), <1>10 DEF Host!CancelReturns, Host!AfterCancel, Host!Unsubscribed
<1>11. ASSUME NEW a \in Attempts, NEW c \in Host!Callers, Host!JoinReturns(a, c) PROVE ShutdownAgrees'
  BY <1>11 DEF Host!JoinReturns, Host!Unsubscribed
<1>12. ASSUME NEW a \in Attempts, NEW c \in Host!Callers, Host!CleanReturns(a, c) PROVE ShutdownAgrees'
  BY <1>12 DEF Host!CleanReturns, Host!Closed
<1>13. CASE Host!HostDrains
  BY <1>13 DEF Host!HostDrains
<1>14. CASE Host!HostDown
  BY <1>14 DEF Host!HostDown
<1>15. CASE UNCHANGED <<active, closed, down, worker, task, observing>>
  BY <1>15
<1> QED
  BY ZenonT(60), <1>1, <1>2, <1>3, <1>4, <1>5, <1>6, <1>7, <1>8, <1>9, <1>10, <1>11, <1>12, <1>13, <1>14, <1>15 DEF Host!Next, Host!ShutdownStep, hostVars, Host!Session, Host!Offer, Host!PromoteRaises, Host!SetupOver, Host!Expire, Host!CreateWorker, Host!HostCloses, Host!RegistrationEnds

\* Every step leaves a running worker to the current connection or to a
\* shutdown that stops it.
LEMMA NoOrphanStep ==
  ASSUME IInv, [Host!Next]_hostVars
  PROVE  Host!NoOrphanWorker'
<1> USE HostConstants DEF IInv, Host!OneCurrent, BeforePromotion, ShutdownAgrees, Host!NoOrphanWorker, Host!Closing, Host!Over, EpochsRise, Early, Host!Promoted, Host!TypeOK, Host!gateVars, Host!hostVars, Host!pipeVars, Host!regVars
<1>1. ASSUME NEW a \in Attempts, Host!Promote(a) PROVE Host!NoOrphanWorker'
  <2>1. worker[a] # "running"
    BY Zenon, <1>1 DEF Host!Promote
  <2>2. CASE connection = NoAttempt
    BY <1>1, <2>1, <2>2 DEF Host!Promote, Host!Retired
  <2>3. CASE connection # NoAttempt
    <3>1. "retire" \in Host!Callers /\ connection \in Attempts
      BY Zenon, <2>3 DEF Host!Callers
    <3>2. down'[connection]["retire"] \notin Host!Over
      BY <1>1, <2>3, <3>1 DEF Host!Promote
    <3>3. \A b \in Attempts : b # connection => down'[b] = down[b]
      BY <1>1, <2>3 DEF Host!Promote
    <3> QED
      BY Zenon, <1>1, <2>1, <2>3, <3>1, <3>2, <3>3 DEF Host!Promote
  <2> QED
    BY Zenon, <2>2, <2>3
<1>2. ASSUME NEW a \in Attempts, Host!Attach(a) PROVE Host!NoOrphanWorker'
  BY <1>2 DEF Host!Attach, Host!StillAccepts, Host!Accepts
<1>3. ASSUME NEW a \in Attempts, Host!Replaced(a) PROVE Host!NoOrphanWorker'
  BY <1>3 DEF Host!Replaced
<1>4. ASSUME NEW a \in Attempts, Host!SetupRaises(a) PROVE Host!NoOrphanWorker'
  BY <1>4 DEF Host!SetupRaises, Host!LiveAfterAbort
<1>5. ASSUME NEW a \in Attempts, Host!WorkerCancelled(a) PROVE Host!NoOrphanWorker'
  BY <1>5 DEF Host!WorkerCancelled
<1>6. ASSUME NEW a \in Attempts, Host!WorkerEnds(a) PROVE Host!NoOrphanWorker'
  BY <1>6 DEF Host!WorkerEnds
<1>7. ASSUME NEW a \in Attempts, Host!Teardown(a) PROVE Host!NoOrphanWorker'
  <2>1. "output" \in Host!Callers
    BY Zenon DEF Host!Callers
  <2>2. Host!Closing(a)'
    BY <1>7, <2>1 DEF Host!Teardown
  <2>3. \A b \in Attempts : b # a => down'[b] = down[b] /\ active'[b] = active[b]
    BY <1>7 DEF Host!Teardown
  <2> QED
    BY <1>7, <2>2, <2>3 DEF Host!Teardown
<1>8. ASSUME NEW a \in Attempts, Host!TeardownEnds(a) PROVE Host!NoOrphanWorker'
  BY <1>8 DEF Host!TeardownEnds
<1>9. ASSUME NEW a \in Attempts, NEW c \in Host!Callers, Host!ShutdownBegins(a, c) PROVE Host!NoOrphanWorker'
  <2>1. down'[a][c] \in {"cancel", "join", "clean"} /\ observing' \subseteq observing
    BY <1>9 DEF Host!ShutdownBegins, Host!AfterCancel, Host!Unsubscribed
  <2>2. \A b \in Attempts : b # a => down'[b] = down[b] /\ active'[b] = active[b]
    BY <1>9 DEF Host!ShutdownBegins, Host!AfterCancel, Host!Unsubscribed
  <2>3. Host!Closing(a)'
    BY Zenon, <2>1
  <2> QED
    BY <1>9, <2>1, <2>2, <2>3 DEF Host!ShutdownBegins
<1>10. ASSUME NEW a \in Attempts, NEW c \in Host!Callers, Host!CancelReturns(a, c) PROVE Host!NoOrphanWorker'
  BY <1>10 DEF Host!CancelReturns, Host!AfterCancel, Host!Unsubscribed
<1>11. ASSUME NEW a \in Attempts, NEW c \in Host!Callers, Host!JoinReturns(a, c) PROVE Host!NoOrphanWorker'
  BY <1>11 DEF Host!JoinReturns, Host!Unsubscribed
<1>12. ASSUME NEW a \in Attempts, NEW c \in Host!Callers, Host!CleanReturns(a, c) PROVE Host!NoOrphanWorker'
  BY <1>12 DEF Host!CleanReturns, Host!Closed
<1>13. CASE Host!HostCloses
  BY Zenon, <1>13 DEF Host!HostCloses
<1>14. CASE Host!HostDrains
  <2>1. CASE connection = NoAttempt
    BY <1>14, <2>1 DEF Host!HostDrains
  <2>2. CASE connection # NoAttempt
    <3>1. "host" \in Host!Callers /\ connection \in Attempts
      BY Zenon, <2>2 DEF Host!Callers
    <3>2. down'[connection]["host"] \notin Host!Over
      BY <1>14, <2>2, <3>1 DEF Host!HostDrains
    <3>3. \A b \in Attempts : b # connection => down'[b] = down[b] /\ active'[b] = active[b]
      BY <1>14, <2>2 DEF Host!HostDrains
    <3> QED
      BY Zenon, <1>14, <2>2, <3>1, <3>2, <3>3 DEF Host!HostDrains
  <2> QED
    BY Zenon, <2>1, <2>2
<1>15. CASE Host!HostDown
  BY Zenon, <1>15 DEF Host!HostDown
<1>16. CASE UNCHANGED <<active, closed, down, worker, observing, host, connection>>
  BY Zenon, <1>16
<1> QED
  BY Zenon, <1>1, <1>2, <1>3, <1>4, <1>5, <1>6, <1>7, <1>8, <1>9, <1>10, <1>11, <1>12, <1>13, <1>14, <1>15, <1>16 DEF Host!Next, Host!ShutdownStep, hostVars, Host!Session, Host!Offer, Host!PromoteRaises, Host!SetupOver, Host!Expire, Host!CreateWorker, Host!RegistrationEnds

\* A step of the page or of the barrier leaves the host alone.
LEMMA HostStep == [ConnectionNext]_allVars => [Host!Next]_hostVars
  BY Zenon DEF ConnectionNext, allVars

\* The strengthened invariant holds initially and every step keeps it.
LEMMA HostInvariant == ConnectionSpec => []IInv
<1>1. Host!Init => IInv
  <2> SUFFICES ASSUME Host!Init PROVE IInv
    BY Zenon
  <2>1. Host!TypeOK
    BY HostConstants DEF Host!Init, Host!TypeOK, Host!TokensOK, Host!Over
  <2> QED
    BY Zenon, <2>1, HostConstants DEF Host!Init, IInv, Host!OneCurrent, Host!NoOrphanWorker, BeforePromotion,
       EpochsRise, ShutdownAgrees, Host!Promoted, Early
<1>2. IInv /\ [Host!Next]_hostVars => IInv'
  BY Zenon, TypeStep, OneCurrentStep, BeforePromotionStep, EpochsRiseStep, ShutdownAgreesStep,
     NoOrphanStep DEF IInv
<1>3. ConnectionInit => Host!Init
  BY Zenon DEF ConnectionInit
<1> QED
  BY <1>1, <1>2, <1>3, HostStep, PTL DEF ConnectionSpec

\* Whatever number of pages hold a proposed epoch and in whatever order their
\* promotions, aborts and shutdowns interleave, one connection is current,
\* every other is inactive, and the session's epoch is the current one's
\* (ConnectionArbiter.promote, SessionHost.connect, abort_connection).
THEOREM OneCurrentAlways == ConnectionSpec => []OneCurrent
<1>1. IInv => OneCurrent
  BY Zenon DEF IInv, OneCurrent
<1> QED
  BY HostInvariant, <1>1, PTL

\* No pipeline worker outlives its connection unattended: one that runs is the
\* current connection's or is being shut down, and a closed connection has
\* neither worker nor observer (_attach_connection, ConnectionPipeline.shutdown).
THEOREM NoOrphanWorkerAlways == ConnectionSpec => []NoOrphanWorker
<1>1. IInv => NoOrphanWorker
  BY Zenon DEF IInv, NoOrphanWorker
<1> QED
  BY HostInvariant, <1>1, PTL

\* The arbiter's epoch never falls, and every connection that becomes current
\* brings a higher one, so an event stamped with an older epoch cannot be taken
\* for the successor's; a connection once promoted and inactive stays inactive.
NeverBack ==
  /\ arbiterEpoch' >= arbiterEpoch
  /\ connection' \notin {connection, NoAttempt} => arbiterEpoch' > arbiterEpoch
  /\ \A a \in Host!Promoted : ~active[a] => ~active'[a]

\* NeverBack is a property of every step (ConnectionArbiter.promote and
\* _retire_old_connection).
THEOREM NeverBackAlways == ConnectionSpec => [][NeverBack]_hostVars
<1>1. ASSUME IInv, [Host!Next]_hostVars PROVE [NeverBack]_hostVars
  <2> USE <1>1, HostConstants DEF IInv, Host!TypeOK, BeforePromotion, Host!Promoted, Early, NeverBack, Host!gateVars,
            Host!hostVars, Host!pipeVars, Host!regVars
  <2>1. ASSUME NEW a \in Attempts, Host!Promote(a) PROVE NeverBack
    BY <2>1 DEF Host!Promote, Host!Fresh, Host!Retired
  <2>2. ASSUME NEW a \in Attempts, Host!SetupRaises(a) PROVE NeverBack
    BY SMTT(30), <2>2 DEF Host!SetupRaises
  <2>3. ASSUME NEW a \in Attempts, Host!Teardown(a) PROVE NeverBack
    BY <2>3 DEF Host!Teardown
  <2>4. ASSUME NEW a \in Attempts, NEW c \in Host!Callers, Host!ShutdownBegins(a, c) PROVE NeverBack
    BY <2>4 DEF Host!ShutdownBegins
  <2>5. CASE Host!HostDrains
    BY <2>5 DEF Host!HostDrains
  <2>6. CASE UNCHANGED <<arbiterEpoch, connection, active>>
    BY <2>6
  <2> QED
    BY ZenonT(60), <2>1, <2>2, <2>3, <2>4, <2>5, <2>6 DEF Host!Next, hostVars, Host!ShutdownStep, Host!Session, Host!Offer,
       Host!PromoteRaises, Host!Attach, Host!Replaced, Host!SetupOver, Host!WorkerCancelled, Host!WorkerEnds, Host!TeardownEnds,
       Host!CancelReturns, Host!JoinReturns, Host!CleanReturns, Host!Expire, Host!CreateWorker, Host!RegistrationEnds,
       Host!HostCloses, Host!HostDown
<1> QED
  BY HostInvariant, HostStep, <1>1, PTL DEF ConnectionSpec

-----------------------------------------------------------------------------
(*****************************************************************************)
(* BrowserConnection.                                                        *)
(*****************************************************************************)

\* What follows from where the in-flight connect() is.
InFlight ==
  /\ mine <= current /\ client <= mine
  /\ listening => mine = current
  /\ promise = "disconnecting" => ~listening /\ generation < MaxGeneration
  /\ promise \notin {"idle", "disconnecting"} => mine > 0
  /\ promise \in {"discovering", "init", "connecting", "failing"} /\ mine = current => listening
  /\ promise \in {"init", "connecting", "leaving", "failing"} => client = mine
  /\ promise = "leaving" => mine # current

\* What holds of the client of the in-flight connect().
OwnClient ==
  /\ promise = "discovering" => client # mine /\ status[mine] = "none" /\ mine \notin torn
  /\ promise = "init" => status[mine] = "init"
  /\ promise \in {"init", "connecting"} /\ mine = current => mine \notin torn
  /\ promise = "connecting" /\ mine = current => status[mine] \in {"connecting", "open"}

\* What holds of every client.
EveryClient ==
  /\ \A g \in Page!Generations : g > mine => status[g] = "none" /\ g \notin torn
  /\ \A g \in Page!Generations :
        g = current /\ status[g] \in {"connecting", "open"} =>
          (listening /\ client = g) \/ g \in stranded
  /\ \A g \in stranded : status[g] \in {"connecting", "open", "closed"}
  /\ playing # 0 => status[playing] \in {"connecting", "open", "closed"}

\* The inductive invariant.
PageInv == Page!TypeOK /\ ShownIsCurrent /\ InFlight /\ OwnClient /\ EveryClient

\* What is assumed of the bounds.
LEMMA PageBounds == MaxGeneration \in Nat /\ MaxGeneration > 0 /\ MaxCalls \in Nat
  BY ConnectionAssumption DEF Page!BrowserAssumption

\* The page as it is loaded.
LEMMA PageInit == Page!Init => PageInv
<1> SUFFICES ASSUME Page!Init PROVE PageInv
  BY Zenon
<1> USE PageBounds DEF Page!Init, Page!Generations
<1>1. Page!TypeOK
  <2>1. generation \in 0..MaxGeneration /\ current = generation /\ calls \in 0..MaxCalls
           /\ client \in 0..MaxGeneration /\ mine \in 0..MaxGeneration
    OBVIOUS
  <2>2. listening \in BOOLEAN /\ shown \in BOOLEAN /\ mic \in BOOLEAN
    BY Zenon
  <2>3. promise \in {"idle", "disconnecting", "discovering", "init", "connecting", "leaving", "failing"}
           /\ awaits \in 0..MaxGeneration /\ playing \in 0..MaxGeneration
    OBVIOUS
  <2>4. status \in [Page!Generations -> {"none", "init", "connecting", "open", "closed"}]
    BY Zenon
  <2>5. capturing \subseteq Page!Generations /\ torn \subseteq Page!Generations
           /\ stranded \subseteq Page!Generations
    BY Zenon
  <2> QED
    BY Zenon, <2>1, <2>2, <2>3, <2>4, <2>5 DEF Page!TypeOK
<1>2. ShownIsCurrent
  BY Zenon DEF ShownIsCurrent, Page!ShownIsCurrent
<1> QED
  BY <1>1, <1>2 DEF PageInv, InFlight, OwnClient, EveryClient

\* Membership is a truth value.
LEMMA IsTruth == \A S, x : (x \in S) \in BOOLEAN
  OBVIOUS

\* A generation above the in-flight one was never torn down.
LEMMA Untorn ==
  ASSUME NEW c \in 0..MaxGeneration, torn \subseteq Page!Generations
  PROVE  Page!Untorn(c) \subseteq Page!Generations
  BY PageBounds DEF Page!Untorn, Page!Generations

\* Every click, callback and awaited answer keeps the page on the current client
\* (createApp in web/src/app.js).
LEMMA PageStep ==
  ASSUME PageInv, [Page!Next]_(Page!vars)
  PROVE  PageInv'
<1> USE PageBounds DEF PageInv, Page!TypeOK, ShownIsCurrent, Page!ShownIsCurrent, Page!Live, Page!Generations,
    InFlight, OwnClient, EveryClient
<1>1. CASE Page!Connect
  <2>1. CASE listening
    <3>1. Page!TypeOK'
      <4>1. generation' \in 0..MaxGeneration /\ current' = generation' /\ calls' \in 0..MaxCalls
           /\ client' \in 0..MaxGeneration /\ mine' \in 0..MaxGeneration
        BY <1>1, <2>1 DEF Page!Connect, Page!Cleanup, Page!Teardown, Page!Await, Page!CleansUp,
           Page!RetireGeneration, Page!Silenced, Page!Untorn, Page!ReleasedMic
      <4>2. listening' \in BOOLEAN /\ shown' \in BOOLEAN /\ mic' \in BOOLEAN
        BY Zenon, <1>1, <2>1 DEF Page!Connect, Page!Cleanup, Page!Teardown, Page!Await, Page!CleansUp,
           Page!RetireGeneration, Page!Silenced, Page!Untorn, Page!ReleasedMic
      <4>3. promise' \in {"idle", "disconnecting", "discovering", "init", "connecting", "leaving", "failing"}
           /\ awaits' \in 0..MaxGeneration /\ playing' \in 0..MaxGeneration
        BY <1>1, <2>1 DEF Page!Connect, Page!Cleanup, Page!Teardown, Page!Await, Page!CleansUp,
           Page!RetireGeneration, Page!Silenced, Page!Untorn, Page!ReleasedMic
      <4>4. status' \in [Page!Generations -> {"none", "init", "connecting", "open", "closed"}]
        BY ZenonT(60), <1>1, <2>1 DEF Page!Connect, Page!Cleanup, Page!Teardown, Page!Await, Page!CleansUp,
           Page!RetireGeneration, Page!Silenced, Page!Untorn, Page!ReleasedMic
      <4>5. capturing' \subseteq Page!Generations /\ torn' \subseteq Page!Generations
           /\ stranded' \subseteq Page!Generations
        BY Zenon, Untorn, <1>1, <2>1 DEF Page!Connect, Page!Cleanup, Page!Teardown, Page!Await, Page!CleansUp,
           Page!RetireGeneration, Page!Silenced, Page!ReleasedMic
      <4> QED
        BY Zenon, <4>1, <4>2, <4>3, <4>4, <4>5
    <3>2. ShownIsCurrent'
      BY Zenon, <1>1, <2>1 DEF Page!Connect, Page!Cleanup, Page!Teardown, Page!Await, Page!CleansUp,
         Page!RetireGeneration, Page!Silenced, Page!Untorn, Page!ReleasedMic
    <3>3. InFlight'
      BY <1>1, <2>1 DEF Page!Connect, Page!Cleanup, Page!Teardown, Page!Await, Page!CleansUp,
         Page!RetireGeneration, Page!Silenced, Page!Untorn, Page!ReleasedMic
    <3>4. OwnClient'
      BY Zenon, <1>1, <2>1 DEF Page!Connect, Page!Cleanup, Page!Teardown, Page!Await, Page!CleansUp,
         Page!RetireGeneration, Page!Silenced, Page!Untorn, Page!ReleasedMic
    <3>5. EveryClient'
      BY <1>1, <2>1 DEF Page!Connect, Page!Cleanup, Page!Teardown, Page!Await, Page!CleansUp,
         Page!RetireGeneration, Page!Silenced, Page!Untorn, Page!ReleasedMic
    <3> QED
      BY Zenon, <3>1, <3>2, <3>3, <3>4, <3>5
  <2>2. CASE ~listening
    <3>1. Page!TypeOK'
      <4>1. generation' \in 0..MaxGeneration /\ current' = generation' /\ calls' \in 0..MaxCalls
           /\ client' \in 0..MaxGeneration /\ mine' \in 0..MaxGeneration
        BY <1>1, <2>2 DEF Page!Connect, Page!Begin, Page!page, Page!clients
      <4>2. listening' \in BOOLEAN /\ shown' \in BOOLEAN /\ mic' \in BOOLEAN
        BY Zenon, <1>1, <2>2 DEF Page!Connect, Page!Begin, Page!page, Page!clients
      <4>3. promise' \in {"idle", "disconnecting", "discovering", "init", "connecting", "leaving", "failing"}
           /\ awaits' \in 0..MaxGeneration /\ playing' \in 0..MaxGeneration
        BY SMTT(30), <1>1, <2>2 DEF Page!Connect, Page!Begin, Page!page, Page!clients
      <4>4. status' \in [Page!Generations -> {"none", "init", "connecting", "open", "closed"}]
        BY Zenon, <1>1, <2>2 DEF Page!Connect, Page!Begin, Page!page, Page!clients
      <4>5. capturing' \subseteq Page!Generations /\ torn' \subseteq Page!Generations
           /\ stranded' \subseteq Page!Generations
        BY Zenon, <1>1, <2>2 DEF Page!Connect, Page!Begin, Page!page, Page!clients
      <4> QED
        BY Zenon, <4>1, <4>2, <4>3, <4>4, <4>5
    <3>2. ShownIsCurrent'
      BY SMTT(30), <1>1, <2>2 DEF Page!Connect, Page!Begin, Page!page, Page!clients
    <3>3. InFlight'
      BY <1>1, <2>2 DEF Page!Connect, Page!Begin, Page!page, Page!clients
    <3>4. OwnClient'
      BY <1>1, <2>2 DEF Page!Connect, Page!Begin, Page!page, Page!clients
    <3>5. EveryClient'
      <4>1. \A g \in Page!Generations : g > mine' => status'[g] = "none" /\ g \notin torn'
        BY SMTT(30), <1>1, <2>2 DEF Page!Connect, Page!Begin, Page!page, Page!clients
      <4>2. \A g \in Page!Generations : g = current' /\ status'[g] \in {"connecting", "open"} =>
              (listening' /\ client' = g) \/ g \in stranded'
        BY SMTT(30), <1>1, <2>2 DEF Page!Connect, Page!Begin, Page!page, Page!clients
      <4>3. \A g \in stranded' : status'[g] \in {"connecting", "open", "closed"}
        BY Zenon, <1>1, <2>2 DEF Page!Connect, Page!Begin, Page!page, Page!clients
      <4>4. playing' # 0 => status'[playing'] \in {"connecting", "open", "closed"}
        BY SMTT(30), <1>1, <2>2 DEF Page!Connect, Page!Begin, Page!page, Page!clients
      <4> QED
        BY Zenon, <4>1, <4>2, <4>3, <4>4
    <3> QED
      BY Zenon, <3>1, <3>2, <3>3, <3>4, <3>5
  <2> QED
    BY Zenon, <2>1, <2>2
<1>2. CASE Page!Disconnected
  BY <1>2 DEF Page!Disconnected, Page!Begin, Page!page, Page!clients
<1>3. CASE Page!Discovered
  BY <1>3 DEF Page!Discovered, Page!guards, Page!page
<1>4. CASE Page!DiscoveryFails
  BY Zenon, <1>4 DEF Page!DiscoveryFails, Page!clients
<1>5. CASE Page!InitReturns
  <2>1. Page!TypeOK'
    BY <1>5 DEF Page!InitReturns, Page!guards, Page!page
  <2>2. ShownIsCurrent'
    BY SMTT(30), <1>5 DEF Page!InitReturns, Page!guards, Page!page
  <2>3. InFlight'
    BY Zenon, <1>5 DEF Page!InitReturns, Page!guards, Page!page
  <2>4. OwnClient'
    BY SMTT(30), <1>5 DEF Page!InitReturns, Page!guards, Page!page
  <2>5. EveryClient'
    <3>1. \A g \in Page!Generations : g # mine => status'[g] = status[g]
      BY Zenon, <1>5 DEF Page!InitReturns
    <3>2. mine \in Page!Generations /\ status'[mine] = "connecting" /\ client = mine
      BY <1>5 DEF Page!InitReturns
    <3>3. mine = current => listening
      BY Zenon, <1>5 DEF Page!InitReturns
    <3>4. playing # mine
      BY <1>5 DEF Page!InitReturns
    <3> QED
      BY SMTT(30), <1>5, <3>1, <3>2, <3>3, <3>4 DEF Page!InitReturns, Page!guards, Page!page
  <2> QED
    BY Zenon, <2>1, <2>2, <2>3, <2>4, <2>5
<1>6. CASE Page!ConnectResolves
  <2>1. Page!TypeOK'
    <3>1. generation' \in 0..MaxGeneration /\ current' = generation' /\ calls' \in 0..MaxCalls
           /\ client' \in 0..MaxGeneration /\ mine' \in 0..MaxGeneration
      BY Zenon, <1>6 DEF Page!ConnectResolves, Page!Overtaken, Page!Teardown, Page!Await, Page!Untorn, Page!ReleasedMic,
         Page!guards, Page!page, Page!clients
    <3>2. listening' \in BOOLEAN /\ shown' \in BOOLEAN /\ mic' \in BOOLEAN
      <4>1. listening' = listening
        BY Zenon, <1>6 DEF Page!ConnectResolves, Page!guards
      <4>2. CASE Page!Overtaken
        BY Zenon, <1>6, <4>1, <4>2 DEF Page!ConnectResolves, Page!page
      <4>3. CASE ~Page!Overtaken
        <5>1. shown' = TRUE /\ mic' = (client \in capturing)
          BY Zenon, <1>6, <4>3 DEF Page!ConnectResolves
        <5> QED
          BY Zenon, <4>1, <5>1, IsTruth
      <4> QED
        BY Zenon, <4>2, <4>3
    <3>3. promise' \in {"idle", "disconnecting", "discovering", "init", "connecting", "leaving", "failing"}
           /\ awaits' \in 0..MaxGeneration /\ playing' \in 0..MaxGeneration
      BY SMTT(30), <1>6 DEF Page!ConnectResolves, Page!Overtaken, Page!Teardown, Page!Await, Page!Untorn, Page!ReleasedMic,
         Page!guards, Page!page, Page!clients
    <3>4. status' \in [Page!Generations -> {"none", "init", "connecting", "open", "closed"}]
      BY Zenon, <1>6 DEF Page!ConnectResolves, Page!Overtaken, Page!Teardown, Page!Await, Page!Untorn, Page!ReleasedMic,
         Page!guards, Page!page, Page!clients
    <3>5. capturing' \subseteq Page!Generations /\ torn' \subseteq Page!Generations
           /\ stranded' \subseteq Page!Generations
      BY Zenon, Untorn, <1>6 DEF Page!ConnectResolves, Page!Overtaken, Page!Teardown, Page!Await, Page!ReleasedMic,
         Page!guards, Page!page, Page!clients
    <3> QED
      BY Zenon, <3>1, <3>2, <3>3, <3>4, <3>5
  <2>2. ShownIsCurrent'
    BY SMTT(30), <1>6 DEF Page!ConnectResolves, Page!Overtaken, Page!Teardown, Page!Await, Page!Untorn, Page!ReleasedMic,
       Page!guards, Page!page, Page!clients
  <2>3. InFlight'
    BY Zenon, <1>6 DEF Page!ConnectResolves, Page!Overtaken, Page!Teardown, Page!Await, Page!Untorn, Page!ReleasedMic,
       Page!guards, Page!page, Page!clients
  <2>4. OwnClient'
    BY Zenon, <1>6 DEF Page!ConnectResolves, Page!Overtaken, Page!Teardown, Page!Await, Page!Untorn, Page!ReleasedMic,
       Page!guards, Page!page, Page!clients
  <2>5. EveryClient'
    BY Zenon, <1>6 DEF Page!ConnectResolves, Page!Overtaken, Page!Teardown, Page!Await, Page!Untorn, Page!ReleasedMic,
       Page!guards, Page!page, Page!clients
  <2> QED
    BY Zenon, <2>1, <2>2, <2>3, <2>4, <2>5
<1>7. CASE Page!ConnectLeft
  BY <1>7 DEF Page!ConnectLeft, Page!guards, Page!page, Page!clients
<1>8. CASE Page!ConnectRejects
  BY <1>8 DEF Page!ConnectRejects, Page!Teardown, Page!Await, Page!Untorn, Page!ReleasedMic,
     Page!guards, Page!page
<1>9. CASE Page!ConnectFailed
  <2>1. Page!TypeOK'
    <3>1. listening' \in BOOLEAN /\ shown' \in BOOLEAN /\ mic' \in BOOLEAN
      BY Zenon, <1>9 DEF Page!ConnectFailed
    <3>2. client' \in 0..MaxGeneration /\ awaits' \in 0..MaxGeneration
      BY SMTT(30), <1>9 DEF Page!ConnectFailed
    <3>3. stranded' \subseteq Page!Generations
      <4>1. mine \in Page!Generations
        BY SMTT(30), <1>9 DEF Page!ConnectFailed
      <4> QED
        BY Zenon, <1>9, <4>1 DEF Page!ConnectFailed
    <3>4. promise' = "idle"
      BY Zenon, <1>9 DEF Page!ConnectFailed
    <3> QED
      BY Zenon, <1>9, <3>1, <3>2, <3>3, <3>4 DEF Page!ConnectFailed, Page!clients
  <2>2. ShownIsCurrent'
    BY Zenon, <1>9 DEF Page!ConnectFailed, Page!Awaited, Page!clients
  <2>3. InFlight'
    BY <1>9 DEF Page!ConnectFailed, Page!Awaited, Page!clients
  <2>4. OwnClient'
    BY Zenon, <1>9 DEF Page!ConnectFailed, Page!Awaited, Page!clients
  <2>5. EveryClient'
    BY Zenon, <1>9 DEF Page!ConnectFailed, Page!Awaited, Page!clients
  <2> QED
    BY Zenon, <2>1, <2>2, <2>3, <2>4, <2>5
<1>10. CASE Page!Disconnect /\ calls' \in 0..MaxCalls
  <2>1. Page!TypeOK'
    <3>1. generation' \in 0..MaxGeneration /\ current' = generation' /\ calls' \in 0..MaxCalls
           /\ client' \in 0..MaxGeneration /\ mine' \in 0..MaxGeneration
      BY <1>10 DEF Page!Disconnect, Page!Cleanup, Page!Teardown, Page!CleansUp,
         Page!RetireGeneration, Page!Silenced, Page!Untorn, Page!ReleasedMic, Page!flight, Page!page
    <3>2. listening' \in BOOLEAN /\ shown' \in BOOLEAN /\ mic' \in BOOLEAN
      BY Zenon, <1>10 DEF Page!Disconnect, Page!Cleanup, Page!Teardown, Page!CleansUp,
         Page!RetireGeneration, Page!Silenced, Page!Untorn, Page!ReleasedMic, Page!flight, Page!page
    <3>3. promise' \in {"idle", "disconnecting", "discovering", "init", "connecting", "leaving", "failing"}
           /\ awaits' \in 0..MaxGeneration /\ playing' \in 0..MaxGeneration
      BY <1>10 DEF Page!Disconnect, Page!Cleanup, Page!Teardown, Page!CleansUp,
         Page!RetireGeneration, Page!Silenced, Page!Untorn, Page!ReleasedMic, Page!flight, Page!page
    <3>4. status' \in [Page!Generations -> {"none", "init", "connecting", "open", "closed"}]
      BY Zenon, <1>10 DEF Page!Disconnect, Page!Cleanup, Page!Teardown, Page!CleansUp,
         Page!RetireGeneration, Page!Silenced, Page!Untorn, Page!ReleasedMic, Page!flight, Page!page
    <3>5. capturing' \subseteq Page!Generations /\ torn' \subseteq Page!Generations
           /\ stranded' \subseteq Page!Generations
      <4>1. capturing' \subseteq Page!Generations /\ torn' \subseteq Page!Generations
        BY SMTT(30), <1>10 DEF Page!Disconnect, Page!Teardown, Page!Untorn, Page!Cleanup, Page!CleansUp,
         Page!RetireGeneration, Page!Silenced, Page!ReleasedMic, Page!flight, Page!page
      <4>2. stranded' \subseteq Page!Generations
        BY Zenon, <1>10 DEF Page!Disconnect, Page!Teardown, Page!Untorn, Page!Cleanup, Page!CleansUp,
         Page!RetireGeneration, Page!Silenced, Page!ReleasedMic, Page!flight, Page!page
      <4> QED
        BY Zenon, <4>1, <4>2
    <3> QED
      BY Zenon, <3>1, <3>2, <3>3, <3>4, <3>5
  <2>2. ShownIsCurrent'
    BY SMTT(30), <1>10 DEF Page!Disconnect, Page!Cleanup, Page!Teardown, Page!CleansUp,
       Page!RetireGeneration, Page!Silenced, Page!Untorn, Page!ReleasedMic, Page!flight, Page!page
  <2>3. InFlight'
    BY <1>10 DEF Page!Disconnect, Page!Cleanup, Page!Teardown, Page!CleansUp,
       Page!RetireGeneration, Page!Silenced, Page!Untorn, Page!ReleasedMic, Page!flight, Page!page
  <2>4. OwnClient'
    BY <1>10 DEF Page!Disconnect, Page!Cleanup, Page!Teardown, Page!CleansUp,
       Page!RetireGeneration, Page!Silenced, Page!Untorn, Page!ReleasedMic, Page!flight, Page!page
  <2>5. EveryClient'
    <3>1. \A g \in Page!Generations : g > mine' => status'[g] = "none" /\ g \notin torn'
      BY SMTT(30), <1>10 DEF Page!Disconnect, Page!Teardown, Page!Untorn, Page!Cleanup, Page!CleansUp,
         Page!RetireGeneration, Page!Silenced, Page!ReleasedMic, Page!flight, Page!page
    <3>2. \A g \in Page!Generations : g = current' /\ status'[g] \in {"connecting", "open"} =>
            (listening' /\ client' = g) \/ g \in stranded'
      BY SMTT(30), <1>10 DEF Page!Disconnect, Page!Teardown, Page!Untorn, Page!Cleanup, Page!CleansUp,
         Page!RetireGeneration, Page!Silenced, Page!ReleasedMic, Page!flight, Page!page
    <3>3. \A g \in stranded' : status'[g] \in {"connecting", "open", "closed"}
      BY Zenon, <1>10 DEF Page!Disconnect, Page!Teardown, Page!Untorn, Page!Cleanup, Page!CleansUp,
         Page!RetireGeneration, Page!Silenced, Page!ReleasedMic, Page!flight, Page!page
    <3>4. playing' # 0 => status'[playing'] \in {"connecting", "open", "closed"}
      BY SMTT(30), <1>10 DEF Page!Disconnect, Page!Teardown, Page!Untorn, Page!Cleanup, Page!CleansUp,
         Page!RetireGeneration, Page!Silenced, Page!ReleasedMic, Page!flight, Page!page
    <3> QED
      BY Zenon, <3>1, <3>2, <3>3, <3>4
  <2> QED
    BY Zenon, <2>1, <2>2, <2>3, <2>4, <2>5
<1>11. CASE Page!ToggleMic
  BY <1>11 DEF Page!ToggleMic, Page!guards, Page!flight
<1>12. ASSUME NEW g \in Page!Generations, Page!ClientConnected(g) PROVE  PageInv'
  BY <1>12 DEF Page!ClientConnected, Page!guards, Page!flight
<1>13. ASSUME NEW g \in Page!Generations, Page!ClientDrops(g) PROVE  PageInv'
  <2>1. Page!TypeOK'
    <3>1. generation' \in 0..MaxGeneration /\ current' = generation' /\ calls' \in 0..MaxCalls
           /\ client' \in 0..MaxGeneration /\ mine' \in 0..MaxGeneration
      BY <1>13 DEF Page!ClientDrops, Page!Cleanup, Page!CleansUp,
         Page!RetireGeneration, Page!Silenced, Page!ReleasedMic, Page!flight, Page!page
    <3>2. listening' \in BOOLEAN /\ shown' \in BOOLEAN /\ mic' \in BOOLEAN
      BY Zenon, <1>13 DEF Page!ClientDrops, Page!Cleanup, Page!CleansUp,
         Page!RetireGeneration, Page!Silenced, Page!ReleasedMic, Page!flight, Page!page
    <3>3. promise' \in {"idle", "disconnecting", "discovering", "init", "connecting", "leaving", "failing"}
           /\ awaits' \in 0..MaxGeneration /\ playing' \in 0..MaxGeneration
      BY <1>13 DEF Page!ClientDrops, Page!Cleanup, Page!CleansUp,
         Page!RetireGeneration, Page!Silenced, Page!ReleasedMic, Page!flight, Page!page
    <3>4. status' \in [Page!Generations -> {"none", "init", "connecting", "open", "closed"}]
      BY Zenon, <1>13 DEF Page!ClientDrops, Page!Cleanup, Page!CleansUp,
         Page!RetireGeneration, Page!Silenced, Page!ReleasedMic, Page!flight, Page!page
    <3>5. capturing' \subseteq Page!Generations /\ torn' \subseteq Page!Generations
           /\ stranded' \subseteq Page!Generations
      BY Zenon, <1>13 DEF Page!ClientDrops, Page!Cleanup, Page!CleansUp,
         Page!RetireGeneration, Page!Silenced, Page!ReleasedMic, Page!flight, Page!page
    <3> QED
      BY Zenon, <3>1, <3>2, <3>3, <3>4, <3>5
  <2>2. ShownIsCurrent'
    BY <1>13 DEF Page!ClientDrops, Page!Cleanup, Page!CleansUp,
       Page!RetireGeneration, Page!Silenced, Page!ReleasedMic, Page!flight, Page!page
  <2>3. InFlight'
    BY <1>13 DEF Page!ClientDrops, Page!Cleanup, Page!CleansUp,
       Page!RetireGeneration, Page!Silenced, Page!ReleasedMic, Page!flight, Page!page
  <2>4. OwnClient'
    BY <1>13 DEF Page!ClientDrops, Page!Cleanup, Page!CleansUp,
       Page!RetireGeneration, Page!Silenced, Page!ReleasedMic, Page!flight, Page!page
  <2>5. EveryClient'
    <3>1. \A h \in Page!Generations : h > mine' => status'[h] = "none" /\ h \notin torn'
      BY SMTT(30), <1>13 DEF Page!ClientDrops, Page!Cleanup, Page!CleansUp,
         Page!RetireGeneration, Page!Silenced, Page!ReleasedMic, Page!flight, Page!page
    <3>2. \A h \in Page!Generations : h = current' /\ status'[h] \in {"connecting", "open"} =>
            (listening' /\ client' = h) \/ h \in stranded'
      BY SMTT(30), <1>13 DEF Page!ClientDrops, Page!Cleanup, Page!CleansUp,
         Page!RetireGeneration, Page!Silenced, Page!ReleasedMic, Page!flight, Page!page
    <3>3. \A h \in stranded' : status'[h] \in {"connecting", "open", "closed"}
      BY ZenonT(60), <1>13 DEF Page!ClientDrops, Page!Cleanup, Page!CleansUp,
         Page!RetireGeneration, Page!Silenced, Page!ReleasedMic, Page!flight, Page!page
    <3>4. playing' # 0 => status'[playing'] \in {"connecting", "open", "closed"}
      BY SMTT(30), <1>13 DEF Page!ClientDrops, Page!Cleanup, Page!CleansUp,
         Page!RetireGeneration, Page!Silenced, Page!ReleasedMic, Page!flight, Page!page
    <3> QED
      BY Zenon, <3>1, <3>2, <3>3, <3>4
  <2> QED
    BY Zenon, <2>1, <2>2, <2>3, <2>4, <2>5
<1>14. ASSUME NEW g \in Page!Generations, Page!TrackStarts(g) PROVE  PageInv'
  BY Zenon, <1>14 DEF Page!TrackStarts, Page!guards, Page!flight, Page!clients
<1>18. ASSUME NEW g \in Page!Generations, Page!TrackStops(g) PROVE  PageInv'
  BY SMTT(30), <1>18 DEF Page!TrackStops, Page!Silenced, Page!guards, Page!flight, Page!clients
<1>19. ASSUME NEW g \in Page!Generations, Page!ClosesUnreported(g) PROVE  PageInv'
  BY <1>19 DEF Page!ClosesUnreported, Page!guards, Page!flight, Page!page
<1>20. CASE Page!DisconnectRejects
  BY SMTT(30), <1>20 DEF Page!DisconnectRejects, Page!guards, Page!page, Page!clients
<1>16. CASE Page!ClickDisconnect
  BY Zenon, <1>10, <1>16 DEF Page!ClickDisconnect
<1>17. CASE Page!CallDisconnect
  BY <1>10, <1>17 DEF Page!CallDisconnect
<1>15. CASE UNCHANGED Page!vars
  BY Zenon, <1>15 DEF Page!vars, Page!guards, Page!flight, Page!page, Page!clients
<1> QED
  BY Zenon, <1>1, <1>2, <1>3, <1>4, <1>5, <1>6, <1>7, <1>8, <1>9, <1>10, <1>11, <1>12, <1>13, <1>14, <1>15, <1>16, <1>17,
     <1>18, <1>19, <1>20
  DEF Page!Next, Page!ConnectStep

\* A step of the host or of the barrier leaves the page alone.
LEMMA PageKept ==
  ASSUME PageInv, [ConnectionNext]_allVars
  PROVE  PageInv'
<1>1. CASE Page!Next
  BY Zenon, <1>1, PageStep
<1>2. CASE UNCHANGED pageVars
  <2>1. UNCHANGED Page!vars
    BY Zenon, <1>2 DEF pageVars, Page!vars, Page!guards, Page!flight, Page!page, Page!clients
  <2> QED
    BY Zenon, <2>1, PageStep
<1> QED
  BY Zenon, <1>1, <1>2 DEF ConnectionNext, allVars

\* ShownIsCurrent, for every number of connections and calls: what the page shows
\* and plays is the client's it listens to and that is connected, also when a
\* disconnect() rejects, except where a failed connect() could not disconnect its
\* own client (createApp in web/src/app.js).
THEOREM ShownIsCurrentAlways == ConnectionSpec => []ShownIsCurrent
<1>1. ConnectionInit => PageInv
  BY Zenon, PageInit DEF ConnectionInit
<1>2. PageInv /\ [ConnectionNext]_allVars => PageInv'
  BY Zenon, PageKept
<1>3. PageInv => ShownIsCurrent
  BY Zenon DEF PageInv
<1> QED
  BY <1>1, <1>2, <1>3, PTL DEF ConnectionSpec
=============================================================================
