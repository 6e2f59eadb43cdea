------------------------ MODULE LicenseSessionProofs ------------------------
(***************************************************************************)
(* Proofs about LicenseSession for any accounts, tokens and grace. The     *)
(* inductive invariant has one part for the service, one for the session   *)
(* and one for the calls in flight; what acceptLicense, lock, the offline  *)
(* branch and a new validation do is stated once and used for each answer  *)
(* that leads there.                                                       *)
(***************************************************************************)
EXTENDS LicenseSession, TLAPS

ServiceOK ==
  /\ minted \subseteq Tokens /\ live \subseteq minted /\ mustReset \subseteq Accounts
  /\ restarts \in 0 .. MaxRestarts

\* No validation time, in memory or on disk, is later than the last answer.
SessionOK ==
  /\ token \in Tokens \cup {None} /\ account \in Accounts \cup {None}
  /\ ok \in BOOLEAN /\ age \in Ages /\ pendingReset \in Accounts \cup {None}
  /\ stored \in BOOLEAN /\ file \in Saved \cup {None}
  /\ tasks \in BOOLEAN /\ lastAnswer \in Ages
  /\ StoredMatchesFile
  /\ lastAnswer <= age /\ (file # None => lastAnswer <= file.age)

\* A call that is answered for the account of its token has one; what validate read
\* before its call is no later than the last answer.
RequestsOK ==
  /\ requests \in [Kinds -> Request \cup {None}]
  /\ \A k \in {"validate", "mode"} : requests[k] # None => requests[k].token \in Tokens
  /\ requests["validate"] # None => lastAnswer <= requests["validate"].saved

IInv == ServiceOK /\ SessionOK /\ RequestsOK

-----------------------------------------------------------------------------
(* Ages and requests *)

LEMMA OldIsLast == Grace \in Nat /\ Old \in Nat /\ 0 \in Ages /\ Old \in Ages /\ Ages \subseteq Nat
BY GraceAssumption DEF Old, Ages

LEMMA OlderIsMonotone ==
  ASSUME NEW a \in Ages, NEW b \in Ages, a <= b
  PROVE  Older(a) \in Ages /\ Older(b) \in Ages /\ Older(a) <= Older(b)
BY GraceAssumption DEF Old, Ages, Older, Least

LEMMA CallIsRequest ==
  ASSUME NEW t \in Tokens \cup {None}, NEW a \in Accounts \cup {None}, NEW s \in Ages
  PROVE  Call(t, a, s) \in Request /\ Call(t, a, s).token = t /\ Call(t, a, s).saved = s
BY DEF Call, Request

\* Dropping a call keeps the others, as long as the last answer gets no older.
LEMMA WithoutKeeps ==
  ASSUME RequestsOK, NEW k \in Kinds, requests' = Without(k), SessionOK,
         lastAnswer' \in {0, lastAnswer}
  PROVE  RequestsOK'
<1>1. requests' \in [Kinds -> Request \cup {None}]
  BY DEF RequestsOK, Without
<1>2. \A j \in Kinds : requests'[j] # None => requests'[j] = requests[j]
  BY DEF RequestsOK, Without
<1>3. \A j \in {"validate", "mode"} : requests'[j] # None => requests'[j].token \in Tokens
  BY <1>2 DEF RequestsOK, Kinds
<1>4. requests'["validate"] # None => lastAnswer' <= requests'["validate"].saved
  <2>. SUFFICES ASSUME requests'["validate"] # None
                PROVE  lastAnswer' <= requests'["validate"].saved
    OBVIOUS
  <2>1. requests'["validate"] = requests["validate"] /\ requests["validate"] \in Request
    BY <1>2 DEF RequestsOK, Kinds
  <2>2. requests["validate"].saved \in Ages /\ lastAnswer <= requests["validate"].saved
    BY <2>1 DEF RequestsOK, Request
  <2>3. lastAnswer \in Nat /\ requests["validate"].saved \in Nat
    BY <2>2, OldIsLast DEF SessionOK
  <2>. QED
    BY <2>1, <2>2, <2>3
<1>. QED
  BY <1>1, <1>3, <1>4 DEF RequestsOK

\* Sending a call, with a token where one is needed.
LEMMA SendKeeps ==
  ASSUME RequestsOK, SessionOK, NEW k \in Kinds, NEW t \in Tokens \cup {None},
         NEW a \in Accounts \cup {None}, NEW s \in Ages,
         k \in {"validate", "mode"} => t \in Tokens,
         k = "validate" => lastAnswer <= s,
         NEW j \in Kinds,
         \/ requests' = [requests EXCEPT ![k] = Call(t, a, s)]
         \/ requests' = [Without(j) EXCEPT ![k] = Call(t, a, s)],
         UNCHANGED lastAnswer
  PROVE  RequestsOK'
<1>1. Call(t, a, s) \in Request /\ Call(t, a, s).token = t /\ Call(t, a, s).saved = s
  BY CallIsRequest
<1>2. requests' \in [Kinds -> Request \cup {None}]
  BY <1>1 DEF RequestsOK, Without
<1>3. requests'[k] = Call(t, a, s)
  BY DEF RequestsOK, Without
<1>4. \A i \in Kinds \ {k} : requests'[i] # None => requests'[i] = requests[i]
  BY DEF RequestsOK, Without
<1>5. \A i \in {"validate", "mode"} : requests'[i] # None => requests'[i].token \in Tokens
  BY <1>1, <1>3, <1>4 DEF RequestsOK, Kinds
<1>6. requests'["validate"] # None => lastAnswer' <= requests'["validate"].saved
  BY <1>1, <1>3, <1>4 DEF RequestsOK, Kinds
<1>. QED
  BY <1>2, <1>5, <1>6 DEF RequestsOK

-----------------------------------------------------------------------------
(* What an answer does to the session *)

LEMMA AcceptKeeps ==
  ASSUME SessionOK, NEW a \in Accounts \cup {None}, NEW t \in Tokens \cup {None},
         AcceptLicense(a, t)
  PROVE  SessionOK' /\ lastAnswer' = 0
<1>1. /\ token' \in Tokens \cup {None} /\ account' \in Accounts \cup {None}
      /\ ok' \in BOOLEAN /\ pendingReset' \in Accounts \cup {None} /\ tasks' \in BOOLEAN
      /\ age' = 0 /\ lastAnswer' = 0 /\ 0 \in Ages /\ 0 <= 0
  BY OldIsLast DEF AcceptLicense, SessionOK
<1>2. CASE t # None /\ file' = [token |-> t, account |-> a, age |-> 0] /\ stored' = TRUE
  <2>1. t \in Tokens
    BY <1>2
  <2>2. [token |-> t, account |-> a, age |-> 0] \in Saved
    BY <1>1, <2>1 DEF Saved
  <2>3. file' \in Saved /\ file'.age = 0 /\ stored' \in BOOLEAN
    BY <1>2, <2>2
  <2>4. StoredMatchesFile'
    BY <1>2 DEF AcceptLicense, StoredMatchesFile
  <2>5. /\ lastAnswer' <= age' /\ lastAnswer' <= file'.age
        /\ age' \in Ages /\ lastAnswer' \in Ages /\ file' \in Saved \cup {None}
    BY <1>1, <2>3
  <2>. QED
    BY <1>1, <2>3, <2>4, <2>5 DEF SessionOK
<1>3. CASE file' = file /\ stored' = FALSE
  <2>1. file # None => 0 <= file.age
    <3>. SUFFICES ASSUME file # None PROVE 0 <= file.age
      OBVIOUS
    <3>1. file.age \in Ages
      BY DEF SessionOK, Saved
    <3>. QED
      BY <3>1, GraceAssumption DEF Ages, Old
  <2>2. StoredMatchesFile'
    BY <1>3 DEF StoredMatchesFile
  <2>3. file' \in Saved \cup {None}
    BY <1>3 DEF SessionOK
  <2>. QED
    BY <1>1, <1>3, <2>1, <2>2, <2>3 DEF SessionOK
<1>. QED
  BY <1>2, <1>3 DEF AcceptLicense, SaveSession

LEMMA LockKeeps ==
  ASSUME SessionOK, NEW clear \in BOOLEAN, NEW stop \in BOOLEAN, Lock(clear, stop)
  PROVE  SessionOK' /\ lastAnswer' = lastAnswer /\ ok' = FALSE
<1>1. tasks' \in BOOLEAN /\ ok' \in BOOLEAN /\ pendingReset' \in Accounts \cup {None}
  BY DEF Lock, SessionOK
<1>2. CASE clear
  <2>1. lastAnswer <= Old
    BY OldIsLast DEF SessionOK, Ages
  <2>. QED
    BY <1>1, <1>2, <2>1, OldIsLast DEF Lock, SessionOK, StoredMatchesFile
<1>3. CASE ~clear
  BY <1>1, <1>3 DEF Lock, SessionOK, StoredMatchesFile
<1>. QED
  BY <1>2, <1>3

LEMMA UnavailableKeeps ==
  ASSUME SessionOK, NEW saved \in Ages, lastAnswer <= saved, Unavailable(saved)
  PROVE  SessionOK' /\ lastAnswer' = lastAnswer /\ (ok' => lastAnswer' <= Grace)
<1>1. CASE Least(saved, age) <= Grace
  <2>1. lastAnswer <= Least(saved, age)
    BY OldIsLast DEF Least, SessionOK
  <2>2. lastAnswer <= Grace
    BY <1>1, <2>1, OldIsLast DEF Least, SessionOK
  <2>. QED
    BY <1>1, <2>2 DEF Unavailable, SessionOK, StoredMatchesFile
<1>2. CASE ~(Least(saved, age) <= Grace)
  BY <1>2, LockKeeps DEF Unavailable
<1>. QED
  BY <1>1, <1>2

LEMMA SameSession ==
  ASSUME SessionOK, UNCHANGED <<session, tasks, lastAnswer>>
  PROVE  SessionOK'
BY DEF SessionOK, StoredMatchesFile, session

LEMMA ValidateKeeps ==
  ASSUME SessionOK, RequestsOK, NEW k \in Kinds, Validate(k)
  PROVE  SessionOK' /\ RequestsOK'
<1>1. CASE requests["validate"] # None
  <2>1. requests' = Without(k) /\ UNCHANGED <<session, tasks, lastAnswer>>
    BY <1>1 DEF Validate
  <2>. QED
    BY <2>1, SameSession, WithoutKeeps
<1>2. CASE requests["validate"] = None /\ token = None
  <2>1. requests' = Without(k) /\ Lock(FALSE, FALSE)
    BY <1>2 DEF Validate
  <2>. QED
    BY <2>1, LockKeeps, WithoutKeeps
<1>3. CASE requests["validate"] = None /\ token # None
  <2>1. /\ requests' = [Without(k) EXCEPT !["validate"] = Call(token, None, age)]
        /\ UNCHANGED <<session, tasks, lastAnswer>>
    BY <1>3 DEF Validate
  <2>2. token \in Tokens /\ age \in Ages /\ lastAnswer <= age /\ "validate" \in Kinds
    BY <1>3 DEF SessionOK, Kinds
  <2>3. RequestsOK'
    BY <2>1, <2>2, SendKeeps
  <2>. QED
    BY <2>1, <2>3, SameSession
<1>. QED
  BY <1>1, <1>2, <1>3

-----------------------------------------------------------------------------
(* The inductive invariant *)

LEMMA InitInv == Init => IInv
<1>. SUFFICES ASSUME Init PROVE IInv
  OBVIOUS
<1>1. ServiceOK
  BY BoundAssumption DEF Init, ServiceOK
<1>2. SessionOK
  <2>1. Old <= Old
    BY OldIsLast
  <2>. QED
    BY <2>1, OldIsLast DEF Init, SessionOK, StoredMatchesFile
<1>3. RequestsOK
  BY DEF Init, RequestsOK, Kinds
<1>. QED
  BY <1>1, <1>2, <1>3 DEF IInv

\* Minting keeps the accepted tokens among those handed out.
LEMMA MintKeeps ==
  ASSUME ServiceOK, NEW a, NEW t \in Tokens, Mint(a, t)
  PROVE  minted' \subseteq Tokens /\ live' \subseteq minted'
BY DEF ServiceOK, Mint

LEMMA ServeKeeps ==
  ASSUME IInv, NEW k \in Kinds, Serve(k)
  PROVE  IInv'
<1>. DEFINE r == requests[k]
<1>1. r \in Request /\ requests \in [Kinds -> Request \cup {None}]
  BY DEF Serve, IInv, RequestsOK
<1>2. SessionOK'
  BY SameSession DEF Serve, IInv
<1>3. ASSUME NEW t \in Tokens \cup {None}, NEW answer \in {"ok", "rejected", "reset"},
             Reply(k, t, answer), k \in {"validate", "mode"} => t = r.token,
             UNCHANGED lastAnswer
      PROVE  RequestsOK'
  <2>1. requests' = [requests EXCEPT ![k] = [r EXCEPT !.token = t, !.answer = answer]]
    BY <1>1, <1>3 DEF Reply, Request
  <2>2. /\ [r EXCEPT !.token = t, !.answer = answer] \in Request
        /\ [r EXCEPT !.token = t, !.answer = answer].token = t
        /\ [r EXCEPT !.token = t, !.answer = answer].saved = r.saved
    BY <1>1 DEF Request
  <2>3. requests' \in [Kinds -> Request \cup {None}]
    BY <1>1, <2>1, <2>2
  <2>4. \A j \in Kinds \ {k} : requests'[j] = requests[j]
    BY <1>1, <2>1
  <2>5. requests'[k].token = t /\ requests'[k].saved = r.saved
    BY <1>1, <2>1, <2>2
  <2>6. r # None
    BY DEF Serve
  <2>7. \A j \in {"validate", "mode"} : requests'[j] # None => requests'[j].token \in Tokens
    BY <1>3, <2>4, <2>5, <2>6 DEF IInv, RequestsOK, Kinds
  <2>8. requests'["validate"] # None => lastAnswer' <= requests'["validate"].saved
    BY <1>3, <2>4, <2>5, <2>6 DEF IInv, RequestsOK, Kinds
  <2>. QED
    BY <2>3, <2>7, <2>8 DEF RequestsOK
<1>4. UNCHANGED <<lastAnswer, restarts>> /\ r.token \in Tokens \cup {None}
  BY <1>1 DEF Serve, Request
<1>5. CASE k \in {"validate", "mode", "use"} /\ UNCHANGED service
             /\ Reply(k, r.token, IF r.token \in live THEN "ok" ELSE "rejected")
  <2>1. RequestsOK'
    BY <1>3, <1>4, <1>5
  <2>. QED
    BY <1>2, <1>4, <1>5, <2>1 DEF IInv, ServiceOK, service
<1>6. CASE \E t \in Tokens : Mint(r.account, t) /\ Reply(k, t, "ok")
                              /\ k \in {"login", "reset"}
                              /\ mustReset' \in {mustReset, mustReset \ {r.account}}
  <2>1. PICK t \in Tokens : Mint(r.account, t) /\ Reply(k, t, "ok")
                              /\ k \in {"login", "reset"}
                              /\ mustReset' \in {mustReset, mustReset \ {r.account}}
    BY <1>6
  <2>2. RequestsOK'
    BY <1>3, <1>4, <2>1
  <2>3. ServiceOK'
    BY <1>4, <2>1, MintKeeps DEF IInv, ServiceOK
  <2>. QED
    BY <1>2, <2>2, <2>3 DEF IInv
<1>7. CASE /\ k \in {"login", "reset"} /\ UNCHANGED service
           /\ \E answer \in {"reset", "rejected"} : Reply(k, None, answer)
  <2>1. RequestsOK'
    BY <1>3, <1>4, <1>7
  <2>. QED
    BY <1>2, <1>4, <1>7, <2>1 DEF IInv, ServiceOK, service
<1>8. CASE /\ k = "logout" /\ live' = live \ {r.token} /\ Reply(k, r.token, "ok")
           /\ UNCHANGED <<minted, mustReset>>
  <2>1. RequestsOK'
    BY <1>3, <1>4, <1>8
  <2>. QED
    BY <1>2, <1>4, <1>8, <2>1 DEF IInv, ServiceOK
<1>. QED
  BY <1>5, <1>6, <1>7, <1>8 DEF Serve

LEMMA AnswerKeeps ==
  ASSUME IInv, NEW k \in Kinds, Answer(k)
  PROVE  IInv'
<1>. DEFINE r == requests[k]
<1>1. r \in Request /\ (k \in {"validate", "mode"} => r.token \in Tokens)
  BY DEF Answer, IInv, RequestsOK
<1>2. ServiceOK'
  BY DEF Answer, IInv, ServiceOK, service
<1>3. SessionOK /\ RequestsOK
  BY DEF IInv
<1>4. r.token \in Tokens \cup {None} /\ r.account \in Accounts \cup {None}
  BY <1>1 DEF Request
<1>5. CASE k \in {"validate", "mode"} /\ AcceptLicense(Owner[r.token], token)
             /\ requests' = Without(k)
  <2>1. Owner[r.token] \in Accounts /\ token \in Tokens \cup {None}
    BY <1>1, <1>3, <1>5, OwnerAssumption DEF SessionOK
  <2>2. SessionOK' /\ lastAnswer' = 0
    BY <1>3, <1>5, <2>1, AcceptKeeps
  <2>. QED
    BY <1>2, <1>3, <1>5, <2>2, WithoutKeeps DEF IInv
<1>6. CASE Lock(TRUE, TRUE) /\ requests' = Without(k)
  BY <1>2, <1>3, <1>6, LockKeeps, WithoutKeeps DEF IInv
<1>7. CASE Validate(k)
  BY <1>2, <1>3, <1>7, ValidateKeeps DEF IInv
<1>8. CASE requests' = Without(k) /\ UNCHANGED <<session, tasks, lastAnswer>>
  BY <1>2, <1>3, <1>8, SameSession, WithoutKeeps DEF IInv
<1>9. CASE AcceptLicense(r.account, r.token) /\ requests' = Without(k)
  <2>1. SessionOK' /\ lastAnswer' = 0
    BY <1>3, <1>4, <1>9, AcceptKeeps
  <2>. QED
    BY <1>2, <1>3, <1>9, <2>1, WithoutKeeps DEF IInv
<1>10. CASE AskForReset(r.account) /\ requests' = Without(k)
  <2>1. SessionOK' /\ lastAnswer' = lastAnswer
    BY <1>3, <1>4, <1>10 DEF AskForReset, SessionOK, StoredMatchesFile
  <2>. QED
    BY <1>2, <1>3, <1>10, <2>1, WithoutKeeps DEF IInv
<1>11. CASE /\ pendingReset' = None /\ requests' = Without(k)
            /\ UNCHANGED <<token, account, ok, age, stored, file, tasks, lastAnswer>>
  <2>1. SessionOK' /\ lastAnswer' = lastAnswer
    BY <1>3, <1>11 DEF SessionOK, StoredMatchesFile
  <2>. QED
    BY <1>2, <1>3, <1>11, <2>1, WithoutKeeps DEF IInv
<1>. QED
  BY <1>5, <1>6, <1>7, <1>8, <1>9, <1>10, <1>11 DEF Answer

LEMMA FailKeeps ==
  ASSUME IInv, NEW k \in Kinds, Fail(k)
  PROVE  IInv' /\ (k = "validate" /\ ok' => lastAnswer' <= Grace)
<1>1. ServiceOK' /\ SessionOK /\ RequestsOK /\ requests' = Without(k)
  BY DEF Fail, IInv, ServiceOK, service
<1>2. CASE k = "validate"
  <2>1. Unavailable(requests[k].saved)
    BY <1>2 DEF Fail
  <2>2. requests[k].saved \in Ages /\ lastAnswer <= requests[k].saved
    BY <1>1, <1>2 DEF Fail, RequestsOK, Request
  <2>3. SessionOK' /\ lastAnswer' = lastAnswer /\ (ok' => lastAnswer' <= Grace)
    BY <1>1, <2>1, <2>2, UnavailableKeeps
  <2>. QED
    BY <1>1, <2>3, WithoutKeeps DEF IInv
<1>3. CASE k = "logout"
  <2>1. Lock(TRUE, TRUE)
    BY <1>3 DEF Fail
  <2>. QED
    BY <1>1, <1>3, <2>1, LockKeeps, WithoutKeeps DEF IInv
<1>4. CASE k \notin {"validate", "logout"}
  <2>1. UNCHANGED <<session, tasks, lastAnswer>>
    BY <1>4 DEF Fail
  <2>. QED
    BY <1>1, <1>4, <2>1, SameSession, WithoutKeeps DEF IInv
<1>. QED
  BY <1>2, <1>3, <1>4

LEMMA TickKeeps ==
  ASSUME IInv, Tick
  PROVE  IInv'
<1>1. SessionOK /\ RequestsOK /\ ServiceOK'
  BY DEF Tick, IInv, ServiceOK, service
<1>2. age' \in Ages /\ lastAnswer' \in Ages /\ lastAnswer' <= age'
  BY <1>1, OlderIsMonotone DEF Tick, SessionOK
<1>3. file = None => file' = None
  BY DEF Tick
<1>4. ASSUME file # None
      PROVE  /\ file' \in Saved /\ lastAnswer' <= file'.age
             /\ file' = [token |-> file.token, account |-> file.account, age |-> Older(file.age)]
  <2>1. file \in Saved /\ file' = [file EXCEPT !.age = Older(@)]
    BY <1>1, <1>4 DEF Tick, SessionOK
  <2>2. file' = [token |-> file.token, account |-> file.account, age |-> Older(file.age)]
    BY <2>1 DEF Saved
  <2>3. file.token \in Tokens /\ file.account \in Accounts \cup {None} /\ file.age \in Ages
    BY <2>1 DEF Saved
  <2>4. Older(file.age) \in Ages /\ Older(lastAnswer) <= Older(file.age)
    BY <1>1, <1>4, <2>3, OlderIsMonotone DEF SessionOK
  <2>. QED
    BY <2>2, <2>3, <2>4 DEF Saved, Tick
<1>5. StoredMatchesFile'
  <2>. SUFFICES ASSUME stored'
                PROVE  /\ token' # None
                       /\ file' = [token |-> token', account |-> account', age |-> age']
    BY DEF StoredMatchesFile
  <2>1. token # None /\ file = [token |-> token, account |-> account, age |-> age]
    BY <1>1 DEF Tick, SessionOK, StoredMatchesFile
  <2>2. file \in Saved
    BY <1>1, <2>1 DEF SessionOK, Saved
  <2>3. file # None
    BY <2>2, NoneAssumption
  <2>. QED
    BY <1>4, <2>1, <2>3 DEF Tick
<1>6. SessionOK'
  BY <1>1, <1>2, <1>3, <1>4, <1>5 DEF Tick, SessionOK
<1>7. CASE requests["validate"] = None
  <2>1. requests' = requests
    BY <1>7 DEF Tick
  <2>. QED
    BY <1>1, <1>6, <1>7, <2>1 DEF IInv, RequestsOK
<1>8. CASE requests["validate"] # None
  <2>. DEFINE r == requests["validate"]
              aged == [r EXCEPT !.saved = Older(@)]
  <2>1. requests' = [requests EXCEPT !["validate"] = aged]
    BY <1>8 DEF Tick
  <2>2. r \in Request /\ r.saved \in Ages /\ lastAnswer <= r.saved /\ r.token \in Tokens
    BY <1>1, <1>8 DEF RequestsOK, Request, Kinds
  <2>3. Older(r.saved) \in Ages /\ lastAnswer' <= Older(r.saved)
    BY <1>1, <2>2, OlderIsMonotone DEF SessionOK, Tick
  <2>4. aged \in Request /\ aged.saved = Older(r.saved) /\ aged.token = r.token
    BY <2>2, <2>3 DEF Request
  <2>. HIDE DEF aged, r
  <2>5. /\ requests' \in [Kinds -> Request \cup {None}] /\ requests'["validate"] = aged
        /\ \A k \in Kinds \ {"validate"} : requests'[k] = requests[k]
    BY <1>1, <2>1, <2>4 DEF RequestsOK, Kinds
  <2>6. \A k \in {"validate", "mode"} : requests'[k] # None => requests'[k].token \in Tokens
    BY <1>1, <2>2, <2>4, <2>5 DEF RequestsOK, Kinds
  <2>7. RequestsOK'
    BY <2>3, <2>4, <2>5, <2>6 DEF RequestsOK
  <2>. QED
    BY <1>1, <1>6, <2>7 DEF IInv
<1>. QED
  BY <1>7, <1>8

\* Every other step that leaves the session alone and sends at most one call.
LEMMA SendStepKeeps ==
  ASSUME IInv, StartReset \/ StartMode \/ StartUse \/ (\E a \in Accounts : StartLogin(a))
  PROVE  IInv'
<1>1. SessionOK /\ RequestsOK /\ UNCHANGED <<session, tasks, lastAnswer, service, restarts>>
  BY DEF IInv, StartReset, StartMode, StartUse, StartLogin
<1>2. SessionOK' /\ ServiceOK' /\ Old \in Ages
  BY <1>1, SameSession, OldIsLast DEF IInv, ServiceOK, service
<1>3. \E k \in Kinds \ {"validate"}, t \in Tokens \cup {None}, a \in Accounts \cup {None} :
        /\ k = "mode" => t \in Tokens
        /\ requests' = [requests EXCEPT ![k] = Call(t, a, Old)]
  <2>1. CASE StartReset
    <3>1. requests' = [requests EXCEPT !["reset"] = Call(None, pendingReset, Old)]
      BY <2>1 DEF StartReset, Send
    <3>. QED
      BY <1>1, <3>1 DEF SessionOK, Kinds
  <2>2. CASE StartMode
    <3>1. requests' = [requests EXCEPT !["mode"] = Call(token, None, Old)] /\ token # None
      BY <2>2 DEF StartMode, Send
    <3>. QED
      BY <1>1, <3>1 DEF SessionOK, Kinds
  <2>3. CASE StartUse
    <3>1. requests' = [requests EXCEPT !["use"] = Call(token, account, Old)]
      BY <2>3 DEF StartUse, Send
    <3>. QED
      BY <1>1, <3>1 DEF SessionOK, Kinds
  <2>4. CASE \E a \in Accounts : StartLogin(a)
    <3>1. PICK a \in Accounts : requests' = [requests EXCEPT !["login"] = Call(None, a, Old)]
      BY <2>4 DEF StartLogin, Send
    <3>. QED
      BY <3>1 DEF Kinds
  <2>. QED
    BY <2>1, <2>2, <2>3, <2>4
<1>4. RequestsOK'
  <2>1. PICK k \in Kinds \ {"validate"}, t \in Tokens \cup {None}, a \in Accounts \cup {None} :
          /\ k = "mode" => t \in Tokens
          /\ requests' = [requests EXCEPT ![k] = Call(t, a, Old)]
    BY <1>3
  <2>. QED
    BY <1>1, <1>2, <2>1, SendKeeps
<1>. QED
  BY <1>2, <1>4 DEF IInv

LEMMA LogoutStepKeeps ==
  ASSUME IInv, StartLogout
  PROVE  IInv'
<1>1. SessionOK /\ RequestsOK /\ ServiceOK' /\ Old \in Ages /\ "logout" \in Kinds
  BY OldIsLast DEF IInv, ServiceOK, StartLogout, service, Kinds
<1>2. CASE token # None
  <2>1. /\ requests' = [requests EXCEPT !["logout"] = Call(token, None, Old)]
        /\ UNCHANGED <<session, tasks, lastAnswer>>
    BY <1>2 DEF StartLogout, Send
  <2>2. RequestsOK'
    BY <1>1, <2>1, SendKeeps DEF SessionOK
  <2>. QED
    BY <1>1, <2>1, <2>2, SameSession DEF IInv
<1>3. CASE token = None
  <2>1. Lock(TRUE, TRUE) /\ UNCHANGED requests
    BY <1>3 DEF StartLogout
  <2>2. SessionOK' /\ lastAnswer' = lastAnswer
    BY <1>1, <2>1, LockKeeps
  <2>. QED
    BY <1>1, <2>1, <2>2 DEF IInv, RequestsOK
<1>. QED
  BY <1>2, <1>3

LEMMA RestartKeeps ==
  ASSUME IInv, Restart
  PROVE  IInv'
<1>1. ServiceOK'
  BY BoundAssumption DEF Restart, IInv, ServiceOK, service
<1>2. RequestsOK'
  BY DEF Restart, RequestsOK, Kinds
<1>3. SessionOK /\ Old \in Ages
  BY OldIsLast DEF IInv
<1>4. CASE /\ file # None /\ token' = file.token /\ account' = file.account
           /\ age' = file.age /\ stored' = TRUE
  <2>1. file \in Saved /\ lastAnswer <= file.age
    BY <1>3, <1>4 DEF SessionOK
  <2>2. /\ token' \in Tokens /\ account' \in Accounts \cup {None} /\ age' \in Ages
        /\ file = [token |-> token', account |-> account', age |-> age']
    BY <1>4, <2>1 DEF Saved
  <2>3. token' # None
    BY <2>2, NoneAssumption
  <2>4. StoredMatchesFile'
    BY <2>2, <2>3 DEF Restart, StoredMatchesFile
  <2>5. SessionOK'
    BY <1>3, <1>4, <2>1, <2>2, <2>4 DEF Restart, SessionOK
  <2>. QED
    BY <1>1, <1>2, <2>5 DEF IInv
<1>5. CASE token' = None /\ account' = None /\ age' = Old /\ stored' = FALSE
  <2>1. StoredMatchesFile'
    BY <1>5 DEF StoredMatchesFile
  <2>2. lastAnswer <= Old
    BY <1>3, OldIsLast DEF SessionOK, Ages
  <2>3. SessionOK'
    BY <1>3, <1>5, <2>1, <2>2 DEF Restart, SessionOK
  <2>. QED
    BY <1>1, <1>2, <2>3 DEF IInv
<1>. QED
  BY <1>4, <1>5 DEF Restart

\* What changes neither the session nor the calls.
LEMMA LauncherKeeps ==
  ASSUME IInv, \/ StartTasks \/ StopTasks \/ (\E t \in Tokens : Revoke(t))
               \/ (\E a \in Accounts : RequireReset(a)) \/ UNCHANGED vars
  PROVE  IInv'
<1>1. ServiceOK'
  BY DEF IInv, ServiceOK, StartTasks, StopTasks, Revoke, RequireReset, vars, service
<1>2. RequestsOK'
  BY DEF IInv, RequestsOK, StartTasks, StopTasks, Revoke, RequireReset, vars
<1>3. CASE UNCHANGED <<session, tasks, lastAnswer>>
  BY <1>1, <1>2, <1>3, SameSession DEF IInv
<1>4. CASE tasks' \in BOOLEAN /\ UNCHANGED <<session, lastAnswer>>
  <2>1. SessionOK'
    BY <1>4 DEF IInv, SessionOK, StoredMatchesFile, session
  <2>. QED
    BY <1>1, <1>2, <2>1 DEF IInv
<1>. QED
  BY <1>3, <1>4 DEF StartTasks, StopTasks, Revoke, RequireReset, vars

\* IInv is preserved by every step.
LEMMA NextInv == IInv /\ [Next]_vars => IInv'
<1>. SUFFICES ASSUME IInv, [Next]_vars PROVE IInv'
  OBVIOUS
<1>1. CASE StartValidate
  <2>1. Validate("validate") /\ ServiceOK' /\ "validate" \in Kinds
    BY <1>1 DEF StartValidate, IInv, ServiceOK, service, Kinds
  <2>. QED
    BY <2>1, ValidateKeeps DEF IInv
<1>2. CASE StartReset \/ StartMode \/ StartUse \/ (\E a \in Accounts : StartLogin(a))
  BY <1>2, SendStepKeeps
<1>3. CASE StartLogout
  BY <1>3, LogoutStepKeeps
<1>4. CASE \E k \in Kinds : Serve(k) \/ Answer(k) \/ Fail(k)
  BY <1>4, ServeKeeps, AnswerKeeps, FailKeeps
<1>5. CASE Invalidate
  <2>1. SessionOK' /\ lastAnswer' = lastAnswer
    BY <1>5, LockKeeps DEF Invalidate, IInv
  <2>. QED
    BY <1>5, <2>1 DEF Invalidate, IInv, RequestsOK, ServiceOK, service
<1>6. CASE Restart
  BY <1>6, RestartKeeps
<1>7. CASE Tick
  BY <1>7, TickKeeps
<1>8. CASE \/ StartTasks \/ StopTasks \/ (\E t \in Tokens : Revoke(t))
           \/ (\E a \in Accounts : RequireReset(a)) \/ UNCHANGED vars
  BY <1>8, LauncherKeeps
<1>. QED
  BY <1>1, <1>2, <1>3, <1>4, <1>5, <1>6, <1>7, <1>8 DEF Next

\* IInv holds in every state: the parts of TypeOK, the storage the page is told, and
\* no validation time that is later than the last answer.
THEOREM Invariant == Spec => []IInv
<1>1. Init => IInv
  BY InitInv
<1>2. IInv /\ [Next]_vars => IInv'
  BY NextInv
<1>. QED
  BY <1>1, <1>2, PTL DEF Spec

-----------------------------------------------------------------------------
(* The properties *)

\* Every variable keeps its type (TypeOK).
THEOREM TypeCorrect == Spec => []TypeOK
<1>1. IInv => TypeOK
  BY DEF IInv, ServiceOK, SessionOK, RequestsOK, TypeOK
<1>. QED
  BY <1>1, Invariant, PTL

\* What the page is told to be kept is what a restart resumes (StoredMatchesFile).
THEOREM StorageIsTrue == Spec => []StoredMatchesFile
<1>1. IInv => StoredMatchesFile
  BY DEF IInv, SessionOK
<1>. QED
  BY <1>1, Invariant, PTL

\* A validation that ends with an active session was answered, or the last answer is
\* within the grace (OfflineWithinGrace).
LEMMA OfflineStep ==
  ASSUME IInv, [Next]_vars, requests["validate"] # None, requests'["validate"] = None, ok'
  PROVE  lastAnswer' <= Grace
<1>1. "validate" \in Kinds /\ requests \in [Kinds -> Request \cup {None}] /\ SessionOK
  BY DEF IInv, RequestsOK, Kinds
<1>2. \A k \in Kinds \ {"validate"} : requests' = Without(k) => requests'["validate"] # None
  BY <1>1 DEF Without
<1>3. CASE \E k \in Kinds : Fail(k)
  <2>1. PICK k \in Kinds : Fail(k)
    BY <1>3
  <2>2. k = "validate"
    BY <1>2, <2>1 DEF Fail
  <2>. QED
    BY <2>1, <2>2, FailKeeps
<1>4. CASE \E k \in Kinds : Answer(k)
  <2>1. PICK k \in Kinds : Answer(k)
    BY <1>4
  <2>2. k = "validate"
    BY <1>1, <1>2, <2>1 DEF Answer, Validate
  <2>3. ~Lock(TRUE, TRUE)
    BY DEF Lock
  <2>4. lastAnswer' = 0
    BY <2>1, <2>2, <2>3 DEF Answer, AcceptLicense
  <2>. QED
    BY <2>4, GraceAssumption
<1>5. CASE \E k \in Kinds : Serve(k)
  <2>1. PICK k \in Kinds : Serve(k)
    BY <1>5
  <2>2. \E t \in Tokens \cup {None}, answer \in {"ok", "rejected", "reset"} : Reply(k, t, answer)
    BY <1>1, <2>1 DEF Serve, Request
  <2>. QED
    BY <1>1, <2>2, NoneAssumption DEF Reply, Request
<1>6. CASE \/ StartReset \/ StartMode \/ StartUse \/ StartLogout
           \/ (\E a \in Accounts : StartLogin(a))
  <2>1. \/ requests' = requests
        \/ \E k \in Kinds \ {"validate"} : \E c : requests' = [requests EXCEPT ![k] = c]
    BY <1>6 DEF StartReset, StartMode, StartUse, StartLogout, StartLogin, Send, Kinds
  <2>. QED
    BY <1>1, <2>1
<1>7. CASE Tick
  <2>. DEFINE r == requests["validate"]
              aged == [r EXCEPT !.saved = Older(@)]
  <2>1. r \in Request /\ Older(r.saved) \in Ages
    <3>1. r \in Request
      BY <1>1
    <3>2. r.saved \in Ages
      BY <3>1 DEF Request
    <3>. QED
      BY <3>1, <3>2, GraceAssumption DEF Older, Least, Ages, Old
  <2>2. aged \in Request
    BY <2>1 DEF Request
  <2>3. requests'["validate"] = aged
    BY <1>1, <1>7 DEF Tick
  <2>. QED
    BY <2>2, <2>3, NoneAssumption
<1>8. CASE Restart
  BY <1>8 DEF Restart
<1>. QED
  BY <1>3, <1>4, <1>5, <1>6, <1>7, <1>8
     DEF Next, StartValidate, Invalidate, StartTasks, StopTasks, Revoke, RequireReset, vars

\* The grace is counted from the last answer, whatever happened since
\* (OfflineWithinGrace).
THEOREM OfflineIsBounded == Spec => OfflineWithinGrace
<1>1. IInv /\ [Next]_vars =>
        [requests["validate"] # None /\ requests'["validate"] = None /\ ok'
           => lastAnswer' <= Grace]_vars
  BY OfflineStep
<1>. QED
  BY <1>1, Invariant, PTL DEF Spec, OfflineWithinGrace

-----------------------------------------------------------------------------
(* Answers that come too late *)

\* No validation or mode change that the service accepts is taken for a session of another
\* account than the one it was sent for.
MeetsSession ==
  \A k \in {"validate", "mode"} :
    Answer(k) /\ requests[k].answer = "ok" /\ token # None
      => Owner[requests[k].token] = Owner[token]
AnswersMeetSession == [][MeetsSession]_vars

\* The account that is kept beside a token is the token's, in memory and on disk.
SessionBound ==
  /\ token # None => account = Owner[token]
  /\ file # None => file.account = Owner[file.token]

\* So is the one of a sign-in that the service accepted, and of a call for the user.
CallsBound ==
  /\ \A k \in {"login", "reset"} :
       requests[k] # None /\ requests[k].answer = "ok" =>
         requests[k].token \in Tokens /\ Owner[requests[k].token] = requests[k].account
  /\ BackupBound

LEMMA AcceptBound ==
  ASSUME SessionBound, NEW a \in Accounts, NEW t \in Tokens \cup {None}, AcceptLicense(a, t),
         t # None => a = Owner[t]
  PROVE  SessionBound'
BY DEF SessionBound, AcceptLicense, SaveSession

LEMMA LockBound ==
  ASSUME SessionBound, NEW clear \in BOOLEAN, NEW stop \in BOOLEAN, Lock(clear, stop)
  PROVE  SessionBound'
BY DEF SessionBound, Lock

LEMMA SameBound ==
  ASSUME SessionBound, UNCHANGED <<token, account, file>>
  PROVE  SessionBound'
BY DEF SessionBound

LEMMA ValidateBound ==
  ASSUME SessionBound, NEW k \in Kinds, Validate(k)
  PROVE  SessionBound'
BY LockBound, SameBound DEF Validate, session

LEMMA AnswerBound ==
  ASSUME IInv, SessionBound, CallsBound, MeetsSession, NEW k \in Kinds, Answer(k)
  PROVE  SessionBound'
<1>. DEFINE r == requests[k]
<1>1. r \in Request /\ (k \in {"validate", "mode"} => r.token \in Tokens) /\ r # None
  BY DEF Answer, IInv, RequestsOK
<1>2. token \in Tokens \cup {None}
  BY DEF IInv, SessionOK
<1>3. CASE k \in {"validate", "mode"} /\ r.answer = "ok" /\ AcceptLicense(Owner[r.token], token)
  <2>1. Owner[r.token] \in Accounts /\ (token # None => Owner[r.token] = Owner[token])
    BY <1>1, <1>3, OwnerAssumption DEF MeetsSession
  <2>. QED
    BY <1>2, <1>3, <2>1, AcceptBound
<1>4. CASE k \in {"login", "reset"} /\ r.answer = "ok" /\ AcceptLicense(r.account, r.token)
  <2>1. r.token \in Tokens /\ r.account = Owner[r.token] /\ r.account \in Accounts
    BY <1>1, <1>4, OwnerAssumption DEF CallsBound
  <2>. QED
    BY <1>4, <2>1, AcceptBound
<1>5. CASE Lock(TRUE, TRUE) \/ Validate(k)
  BY <1>5, LockBound, ValidateBound
<1>6. CASE UNCHANGED <<token, account, file>>
  BY <1>6, SameBound
<1>. QED
  BY <1>3, <1>4, <1>5, <1>6 DEF Answer, AskForReset, session

LEMMA FailBound ==
  ASSUME SessionBound, NEW k \in Kinds, Fail(k)
  PROVE  SessionBound'
BY LockBound, SameBound DEF Fail, Unavailable, session

LEMMA RestartBound ==
  ASSUME SessionBound, Restart
  PROVE  SessionBound'
BY DEF SessionBound, Restart

LEMMA TickBound ==
  ASSUME IInv, SessionBound, Tick
  PROVE  SessionBound'
<1>1. CASE file = None
  BY <1>1 DEF SessionBound, Tick
<1>2. CASE file # None
  <2>1. file \in Saved /\ file' = [file EXCEPT !.age = Older(@)]
    BY <1>2 DEF Tick, IInv, SessionOK
  <2>2. file'.token = file.token /\ file'.account = file.account
    BY <2>1 DEF Saved
  <2>. QED
    BY <1>2, <2>2 DEF SessionBound, Tick
<1>. QED
  BY <1>1, <1>2

LEMMA StepSessionBound ==
  ASSUME IInv, SessionBound, CallsBound, MeetsSession, Next
  PROVE  SessionBound'
<1>1. CASE \E k \in Kinds : Answer(k) \/ Fail(k)
  BY <1>1, AnswerBound, FailBound
<1>2. CASE StartValidate
  BY <1>2, ValidateBound DEF StartValidate, Kinds
<1>3. CASE StartLogout \/ Invalidate
  BY <1>3, LockBound, SameBound DEF StartLogout, Invalidate, session
<1>4. CASE UNCHANGED <<token, account, file>>
  BY <1>4, SameBound
<1>. QED
  BY <1>1, <1>2, <1>3, <1>4, RestartBound, TickBound
     DEF Next, StartReset, StartMode, StartUse, StartLogin, RequireReset, Serve, Revoke, StartTasks,
     StopTasks, session

\* What a step does to a sign-in or to a call for the user.
LEMMA CallSteps ==
  ASSUME IInv, Next, NEW k \in {"login", "reset", "use"}
  PROVE  \/ requests'[k] \in {None, requests[k]}
         \/ k \in {"login", "reset"} /\ \E a : requests'[k] = Call(None, a, Old)
         \/ k = "use" /\ StartUse /\ requests'[k] = Call(token, account, Old)
         \/ Serve(k)
<1>1. requests \in [Kinds -> Request \cup {None}] /\ k \in Kinds
  BY DEF IInv, RequestsOK, Kinds
<1>2. ASSUME NEW j \in Kinds, requests' = Without(j)
      PROVE  requests'[k] \in {None, requests[k]}
  BY <1>1, <1>2 DEF Without
<1>3. ASSUME NEW j \in Kinds, Validate(j)
      PROVE  requests'[k] \in {None, requests[k]}
  BY <1>1, <1>3 DEF Validate, Without
<1>4. CASE \E j \in Kinds : Answer(j) \/ Fail(j)
  BY <1>2, <1>3, <1>4 DEF Answer, Fail
<1>5. CASE \E j \in Kinds : Serve(j)
  <2>1. PICK j \in Kinds : Serve(j)
    BY <1>5
  <2>2. j # k => requests'[k] = requests[k]
    BY <1>1, <2>1 DEF Serve, Reply
  <2>. QED
    BY <2>1, <2>2
<1>6. CASE StartValidate
  BY <1>3, <1>6 DEF StartValidate, Kinds
<1>7. CASE StartReset \/ StartLogout \/ StartMode \/ StartUse \/ (\E a \in Accounts : StartLogin(a))
  BY <1>1, <1>7 DEF StartReset, StartLogout, StartMode, StartUse, StartLogin, Send
<1>8. CASE Tick
  BY <1>1, <1>8 DEF Tick
<1>9. CASE Restart
  BY <1>1, <1>9 DEF Restart
<1>. QED
  BY <1>4, <1>5, <1>6, <1>7, <1>8, <1>9
     DEF Next, RequireReset, Revoke, Invalidate, StartTasks, StopTasks

LEMMA StepCallsBound ==
  ASSUME IInv, SessionBound, CallsBound, Next
  PROVE  CallsBound'
<1>1. ASSUME NEW k \in {"login", "reset"}, requests'[k] # None, requests'[k].answer = "ok"
      PROVE  requests'[k].token \in Tokens /\ Owner[requests'[k].token] = requests'[k].account
  <2>. DEFINE r == requests[k]
  <2>1. CASE requests'[k] = r
    BY <1>1, <2>1 DEF CallsBound
  <2>2. CASE \E a : requests'[k] = Call(None, a, Old)
    BY <1>1, <2>2 DEF Call
  <2>3. CASE Serve(k)
    <3>1. r \in Request /\ requests \in [Kinds -> Request \cup {None}] /\ k \in Kinds
      BY <2>3 DEF Serve, IInv, RequestsOK, Kinds
    <3>2. \E t \in Tokens : Mint(r.account, t) /\ Reply(k, t, "ok")
      <4>1. \A answer : Reply(k, None, answer) => requests'[k].answer = answer
        BY <3>1 DEF Reply, Request
      <4>. QED
        BY <1>1, <2>3, <4>1 DEF Serve
    <3>3. PICK t \in Tokens : Mint(r.account, t) /\ Reply(k, t, "ok")
      BY <3>2
    <3>4. requests'[k].token = t /\ requests'[k].account = r.account
      BY <3>1, <3>3 DEF Reply, Request
    <3>. QED
      BY <3>3, <3>4 DEF Mint
  <2>. QED
    BY <1>1, <2>1, <2>2, <2>3, CallSteps
<1>2. BackupBound'
  <2>. DEFINE r == requests["use"]
  <2>. SUFFICES ASSUME requests'["use"] # None
                PROVE  Owner[requests'["use"].token] = requests'["use"].account
    BY DEF BackupBound
  <2>1. CASE requests'["use"] = r
    BY <2>1 DEF CallsBound, BackupBound
  <2>2. CASE StartUse /\ requests'["use"] = Call(token, account, Old)
    BY <2>2 DEF StartUse, SessionBound, Call
  <2>3. CASE Serve("use")
    <3>1. /\ r \in Request /\ r # None /\ "use" \in Kinds
          /\ requests \in [Kinds -> Request \cup {None}]
      BY <2>3 DEF Serve, IInv, RequestsOK, Kinds
    <3>2. \E answer : Reply("use", r.token, answer)
      BY <2>3 DEF Serve
    <3>3. requests'["use"].token = r.token /\ requests'["use"].account = r.account
      BY <3>1, <3>2 DEF Reply, Request
    <3>. QED
      BY <3>1, <3>3 DEF CallsBound, BackupBound
  <2>. QED
    BY <2>1, <2>2, <2>3, CallSteps
<1>. QED
  BY <1>1, <1>2 DEF CallsBound

\* A call for the user carries another account's token only because a late answer was taken
\* for the session of its time: as long as every accepted validation and mode change is one
\* of the account that is signed in when it arrives, no call is bound to another (BackupBound).
THEOREM LateAnswersMixAccounts == Spec /\ AnswersMeetSession => []BackupBound
<1>1. Init => SessionBound /\ CallsBound
  BY DEF Init, SessionBound, CallsBound, BackupBound, Kinds
<1>2. IInv /\ SessionBound /\ CallsBound /\ [Next]_vars /\ [MeetsSession]_vars
        => SessionBound' /\ CallsBound'
  <2>. SUFFICES ASSUME IInv, SessionBound, CallsBound, [Next]_vars, [MeetsSession]_vars
                PROVE  SessionBound' /\ CallsBound'
    OBVIOUS
  <2>1. CASE UNCHANGED vars
    BY <2>1 DEF vars, session, SessionBound, CallsBound, BackupBound
  <2>2. CASE Next /\ MeetsSession
    BY <2>2, StepSessionBound, StepCallsBound
  <2>. QED
    BY <2>1, <2>2
<1>3. SessionBound /\ CallsBound => BackupBound
  BY DEF CallsBound
<1>. QED
  BY <1>1, <1>2, <1>3, Invariant, PTL DEF Spec, AnswersMeetSession

-----------------------------------------------------------------------------
(* What ends a session and leaves its tasks *)

\* The session ends while tasks go on only in a check that finds no token, or in the answer to a
\* sign-in that asks for a new password.
QuietEnd ==
  \/ token = None /\ \E k \in Kinds : Validate(k)
  \/ Answer("login") /\ AskForReset(requests["login"].account)

TasksOutlive == ok /\ ~ok' /\ tasks'

\* lock with stop and a live session leaves no task.
LEMMA LockStops ==
  ASSUME NEW c, ok, Lock(c, TRUE)
  PROVE  ~tasks'
BY DEF Lock

\* A session whose tasks survive it ended by one of the two paths that tell onStatus alone
\* (validate without a token, password_reset_required); every other end stops them.
THEOREM OnlyQuietEndsLeaveTasks == Spec => [][TasksOutlive => QuietEnd]_vars
<1>1. ASSUME Next, TasksOutlive PROVE QuietEnd
  <2>. USE <1>1 DEF TasksOutlive
  <2>1. CASE \E k \in Kinds : ok' = ok \/ Validate(k)
    BY <2>1 DEF Validate, QuietEnd, Lock, session
  <2>2. ASSUME NEW k \in Kinds, Answer(k) PROVE QuietEnd
    <3>. DEFINE r == requests[k]
    <3>1. CASE \E t : AcceptLicense(t, token) \/ AcceptLicense(r.account, t)
      BY <3>1 DEF AcceptLicense
    <3>2. CASE Lock(TRUE, TRUE)
      BY <3>2, LockStops
    <3>3. CASE Validate(k)
      BY <2>1, <3>3
    <3>4. CASE k = "login" /\ AskForReset(r.account)
      BY <2>2, <3>4 DEF QuietEnd
    <3>5. CASE ok' = ok
      BY <3>5
    <3>. QED
      BY <2>2, <3>1, <3>2, <3>3, <3>4, <3>5 DEF Answer, session
  <2>3. ASSUME NEW k \in Kinds, Fail(k) PROVE QuietEnd
    BY <2>3, LockStops DEF Fail, Unavailable, session
  <2>. QED
    BY <2>1, <2>2, <2>3, LockStops
    DEF Next, StartValidate, StartReset, StartLogout, StartMode, StartUse, StartLogin, RequireReset,
        Serve, Revoke, Invalidate, StartTasks, StopTasks, Restart, Tick, session, Kinds
<1>2. ASSUME UNCHANGED vars, TasksOutlive PROVE QuietEnd
  BY <1>2 DEF vars, session, TasksOutlive
<1>3. [Next]_vars => [TasksOutlive => QuietEnd]_vars
  BY <1>1, <1>2
<1>. QED
  BY <1>3, PTL DEF Spec
=============================================================================
