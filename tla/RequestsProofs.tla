--------------------------- MODULE RequestsProofs ---------------------------
(***************************************************************************)
(* Proofs about module Requests, for any number of tasks, any rates and    *)
(* any durations: each limiter implements module TokenBucket, and the lock *)
(* after an HTTP 429 does what it is for.                                  *)
(***************************************************************************)
EXTENDS Requests, TLAPS

USE RequestsAssumption DEF RequestsAssumption

KindNames == {"simple", "resumable", "list", "mkdir", "delete", "rename", "changes",
              "health"}

\* The programs have one to four steps, and "bytes" is a step of "simple" alone.
LEMMA ProgramFacts ==
    ASSUME NEW k \in KindNames
    PROVE  /\ Program[k] \in Seq({"acquire", "send", "bytes", "put"})
           /\ Len(Program[k]) \in 1..4
           /\ \A i \in 1..Len(Program[k]) : Program[k][i] = "bytes" => k = "simple"
<1>1. CASE k \in {"list", "delete", "health"}
  <2>1. Program[k] = <<"acquire", "send">>
    BY <1>1 DEF Program, ListPage, Delete, CheckHealth
  <2> QED
    BY <2>1
<1>2. CASE k \in {"mkdir", "rename", "changes"}
  <2>1. Program[k] = <<"acquire", "send", "acquire", "send">>
    BY <1>2 DEF Program, Mkdir, Rename, GetChanges
  <2> QED
    BY <2>1
<1>3. CASE k = "simple"
  BY <1>3, Program[k] = <<"acquire", "bytes", "send">> DEF Program, UploadSimple
<1>4. CASE k = "resumable"
  BY <1>4, Program[k] = <<"acquire", "send", "acquire", "put">>
     DEF Program, UploadResumable
<1> QED
  BY <1>1, <1>2, <1>3, <1>4 DEF KindNames

LEMMA AtMostFacts ==
    ASSUME NEW n \in Nat, NEW m \in Nat
    PROVE  AtMost(n, m) \in 0..m /\ AtMost(n, m) <= n
BY DEF AtMost

\* A request after its step is idle or at the next step of its program.
LEMMA AdvancedType ==
    ASSUME ClientsOK, NEW c \in Clients, client[c] # Idle
    PROVE  Advanced(c) \in Request \cup {Idle}
<1> DEFINE r == client[c]
           t == IF Program[r.kind][r.step + 1] = "put" THEN Timeout ELSE 0
<1>1. r \in Request /\ r.kind \in KindNames
  BY DEF ClientsOK, Request, KindNames
<1>2. Len(Program[r.kind]) \in 1..4
  BY <1>1, ProgramFacts
<1>3. CASE r.step = Len(Program[r.kind])
  BY <1>3 DEF Advanced
<1>4. CASE r.step # Len(Program[r.kind])
  <2>1. Advanced(c) = [r EXCEPT !.step = @ + 1, !.life = t]
    BY <1>4 DEF Advanced
  <2>2. t \in 0..Timeout
    OBVIOUS
  <2>3. r.step + 1 \in 1..4 /\ r.step + 1 <= Len(Program[r.kind])
    <3>1. ASSUME NEW n \in 1..4, NEW i \in 1..4, i <= n, i # n
          PROVE  i + 1 \in 1..4 /\ i + 1 <= n
      BY <3>1
    <3> QED
      BY <3>1, <1>1, <1>2, <1>4 DEF Request
  <2> HIDE DEF t
  <2> QED
    BY <1>1, <2>1, <2>2, <2>3 DEF Request
<1> QED
  BY <1>3, <1>4

\* The updates of one client that the actions make.
LEMMA ClientUpdate ==
    ASSUME ClientsOK, NEW c \in Clients, NEW r \in Request \cup {Idle},
           client' = [client EXCEPT ![c] = r], UNCHANGED cancelled
    PROVE  ClientsOK'
BY DEF ClientsOK

LEMMA PassType ==
    ASSUME ClientsOK, NEW c \in Clients, client[c] # Idle, Pass(c),
           UNCHANGED cancelled
    PROVE  ClientsOK'
BY AdvancedType, ClientUpdate DEF Pass

LEMMA SleepType ==
    ASSUME ClientsOK, NEW c \in Clients, client[c] # Idle, NEW n \in Nat, Sleep(c, n),
           UNCHANGED cancelled
    PROVE  ClientsOK'
<1>1. client[c] \in Request
  BY DEF ClientsOK
<1>2. [client[c] EXCEPT !.sleep = n] \in Request
  BY <1>1 DEF Request
<1>3. client' = [client EXCEPT ![c] = [client[c] EXCEPT !.sleep = n]]
  BY DEF Sleep
<1> QED
  BY <1>2, <1>3, ClientUpdate

\* A listing that was punished asks for its page again.
LEMMA RetryType ==
    ASSUME "list" \in Kinds, NEW w \in Nat
    PROVE  [kind |-> "list", step |-> 1, left |-> 0, sleep |-> w, life |-> 0] \in Request
<1>1. Len(Program["list"]) \in 1..4 /\ 0 \in 0..Timeout
  BY ProgramFacts DEF KindNames
<1> QED
  BY <1>1 DEF Request

\* What the buckets are after a call of acquire.
LEMMA BucketFacts ==
    ASSUME NEW b \in [tokens : 0..Second, age : 0..Second]
    PROVE  /\ Refilled(b) \in 0..Second
           /\ TopUp(b) \in [tokens : 0..Second, age : 0..Second]
           /\ Older(b) \in [tokens : 0..Second, age : 0..Second]
           /\ \A n \in Nat : Refilled(b) >= n =>
                 Taken(b, n) \in [tokens : 0..Second, age : 0..Second]
<1>1. b.tokens + b.age \in Nat /\ b.age + 1 \in Nat
  OBVIOUS
<1>2. Refilled(b) \in 0..Second /\ AtMost(b.age + 1, Second) \in 0..Second
  BY <1>1, AtMostFacts DEF Refilled
<1> QED
  BY <1>2 DEF TopUp, Taken, Older

\* What an upload asks for is a size the bandwidth limiter expects.
LEMMA BytesType ==
    ASSUME ClientsOK, NEW c \in Clients, WantsBytes(c)
    PROVE  Bytes(c) \in Files \cup 1..Chunk /\ Bytes(c) \in Nat
           /\ client[c] # Idle /\ client[c] \in Request /\ Bytes(c) <= client[c].left
<1>1. client[c] # Idle /\ client[c] \in Request
  BY DEF WantsBytes, Ready, Step, ClientsOK, None
<1>2. CASE Step(c) = "bytes"
  <2>1. client[c].kind = "simple"
    <3>1. client[c].kind \in KindNames /\ client[c].step \in 1..Len(Program[client[c].kind])
      <4>1. client[c].kind \in KindNames /\ client[c].step \in 1..4
            /\ client[c].step <= Len(Program[client[c].kind])
        BY <1>1 DEF Request, KindNames
      <4>2. Len(Program[client[c].kind]) \in Nat
        BY <4>1, ProgramFacts
      <4> QED
        BY <4>1, <4>2
    <3> QED
      BY <1>1, <1>2, <3>1, ProgramFacts DEF Step
  <2> QED
    BY <1>1, <1>2, <2>1 DEF Request, Bytes
<1>3. CASE Step(c) = "put"
  <2>1. client[c].left \in Nat \ {0}
    BY <1>1, <1>3 DEF WantsBytes, Ready, Request
  <2>2. Bytes(c) = AtMost(client[c].left, Chunk)
    BY <1>3 DEF Bytes
  <2> QED
    BY <1>1, <2>1, <2>2 DEF AtMost
<1> QED
  BY <1>2, <1>3 DEF WantsBytes, Ready

-----------------------------------------------------------------------------

LEMMA InitTypes == Init => TypeOK
<1> SUFFICES ASSUME Init PROVE TypeOK
  OBVIOUS
<1>1. BucketsOK
  BY DEF Init, BucketsOK, FullBucket
<1>2. ClientsOK
  <2>1. client = [c \in Clients |-> Idle] /\ cancelled = FALSE
    BY DEF Init
  <2>2. client \in [Clients -> Request \cup {Idle}]
    BY <2>1
  <2> QED
    BY <2>1, <2>2 DEF ClientsOK
<1>3. HistoryOK
  BY DEF Init, HistoryOK
<1> QED
  BY <1>1, <1>2, <1>3 DEF TypeOK

\* An action of the task c keeps the types.
LEMMA RunTypes ==
    ASSUME TypeOK, NEW c \in Clients, Run(c)
    PROVE  TypeOK'
<1> USE DEF TypeOK
<1>a. Refilled(api) \in 0..Second /\ Refilled(bw) \in 0..Second
  BY BucketFacts DEF BucketsOK
<1>b. client[c] # Idle => client[c] \in Request
  BY DEF ClientsOK
<1>1. CASE AcquireLocked(c)
  <2>1. client[c] # Idle /\ lock \in Nat
    BY <1>1 DEF AcquireLocked, Ready, Step, None, BucketsOK, NoLock
  <2>2. ClientsOK'
    BY <1>1, <2>1, SleepType DEF AcquireLocked
  <2> QED
    BY <1>1, <2>2 DEF AcquireLocked, BucketsOK, HistoryOK
<1>2. CASE AcquireUnlock(c)
  <2>1. client[c] # Idle
    BY <1>2 DEF AcquireUnlock, Ready, Step, None
  <2>2. ClientsOK'
    BY <1>2, <2>1, PassType DEF AcquireUnlock
  <2> QED
    BY <1>2, <2>2 DEF AcquireUnlock, BucketsOK, HistoryOK
<1>3. CASE AcquireToken(c)
  <2>1. client[c] # Idle
    BY <1>3 DEF AcquireToken, Ready, Step, None
  <2>2. ClientsOK'
    BY <1>3, <2>1, PassType DEF AcquireToken
  <2>3. BucketsOK'
    BY <1>3, BucketFacts DEF AcquireToken, BucketsOK
  <2>4. HistoryOK'
    BY <1>3 DEF AcquireToken, HistoryOK
  <2> QED
    BY <2>2, <2>3, <2>4
<1>4. CASE AcquireWait(c)
  <2>1. client[c] # Idle
    BY <1>4 DEF AcquireWait, Ready, Step, None
  <2>2. Cost - Refilled(api) \in Nat
    BY <1>4, <1>a DEF AcquireWait
  <2>3. ClientsOK'
    BY <1>4, <2>1, <2>2, SleepType DEF AcquireWait
  <2>4. BucketsOK'
    BY <1>4, BucketFacts DEF AcquireWait, BucketsOK
  <2> QED
    BY <1>4, <2>3, <2>4 DEF AcquireWait, HistoryOK
<1>5. CASE BytesGranted(c)
  <2>1. /\ Bytes(c) \in Nat /\ client[c] # Idle /\ client[c] \in Request
        /\ Bytes(c) <= client[c].left
    BY <1>5, BytesType DEF BytesGranted
  <2>2. ClientsOK'
    <3>1. CASE Step(c) = "bytes"
      BY <1>5, <2>1, <3>1, PassType DEF BytesGranted
    <3>2. CASE Step(c) # "bytes"
      <4> DEFINE r == [client[c] EXCEPT !.left = @ - Bytes(c)]
      <4>1. Step(c) = "put"
        BY <1>5, <3>2 DEF BytesGranted, WantsBytes, Ready
      <4>2. client[c].kind # "simple"
        BY <2>1, <4>1 DEF Step, Program, UploadSimple, Request
      <4>3. client[c].left - Bytes(c) \in Nat
        BY <2>1 DEF Request
      <4>4. r \in Request
        BY <2>1, <4>2, <4>3 DEF Request
      <4>5. client' = [client EXCEPT ![c] = r]
        BY <1>5, <3>2 DEF BytesGranted
      <4> HIDE DEF r
      <4> QED
        BY <1>5, <4>4, <4>5, ClientUpdate DEF BytesGranted
    <3> QED
      BY <3>1, <3>2
  <2>3. BucketsOK'
    BY <1>5, <2>1, BucketFacts DEF BytesGranted, BucketsOK
  <2>4. HistoryOK'
    BY <1>5, <2>1 DEF BytesGranted, HistoryOK
  <2> QED
    BY <2>2, <2>3, <2>4
<1>6. CASE BytesWait(c)
  <2>1. Bytes(c) \in Nat /\ client[c] # Idle
    BY <1>6, BytesType DEF BytesWait
  <2>2. Bytes(c) - Refilled(bw) \in Nat
    BY <1>6, <2>1, <1>a DEF BytesWait
  <2>3. ClientsOK'
    BY <1>6, <2>1, <2>2, SleepType DEF BytesWait
  <2>4. BucketsOK'
    BY <1>6, BucketFacts DEF BytesWait, BucketsOK
  <2> QED
    BY <1>6, <2>3, <2>4 DEF BytesWait, HistoryOK
<1>7. CASE AnswerOk(c)
  <2>1. client[c] # Idle
    BY <1>7 DEF AnswerOk, Sent, Step, None
  <2>2. ClientsOK'
    BY <1>7, <2>1, PassType, ClientUpdate DEF AnswerOk
  <2> QED
    BY <1>7, <2>2 DEF AnswerOk, BucketsOK, HistoryOK
<1>8. CASE Answer429(c)
  <2>1. client[c] # Idle /\ client[c] \in Request
    BY <1>8, <1>b DEF Answer429, Sent, Step, None
  <2>2. PICK w \in Punishments :
           /\ lock' = PunishedUntil(w)
           /\ until' = IF w > until THEN w ELSE until
           /\ client' = [client EXCEPT ![c] =
                IF client[c].kind = "list"
                  THEN [kind |-> "list", step |-> 1, left |-> 0, sleep |-> w, life |-> 0]
                  ELSE Idle]
    BY <1>8 DEF Answer429
  <2> DEFINE r == IF client[c].kind = "list"
                    THEN [kind |-> "list", step |-> 1, left |-> 0, sleep |-> w,
                          life |-> 0]
                    ELSE Idle
  <2>3. r \in Request \cup {Idle}
    <3>1. CASE client[c].kind = "list"
      BY <2>1, <3>1, RetryType DEF Request
    <3>2. CASE client[c].kind # "list"
      BY <3>2
    <3> QED
      BY <3>1, <3>2
  <2>4. client' = [client EXCEPT ![c] = r]
    BY <2>2
  <2>5. ClientsOK'
    <3> HIDE DEF r
    <3> QED
      BY <1>8, <2>3, <2>4, ClientUpdate DEF Answer429
  <2>6. BucketsOK'
    BY <1>8, <2>2 DEF Answer429, BucketsOK, PunishedUntil
  <2>7. HistoryOK'
    BY <1>8, <2>2 DEF Answer429, HistoryOK
  <2> QED
    BY <2>5, <2>6, <2>7
<1>9. CASE Fail(c)
  BY <1>9, ClientUpdate DEF Fail, BucketsOK, HistoryOK
<1>10. CASE Cancelled(c)
  BY <1>10, ClientUpdate DEF Cancelled, BucketsOK, HistoryOK
<1> QED
  BY <1>1, <1>2, <1>3, <1>4, <1>5, <1>6, <1>7, <1>8, <1>9, <1>10 DEF Run

\* Types and bounds: the buckets never hold more than a second's worth, and every
\* request is at a step of its program.
LEMMA StepTypes == TypeOK /\ [Next]_vars => TypeOK'
<1> SUFFICES ASSUME TypeOK, [Next]_vars PROVE TypeOK'
  OBVIOUS
<1> USE DEF TypeOK
<1>1. ASSUME NEW c \in Clients, Begin(c) PROVE TypeOK'
  <2>1. PICK k \in Kinds, n \in Files \cup {0} :
           /\ k = "simple" => n \in Files
           /\ client' = [client EXCEPT ![c] =
                [kind |-> k, step |-> 1, left |-> n, sleep |-> 0, life |-> 0]]
    BY <1>1 DEF Begin
  <2> DEFINE r == [kind |-> k, step |-> 1, left |-> n, sleep |-> 0, life |-> 0]
  <2>2. Len(Program[k]) \in 1..4
    BY ProgramFacts DEF KindNames
  <2>3. r \in Request
    <3>1. n \in Nat /\ 0 \in 0..Timeout
      OBVIOUS
    <3> QED
      BY <2>1, <2>2, <3>1 DEF Request
  <2>4. client' = [client EXCEPT ![c] = r]
    BY <2>1
  <2> HIDE DEF r
  <2>5. ClientsOK'
    BY <1>1, <2>3, <2>4 DEF Begin, ClientsOK
  <2> QED
    BY <1>1, <2>5 DEF Begin, BucketsOK, HistoryOK
<1>2. ASSUME NEW c \in Clients, Run(c) PROVE TypeOK'
  BY <1>2, RunTypes
<1>3. CASE Signal
  BY <1>3 DEF Signal, BucketsOK, ClientsOK, HistoryOK
<1>4. CASE Elapse
  <2>1. BucketsOK'
    <3>1. /\ lock' = IF lock = NoLock THEN NoLock ELSE Down(lock)
          /\ api' = Older(api) /\ bw' = Older(bw)
      BY <1>4 DEF Elapse
    <3>2. lock' \in Nat \cup {NoLock}
      BY <3>1 DEF BucketsOK, Down
    <3> QED
      BY <3>1, <3>2, BucketFacts DEF BucketsOK
  <2>2. ASSUME NEW c \in Clients PROVE client'[c] \in Request \cup {Idle}
    <3> DEFINE r == client[c]
               t == IF Step(c) = "put" THEN Down(r.life) ELSE r.life
    <3>1. client'[c] = [r EXCEPT !.sleep = Down(r.sleep), !.life = t]
      BY <1>4 DEF Elapse
    <3>2. CASE r = Idle
      <4>1. Step(c) = None /\ r.sleep = 0
        BY <3>2 DEF Step, Idle
      <4> QED
        BY <3>1, <3>2, <4>1 DEF Idle, Down, None
    <3>3. CASE r \in Request
      <4>1. Down(r.sleep) \in Nat /\ t \in 0..Timeout
        BY <3>3 DEF Request, Down
      <4> HIDE DEF t
      <4> QED
        BY <3>1, <3>3, <4>1 DEF Request
    <3> QED
      BY <3>2, <3>3 DEF ClientsOK
  <2>3. ClientsOK'
    BY <1>4, <2>2 DEF Elapse, ClientsOK
  <2>4. HistoryOK'
    <3>1. /\ window.elapsed < MaxWindow /\ until' = Down(until)
          /\ window' = [window EXCEPT !.elapsed = @ + 1]
          /\ UNCHANGED <<punished, free>>
      BY <1>4 DEF Elapse
    <3>2. window.elapsed + 1 \in 0..MaxWindow
      BY <3>1 DEF HistoryOK
    <3>3. window' \in [elapsed : 0..MaxWindow, api : Nat, bw : Nat]
      BY <3>1, <3>2 DEF HistoryOK
    <3> QED
      BY <3>1, <3>3 DEF HistoryOK, Down
  <2> QED
    BY <2>1, <2>3, <2>4
<1>5. CASE Watch
  BY <1>5 DEF Watch, BucketsOK, ClientsOK, HistoryOK
<1>6. CASE UNCHANGED vars
  BY <1>6 DEF vars, BucketsOK, ClientsOK, HistoryOK
<1> QED
  BY <1>1, <1>2, <1>3, <1>4, <1>5, <1>6 DEF Next

\* Types and bounds of module Requests, for any number of tasks and any rates.
THEOREM RequestsTypes == Spec => []TypeOK
BY InitTypes, StepTypes, PTL DEF Spec

-----------------------------------------------------------------------------

\* A step of the system is a step of the API limiter, or leaves it alone: requests
\* that leave it on a lifted lock do not touch the bucket.
LEMMA ApiStep == TypeOK /\ [Next]_vars => [Api!Next]_Api!vars
<1> SUFFICES ASSUME TypeOK, [Next]_vars PROVE [Api!Next]_Api!vars
  OBVIOUS
<1>1. window \in [elapsed : 0..MaxWindow, api : Nat, bw : Nat]
  BY DEF TypeOK, HistoryOK
<1>2. ASSUME UNCHANGED <<api, window>> PROVE UNCHANGED Api!vars
  BY <1>2 DEF Api!vars
<1>3. ASSUME NEW c \in Clients, AcquireToken(c) PROVE Api!Grant(Cost)
  BY <1>1, <1>3 DEF AcquireToken, Taken, Refilled, AtMost, Api!Grant, Api!Refilled,
     Api!AtMostCap
<1>4. ASSUME NEW c \in Clients, AcquireWait(c) PROVE Api!Refuse(Cost)
  BY <1>4 DEF AcquireWait, TopUp, Refilled, AtMost, Api!Refuse, Api!Refilled,
     Api!AtMostCap
<1>5. ASSUME NEW c \in Clients, BytesGranted(c) PROVE UNCHANGED Api!vars
  BY <1>1, <1>5 DEF BytesGranted, Api!vars
<1>6. ASSUME NEW c \in Clients, Run(c) PROVE [Api!Next]_Api!vars
  <2>1. CASE AcquireToken(c)
    BY <1>3, <2>1 DEF Api!Next
  <2>2. CASE AcquireWait(c)
    BY <1>4, <2>2 DEF Api!Next
  <2>3. CASE BytesGranted(c)
    BY <1>5, <2>3
  <2>4. CASE AcquireLocked(c) \/ AcquireUnlock(c) \/ BytesWait(c) \/ AnswerOk(c)
             \/ Answer429(c) \/ Fail(c) \/ Cancelled(c)
    BY <1>2, <2>4 DEF AcquireLocked, AcquireUnlock, BytesWait, AnswerOk, Answer429,
       Fail, Cancelled
  <2> QED
    BY <1>6, <2>1, <2>2, <2>3, <2>4 DEF Run
<1>7. CASE Elapse
  <2>1. api' = Older(api) /\ window' = [window EXCEPT !.elapsed = @ + 1]
    BY <1>7 DEF Elapse
  <2>2. Api!Elapse
    BY <1>1, <2>1 DEF Older, AtMost, Api!Elapse, Api!AtMostCap, TypeOK, BucketsOK
  <2> QED
    BY <2>2 DEF Api!Next
<1>8. CASE Watch
  BY <1>8 DEF Watch, Api!Watch, Api!Next
<1>9. CASE (\E c \in Clients : Begin(c)) \/ Signal \/ UNCHANGED vars
  BY <1>2, <1>9 DEF Begin, Signal, vars
<1> QED
  BY <1>6, <1>7, <1>8, <1>9 DEF Next

\* The API limiter of the system is a token bucket of one second's requests.
THEOREM ApiImplements == Spec => ApiIsBucket
<1>1. Init => Api!Init
  BY DEF Init, FullBucket, Api!Init
<1> QED
  BY <1>1, ApiStep, RequestsTypes, PTL DEF Spec, ApiIsBucket, Api!Spec

\* The same for the bandwidth limiter, which simple and streamed uploads share.
LEMMA BandwidthStep == TypeOK /\ [Next]_vars => [Bw!Next]_Bw!vars
<1> SUFFICES ASSUME TypeOK, [Next]_vars PROVE [Bw!Next]_Bw!vars
  OBVIOUS
<1>1. window \in [elapsed : 0..MaxWindow, api : Nat, bw : Nat]
  BY DEF TypeOK, HistoryOK
<1>2. ASSUME UNCHANGED <<bw, window>> PROVE UNCHANGED Bw!vars
  BY <1>2 DEF Bw!vars
<1>3. ASSUME NEW c \in Clients, BytesGranted(c) PROVE Bw!Next
  <2>1. Bytes(c) \in Files \cup 1..Chunk
    BY <1>3, BytesType DEF BytesGranted, TypeOK
  <2>2. Bw!Grant(Bytes(c))
    BY <1>1, <1>3 DEF BytesGranted, Taken, Refilled, AtMost, Bw!Grant, Bw!Refilled,
       Bw!AtMostCap
  <2> QED
    BY <2>1, <2>2 DEF Bw!Next
<1>4. ASSUME NEW c \in Clients, BytesWait(c) PROVE Bw!Next
  <2>1. Bytes(c) \in Files \cup 1..Chunk
    BY <1>4, BytesType DEF BytesWait, TypeOK
  <2>2. Bw!Refuse(Bytes(c))
    BY <1>4 DEF BytesWait, TopUp, Refilled, AtMost, Bw!Refuse, Bw!Refilled,
       Bw!AtMostCap
  <2> QED
    BY <2>1, <2>2 DEF Bw!Next
<1>5. ASSUME NEW c \in Clients, AcquireToken(c) PROVE UNCHANGED Bw!vars
  BY <1>1, <1>5 DEF AcquireToken, Bw!vars
<1>6. ASSUME NEW c \in Clients, Run(c) PROVE [Bw!Next]_Bw!vars
  <2>1. CASE BytesGranted(c)
    BY <1>3, <2>1
  <2>2. CASE BytesWait(c)
    BY <1>4, <2>2
  <2>3. CASE AcquireToken(c)
    BY <1>5, <2>3
  <2>4. CASE AcquireLocked(c) \/ AcquireUnlock(c) \/ AcquireWait(c) \/ AnswerOk(c)
             \/ Answer429(c) \/ Fail(c) \/ Cancelled(c)
    BY <1>2, <2>4 DEF AcquireLocked, AcquireUnlock, AcquireWait, AnswerOk, Answer429,
       Fail, Cancelled
  <2> QED
    BY <1>6, <2>1, <2>2, <2>3, <2>4 DEF Run
<1>7. CASE Elapse
  <2>1. bw' = Older(bw) /\ window' = [window EXCEPT !.elapsed = @ + 1]
    BY <1>7 DEF Elapse
  <2>2. Bw!Elapse
    BY <1>1, <2>1 DEF Older, AtMost, Bw!Elapse, Bw!AtMostCap, TypeOK, BucketsOK
  <2> QED
    BY <2>2 DEF Bw!Next
<1>8. CASE Watch
  BY <1>8 DEF Watch, Bw!Watch, Bw!Next
<1>9. CASE (\E c \in Clients : Begin(c)) \/ Signal \/ UNCHANGED vars
  BY <1>2, <1>9 DEF Begin, Signal, vars
<1> QED
  BY <1>6, <1>7, <1>8, <1>9 DEF Next

THEOREM BandwidthImplements == Spec => BandwidthIsBucket
<1>1. Init => Bw!Init
  BY DEF Init, FullBucket, Bw!Init
<1> QED
  BY <1>1, BandwidthStep, RequestsTypes, PTL DEF Spec, BandwidthIsBucket, Bw!Spec

ApiP == INSTANCE TokenBucketProofs WITH Cap <- Second, Sizes <- {Cost},
          tokens <- api.tokens, age <- api.age,
          elapsed <- window.elapsed, spent <- window.api

BwP  == INSTANCE TokenBucketProofs WITH Cap <- Second, Sizes <- Files \cup 1..Chunk,
          tokens <- bw.tokens, age <- bw.age,
          elapsed <- window.elapsed, spent <- window.bw

\* In any window of time the tasks together take at most one second's worth of
\* requests and of bytes above what the window refills: the theorem of the bucket,
\* carried over by the two refinements.
THEOREM RatesBounded ==
    Spec => [](/\ window.api <= Second + window.elapsed
               /\ window.bw <= Second + window.elapsed)
<1>1. ApiP!BucketAssumption /\ BwP!BucketAssumption
  BY DEF ApiP!BucketAssumption, BwP!BucketAssumption
<1>2. /\ Api!Init => ApiP!Init
      /\ [Api!Next]_Api!vars => [ApiP!Next]_ApiP!vars
  BY DEF Api!Init, Api!Next, Api!vars, Api!Elapse, Api!Grant, Api!Refuse, Api!Watch,
     Api!Refilled, Api!AtMostCap, ApiP!Init, ApiP!Next, ApiP!vars, ApiP!Elapse,
     ApiP!Grant, ApiP!Refuse, ApiP!Watch, ApiP!Refilled, ApiP!AtMostCap
<1>3. /\ Bw!Init => BwP!Init
      /\ [Bw!Next]_Bw!vars => [BwP!Next]_BwP!vars
  BY DEF Bw!Init, Bw!Next, Bw!vars, Bw!Elapse, Bw!Grant, Bw!Refuse, Bw!Watch,
     Bw!Refilled, Bw!AtMostCap, BwP!Init, BwP!Next, BwP!vars, BwP!Elapse,
     BwP!Grant, BwP!Refuse, BwP!Watch, BwP!Refilled, BwP!AtMostCap
<1>4. ApiP!WindowBound => window.api <= Second + window.elapsed
  BY DEF ApiP!WindowBound
<1>5. BwP!WindowBound => window.bw <= Second + window.elapsed
  BY DEF BwP!WindowBound
<1>6. Spec => []ApiP!WindowBound
  BY <1>1, <1>2, ApiImplements, ApiP!BucketWindow, PTL
     DEF ApiIsBucket, Api!Spec, ApiP!Spec
<1>7. Spec => []BwP!WindowBound
  BY <1>1, <1>3, BandwidthImplements, BwP!BucketWindow, PTL
     DEF BandwidthIsBucket, Bw!Spec, BwP!Spec
<1> QED
  BY <1>4, <1>5, <1>6, <1>7, PTL

-----------------------------------------------------------------------------

\* One request per lifted lock passes without a token, and there is one lock at most
\* per answer 429.
THEOREM FreeCorrect == Spec => []FreePerPunishment
<1>1. Init => FreePerPunishment
  BY DEF Init, FreePerPunishment
<1>2. TypeOK /\ FreePerPunishment /\ [Next]_vars => FreePerPunishment'
  <2> SUFFICES ASSUME TypeOK, FreePerPunishment, [Next]_vars PROVE FreePerPunishment'
    OBVIOUS
  <2>1. free \in Nat /\ punished \in Nat /\ lock \in Nat \cup {NoLock}
    BY DEF TypeOK, HistoryOK, BucketsOK
  <2>2. ASSUME UNCHANGED <<free, punished, lock>> PROVE FreePerPunishment'
    BY <2>2 DEF FreePerPunishment
  <2>3. ASSUME NEW c \in Clients, AcquireUnlock(c) PROVE FreePerPunishment'
    BY <2>1, <2>3 DEF AcquireUnlock, FreePerPunishment, NoLock
  <2>4. ASSUME NEW c \in Clients, Answer429(c) PROVE FreePerPunishment'
    <3>1. PICK w \in Punishments : lock' = PunishedUntil(w)
      BY <2>4 DEF Answer429
    <3>2. punished' = punished + 1 /\ free' = free
      BY <2>4 DEF Answer429
    <3> QED
      BY <2>1, <3>1, <3>2 DEF FreePerPunishment, PunishedUntil, NoLock
  <2>5. ASSUME NEW c \in Clients, Run(c) PROVE FreePerPunishment'
    BY <2>2, <2>3, <2>4, <2>5 DEF Run, AcquireLocked, AcquireToken, AcquireWait,
       BytesGranted, BytesWait, AnswerOk, Fail, Cancelled
  <2>6. CASE Elapse
    <3>1. lock' = IF lock = NoLock THEN NoLock ELSE Down(lock)
      BY <2>6 DEF Elapse
    <3>2. UNCHANGED <<punished, free>>
      BY <2>6 DEF Elapse
    <3> QED
      BY <2>1, <3>1, <3>2 DEF FreePerPunishment, Down, NoLock
  <2> QED
    BY <2>2, <2>5, <2>6 DEF Next, Begin, Signal, Watch, vars
<1> QED
  BY <1>1, <1>2, RequestsTypes, PTL DEF Spec

\* The lock lasts as long as the longest punishment received.
LockCovers == until > 0 => lock >= until

LEMMA LockStep == TypeOK /\ LockCovers /\ [Next]_vars => LockCovers'
<1> SUFFICES ASSUME TypeOK, LockCovers, [Next]_vars PROVE LockCovers'
  OBVIOUS
<1>1. until \in Nat /\ lock \in Nat \cup {NoLock}
  BY DEF TypeOK, HistoryOK, BucketsOK
<1>2. ASSUME UNCHANGED <<until, lock>> PROVE LockCovers'
  BY <1>2 DEF LockCovers
<1>3. ASSUME NEW c \in Clients, AcquireUnlock(c) PROVE LockCovers'
  BY <1>1, <1>3 DEF AcquireUnlock, LockCovers
<1>4. ASSUME NEW c \in Clients, Answer429(c) PROVE LockCovers'
  <2>1. PICK w \in Punishments :
           lock' = PunishedUntil(w) /\ until' = IF w > until THEN w ELSE until
    BY <1>4 DEF Answer429
  <2> QED
    BY <1>1, <2>1 DEF LockCovers, PunishedUntil, NoLock
<1>5. ASSUME NEW c \in Clients, Run(c) PROVE LockCovers'
  BY <1>2, <1>3, <1>4, <1>5 DEF Run, AcquireLocked, AcquireToken, AcquireWait,
     BytesGranted, BytesWait, AnswerOk, Fail, Cancelled
<1>6. CASE Elapse
  <2>1. lock' = (IF lock = NoLock THEN NoLock ELSE Down(lock)) /\ until' = Down(until)
    BY <1>6 DEF Elapse
  <2> QED
    BY <1>1, <2>1 DEF LockCovers, Down, NoLock
<1> QED
  BY <1>2, <1>5, <1>6 DEF Next, Begin, Signal, Watch, vars

\* No request leaves the limiter while a Retry-After runs, whichever of the answers
\* it came with.
THEOREM LockCorrect == Spec => LockHonoured
<1> DEFINE Leaves(c) == Step(c) = "acquire" /\ client'[c].step # client[c].step
<1>1. Init => LockCovers
  BY DEF Init, LockCovers
<1>2. TypeOK /\ LockCovers /\ [Next]_vars
        => [\A c \in Clients : Leaves(c) => until = 0]_vars
  <2> SUFFICES ASSUME TypeOK, LockCovers, Next, NEW c \in Clients, Leaves(c)
               PROVE  until = 0
    OBVIOUS
  <2>1. until \in Nat /\ client \in [Clients -> Request \cup {Idle}]
    BY DEF TypeOK, HistoryOK, ClientsOK
  <2>2. client[c] # Idle /\ client[c] \in Request
    BY <2>1 DEF Step, None
  <2>3. ASSUME NEW d \in Clients, Begin(d) PROVE FALSE
    <3>1. d # c
      BY <2>2, <2>3 DEF Begin
    <3> QED
      BY <2>1, <2>3, <3>1 DEF Begin
  <2>4. CASE Elapse
    <3>1. client'[c] = [client[c] EXCEPT
             !.sleep = Down(@), !.life = IF Step(c) = "put" THEN Down(@) ELSE @]
      BY <2>4 DEF Elapse
    <3>2. client'[c].step = client[c].step
      BY <2>2, <3>1 DEF Request
    <3> QED
      BY <3>2
  <2>5. CASE Signal \/ Watch
    BY <2>5 DEF Signal, Watch
  <2>6. ASSUME NEW d \in Clients, Run(d) PROVE until = 0
    <3>1. CASE AcquireUnlock(d) \/ AcquireToken(d)
      BY <2>1, <3>1 DEF AcquireUnlock, AcquireToken, LockCovers, NoLock
    <3>2. CASE AcquireLocked(d) \/ AcquireWait(d) \/ BytesWait(d)
      <4>1. PICK n : client' = [client EXCEPT ![d].sleep = n]
        BY <3>2 DEF AcquireLocked, AcquireWait, BytesWait, Sleep
      <4>2. client'[c].step = client[c].step
        BY <2>1, <2>2, <4>1 DEF Request
      <4> QED
        BY <4>2
    <3>3. CASE BytesGranted(d) \/ AnswerOk(d) \/ Answer429(d) \/ Fail(d) \/ Cancelled(d)
      <4>1. Step(d) \in {"bytes", "put", "send"} \/ Cancelled(d)
        BY <3>3 DEF BytesGranted, WantsBytes, Ready, AnswerOk, Answer429, Sent, Fail
      <4>2. Step(d) # "acquire"
        BY <4>1 DEF Cancelled
      <4>3. d # c
        BY <4>2
      <4> QED
        BY <2>1, <3>3, <4>3 DEF BytesGranted, AnswerOk, Answer429, Fail, Cancelled, Pass
    <3> QED
      BY <2>6, <3>1, <3>2, <3>3 DEF Run
  <2> QED
    BY <2>3, <2>4, <2>5, <2>6 DEF Next
<1> QED
  BY <1>1, <1>2, LockStep, RequestsTypes, PTL DEF Spec, LockHonoured
=============================================================================
