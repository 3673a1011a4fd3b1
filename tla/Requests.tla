------------------------------ MODULE Requests ------------------------------
(***************************************************************************)
(* The requests to Google Drive of the workers, the scan and the health    *)
(* check, between the two limiters of GDriveProvider (remote/gdrive.rs):   *)
(* the API limiter of engine/rate_limiter.rs, with its lock after an       *)
(* HTTP 429, and the bandwidth limiter of engine/bandwidth.rs.             *)
(*                                                                         *)
(* Time is counted in ticks; both buckets hold what one second refills, so *)
(* a unit of tokens is what one tick brings and Second is the capacity of  *)
(* both (module TokenBucket). Times are kept relative to now: the age of a *)
(* refill, what is left of the lock, of a sleep, of the timeout of a PUT.  *)
(* Tokens of the login, bodies and answers other than 429 are module Auth  *)
(* and module Worker; the bandwidth is limited (upload_limit_kbps > 0).    *)
(***************************************************************************)
EXTENDS Integers, Sequences

CONSTANTS
    Clients,      \* tasks that send requests at the same time
    Second,       \* ticks in a second
    Cost,         \* what a request costs: Second = api_rate_limit_rps * Cost
    Kinds,        \* the requests of this instance
    Files,        \* sizes of the files uploaded
    Threshold,    \* chunk_threshold: up to it an upload is simple
    Chunk,        \* the buffer of upload_resumable (64 KiB)
    Timeout,      \* the timeout of the HTTP client (30 s), body included
    Punishments,  \* the durations of Retry-After
    Faults,       \* a request may also fail, or the daemon be told to stop
    MaxPunish,    \* bound of the model: answers 429
    MaxWindow     \* bound of the model: length of the window watched

ASSUME RequestsAssumption ==
    /\ Second \in Nat \ {0} /\ Cost \in 1..Second /\ Chunk \in Nat \ {0}
    /\ Kinds \subseteq {"simple", "resumable", "list", "mkdir", "delete", "rename",
                       "changes", "health"}
    /\ Files \subseteq Nat /\ Threshold \in Nat /\ Punishments \subseteq Nat
    /\ Faults \in BOOLEAN /\ Timeout \in Nat /\ MaxPunish \in Nat
    /\ MaxWindow \in Nat \ {0}

VARIABLES
    api, bw,     \* the buckets: tokens, and age of the last refill
    lock,        \* what is left of locked_until, or NoLock
    client,      \* what each task is doing
    cancelled,   \* the shutdown token
    until,       \* history: what is left of the longest punishment received
    punished,    \* history: answers 429 so far
    free,        \* history: requests let through without a token
    window       \* history: a window of time, and what each bucket spent in it

vars == <<api, bw, lock, client, cancelled, until, punished, free, window>>

None   == "none"
NoLock == -1

\* The awaits of each request, in order: the API limiter, the bandwidth limiter for
\* the whole file, the exchange with Google, and the PUT whose stream awaits the
\* bandwidth limiter buffer by buffer.
UploadSimple    == <<"acquire", "bytes", "send">>
UploadResumable == <<"acquire", "send", "acquire", "put">>
ListPage        == <<"acquire", "send">>
Mkdir           == <<"acquire", "send", "acquire", "send">>   \* search, create
Delete          == <<"acquire", "send">>
Rename          == <<"acquire", "send", "acquire", "send">>   \* parents, patch
GetChanges      == <<"acquire", "send", "acquire", "send">>   \* no cursor yet
CheckHealth     == <<"acquire", "send">>

Program == [simple |-> UploadSimple, resumable |-> UploadResumable, list |-> ListPage,
            mkdir |-> Mkdir, delete |-> Delete, rename |-> Rename,
            changes |-> GetChanges, health |-> CheckHealth]

Idle == [kind |-> None, step |-> 0, left |-> 0, sleep |-> 0, life |-> 0]

BucketsOK ==
    /\ api \in [tokens : 0..Second, age : 0..Second]
    /\ bw \in [tokens : 0..Second, age : 0..Second]
    /\ lock \in Nat \cup {NoLock}

\* A request in progress.
Request ==
    {r \in [kind : Kinds, step : 1..4, left : Nat, sleep : Nat, life : 0..Timeout] :
        /\ r.step <= Len(Program[r.kind])
        /\ r.kind = "simple" => r.left \in Files}

ClientsOK ==
    /\ client \in [Clients -> Request \cup {Idle}]
    /\ cancelled \in BOOLEAN

HistoryOK ==
    /\ until \in Nat /\ punished \in 0..MaxPunish /\ free \in Nat
    /\ window \in [elapsed : 0..MaxWindow, api : Nat, bw : Nat]

TypeOK == BucketsOK /\ ClientsOK /\ HistoryOK

AtMost(n, m) == IF n > m THEN m ELSE n
Down(n) == IF n = 0 THEN 0 ELSE n - 1

FullBucket == [tokens |-> Second, age |-> 0]

Init ==
    /\ api = FullBucket /\ bw = FullBucket /\ lock = NoLock
    /\ client = [c \in Clients |-> Idle]
    /\ cancelled = FALSE /\ until = 0 /\ punished = 0 /\ free = 0
    /\ window = [elapsed |-> 0, api |-> 0, bw |-> 0]

-----------------------------------------------------------------------------
(* The buckets *)

\* Mutation: the refill is not capped.
RefilledUncapped(b) == b.tokens + b.age

Refilled(b) == AtMost(b.tokens + b.age, Second)

Taken(b, n) == [tokens |-> Refilled(b) - n, age |-> 0]
TopUp(b)    == [tokens |-> Refilled(b), age |-> 0]

-----------------------------------------------------------------------------
(* The steps of a request *)

Step(c) == IF client[c] = Idle THEN None ELSE Program[client[c].kind][client[c].step]

Ready(c, s) == Step(c) = s /\ client[c].sleep = 0

\* The request c after its present step.
Advanced(c) ==
    LET r == client[c]
        p == Program[r.kind]
    IN  IF r.step = Len(p) THEN Idle
        ELSE [r EXCEPT !.step = @ + 1,
                       !.life = IF p[r.step + 1] = "put" THEN Timeout ELSE 0]

\* Mutation: a file of any size is uploaded in one piece.
BeginSimple(c) ==
    /\ client[c] = Idle /\ ~cancelled
    /\ \E k \in Kinds, n \in Files \cup {0} :
          /\ k = "simple" => n \in Files
          /\ k # "resumable"
          /\ k # "simple" => n = 0
          /\ client' = [client EXCEPT ![c] =
                [kind |-> k, step |-> 1, left |-> n, sleep |-> 0, life |-> 0]]
    /\ UNCHANGED <<api, bw, lock, cancelled, until, punished, free, window>>

\* A task begins a request, as often as it likes; an upload is simple or resumable by the
\* size of the file.
Begin(c) ==
    /\ client[c] = Idle /\ ~cancelled
    /\ \E k \in Kinds, n \in Files \cup {0} :
          /\ k = "simple" => n \in Files /\ n <= Threshold
          /\ k = "resumable" => n \in Files /\ n > Threshold
          /\ k \notin {"simple", "resumable"} => n = 0
          /\ client' = [client EXCEPT ![c] =
                [kind |-> k, step |-> 1, left |-> n, sleep |-> 0, life |-> 0]]
    /\ UNCHANGED <<api, bw, lock, cancelled, until, punished, free, window>>

Sleep(c, n) == client' = [client EXCEPT ![c].sleep = n]
Pass(c)     == client' = [client EXCEPT ![c] = Advanced(c)]

\* ApiRateLimiter::acquire under a lock: the task sleeps for the rest of it.
AcquireLocked(c) ==
    /\ Ready(c, "acquire")
    /\ lock > 0
    /\ Sleep(c, lock)
    /\ UNCHANGED <<api, bw, lock, cancelled, until, punished, free, window>>

\* Mutation: the lock that has expired is not lifted.
AcquireUnlockKept(c) ==
    /\ Ready(c, "acquire")
    /\ lock = 0
    /\ free' = free + 1
    /\ Pass(c)
    /\ UNCHANGED <<api, bw, lock, cancelled, until, punished, window>>

\* The first task that finds the lock expired lifts it, and leaves without a token.
AcquireUnlock(c) ==
    /\ Ready(c, "acquire")
    /\ lock = 0
    /\ lock' = NoLock /\ free' = free + 1
    /\ Pass(c)
    /\ UNCHANGED <<api, bw, cancelled, until, punished, window>>

\* Mutation: the time of the refill is not noted when a token is taken.
AcquireTokenStale(c) ==
    /\ Ready(c, "acquire")
    /\ lock = NoLock
    /\ Refilled(api) >= Cost
    /\ api' = [api EXCEPT !.tokens = Refilled(api) - Cost]
    /\ window' = [window EXCEPT !.api = @ + Cost]
    /\ Pass(c)
    /\ UNCHANGED <<bw, lock, cancelled, until, punished, free>>

\* Without a lock: a token if there is one...
AcquireToken(c) ==
    /\ Ready(c, "acquire")
    /\ lock = NoLock
    /\ Refilled(api) >= Cost
    /\ api' = Taken(api, Cost)
    /\ window' = [window EXCEPT !.api = @ + Cost]
    /\ Pass(c)
    /\ UNCHANGED <<bw, lock, cancelled, until, punished, free>>

\* ... or a sleep until there would be one, if nobody else takes it.
AcquireWait(c) ==
    /\ Ready(c, "acquire")
    /\ lock = NoLock
    /\ Refilled(api) < Cost
    /\ api' = TopUp(api)
    /\ Sleep(c, Cost - Refilled(api))
    /\ UNCHANGED <<bw, lock, cancelled, until, punished, free, window>>

\* What the upload c asks of the bandwidth limiter next: the whole file, or one
\* buffer of the stream while its PUT has time left.
Bytes(c) ==
    CASE Step(c) = "bytes" -> client[c].left
      [] Step(c) = "put"   -> AtMost(client[c].left, Chunk)

WantsBytes(c) ==
    \/ Ready(c, "bytes")
    \/ Ready(c, "put") /\ client[c].left > 0 /\ client[c].life > 0

\* Mutation: the bytes are granted when there is any token at all.
BytesGrantedOnCredit(c) ==
    /\ WantsBytes(c)
    /\ Refilled(bw) > 0
    /\ bw' = [tokens |-> 0, age |-> 0]
    /\ window' = [window EXCEPT !.bw = @ + Bytes(c)]
    /\ IF Step(c) = "bytes" THEN Pass(c)
       ELSE client' = [client EXCEPT ![c].left = @ - Bytes(c)]
    /\ UNCHANGED <<api, lock, cancelled, until, punished, free>>

BytesGranted(c) ==
    /\ WantsBytes(c)
    /\ Refilled(bw) >= Bytes(c)
    /\ bw' = Taken(bw, Bytes(c))
    /\ window' = [window EXCEPT !.bw = @ + Bytes(c)]
    /\ IF Step(c) = "bytes" THEN Pass(c)
       ELSE client' = [client EXCEPT ![c].left = @ - Bytes(c)]
    /\ UNCHANGED <<api, lock, cancelled, until, punished, free>>

BytesWait(c) ==
    /\ WantsBytes(c)
    /\ Refilled(bw) < Bytes(c)
    /\ bw' = TopUp(bw)
    /\ Sleep(c, Bytes(c) - Refilled(bw))
    /\ UNCHANGED <<api, lock, cancelled, until, punished, free, window>>

-----------------------------------------------------------------------------
(* Answers *)

Sent(c) == Step(c) \in {"send", "put"} /\ client[c].sleep = 0

\* Success. The search of mkdir may find the folder, which ends it.
AnswerOk(c) ==
    /\ Sent(c)
    /\ Step(c) = "put" => client[c].left = 0 /\ client[c].life > 0
    /\ \/ Pass(c)
       \/ client[c].kind = "mkdir" /\ client' = [client EXCEPT ![c] = Idle]
    /\ UNCHANGED <<api, bw, lock, cancelled, until, punished, free, window>>

\* Mutation: the last punishment replaces the others.
PunishedUntilLast(w) == w

\* handle_rate_limit: the later of two ends.
PunishedUntil(w) == IF w > lock THEN w ELSE lock

\* HTTP 429: the lock is set for everybody. A listing sleeps and asks again for the
\* same page; any other request fails.
Answer429(c) ==
    /\ Sent(c) /\ punished < MaxPunish
    /\ \E w \in Punishments :
          /\ lock' = PunishedUntil(w)
          /\ until' = IF w > until THEN w ELSE until
          /\ client' = [client EXCEPT ![c] =
                IF client[c].kind = "list"
                  THEN [kind |-> "list", step |-> 1, left |-> 0, sleep |-> w, life |-> 0]
                  ELSE Idle]
    /\ punished' = punished + 1
    /\ UNCHANGED <<api, bw, cancelled, free, window>>

\* Any other failure; a PUT that takes longer than the timeout of the client fails,
\* were it asleep in the bandwidth limiter.
Fail(c) ==
    /\ \/ Faults /\ Sent(c)
       \/ Step(c) = "put" /\ client[c].life = 0
    /\ client' = [client EXCEPT ![c] = Idle]
    /\ UNCHANGED <<api, bw, lock, cancelled, until, punished, free, window>>

\* The selects on the shutdown token: both awaits of the simple upload, the PUT of
\* the resumable one.
Cancelled(c) ==
    /\ cancelled
    /\ \/ client[c].kind = "simple" /\ Step(c) \in {"bytes", "send"}
       \/ Step(c) = "put"
    /\ client' = [client EXCEPT ![c] = Idle]
    /\ UNCHANGED <<api, bw, lock, cancelled, until, punished, free, window>>

-----------------------------------------------------------------------------
(* Time *)

Signal ==
    /\ Faults /\ ~cancelled
    /\ cancelled' = TRUE
    /\ UNCHANGED <<api, bw, lock, client, until, punished, free, window>>

Older(b) == [b EXCEPT !.age = AtMost(@ + 1, Second)]

\* One tick.
Elapse ==
    /\ window.elapsed < MaxWindow
    /\ api' = Older(api) /\ bw' = Older(bw)
    /\ lock' = IF lock = NoLock THEN NoLock ELSE Down(lock)
    /\ client' = [c \in Clients |-> [client[c] EXCEPT
          !.sleep = Down(@),
          !.life = IF Step(c) = "put" THEN Down(@) ELSE @]]
    /\ until' = Down(until)
    /\ window' = [window EXCEPT !.elapsed = @ + 1]
    /\ UNCHANGED <<cancelled, punished, free>>

\* The window watched may begin anywhere.
Watch ==
    /\ window' = [elapsed |-> 0, api |-> 0, bw |-> 0]
    /\ UNCHANGED <<api, bw, lock, client, cancelled, until, punished, free>>

Run(c) ==
    \/ AcquireLocked(c)
    \/ AcquireUnlock(c)
    \/ AcquireToken(c)
    \/ AcquireWait(c)
    \/ BytesGranted(c)
    \/ BytesWait(c)
    \/ AnswerOk(c)
    \/ Answer429(c)
    \/ Fail(c)
    \/ Cancelled(c)

Next ==
    \/ \E c \in Clients : Begin(c) \/ Run(c)
    \/ Signal
    \/ Elapse
    \/ Watch

Spec == Init /\ [][Next]_vars

\* Time passes, the tasks run, Google answers or the HTTP client gives up.
Fairness ==
    /\ WF_vars(Elapse)
    /\ WF_vars(window.elapsed = MaxWindow /\ Watch)
    /\ \A c \in Clients : WF_vars(Run(c))

FairSpec == Spec /\ Fairness

-----------------------------------------------------------------------------
(* Safety *)

Api == INSTANCE TokenBucket WITH Cap <- Second, Sizes <- {Cost},
         tokens <- api.tokens, age <- api.age,
         elapsed <- window.elapsed, spent <- window.api

Bw  == INSTANCE TokenBucket WITH Cap <- Second, Sizes <- Files \cup 1..Chunk,
         tokens <- bw.tokens, age <- bw.age,
         elapsed <- window.elapsed, spent <- window.bw

\* Whatever the requests in flight, their sleeps and the locks between them, the API
\* limiter is a token bucket of api_rate_limit_rps requests (rate_limiter.rs:68-96)...
ApiIsBucket == Api!Spec

\* ... and the bandwidth limiter, shared by the simple and the streamed uploads of
\* all the workers, one of upload_limit_kbps (bandwidth.rs:246-274).
BandwidthIsBucket == Bw!Spec

\* The requests that leave the limiter without a token are no more than the answers
\* 429 whose lock has been lifted: one each, however many tasks waited behind the
\* lock (rate_limiter.rs:59-67).
FreePerPunishment == free + (IF lock = NoLock THEN 0 ELSE 1) <= punished

\* No request leaves the limiter before the end of every Retry-After received so
\* far, several tasks punished at once with different delays included
\* (rate_limiter.rs:103-116).
LockHonoured ==
    [][\A c \in Clients :
          Step(c) = "acquire" /\ client'[c].step # client[c].step => until = 0]_vars

-----------------------------------------------------------------------------
(* Liveness *)

\* c has begun a request that is not over.
Busy(c) == client[c] # Idle

\* A request ends, in success or failure, whatever locks come in between, unless the
\* other tasks end requests again and again meanwhile. The limiters keep no queue: a task
\* that sleeps for tokens finds them taken by those that came later, and as long as
\* requests keep coming it may be overtaken for ever (bandwidth.rs:246-273,
\* rate_limiter.rs:53-97). What the code does promise is that the two buckets, the locks
\* and the sleeps never hold everybody up, and that a task left alone gets through,
\* provided that a simple upload fits into the bucket (Threshold <= Second).
RequestEnds ==
    \A c \in Clients :
        \/ []<>~Busy(c)
        \/ []<><<\E d \in Clients \ {c} : Busy(d) /\ ~Busy(d)'>>_vars

-----------------------------------------------------------------------------
(* What the documents say *)

\* docs/V2/05_PROGRESS_BANDWIDTH.md:241: with the lowest limit, 1 KiB per second, an
\* upload works, only very slowly. Without errors and shutdown its last byte leaves.
Uploaded(c) ==
    \/ client[c].kind = "simple" /\ Step(c) = "send"
    \/ Step(c) = "put" /\ client[c].left = 0 /\ client[c].life > 0

SlowUploadIsStored ==
    \A c \in Clients : client[c].kind \in {"simple", "resumable"} ~> Uploaded(c)
=============================================================================
