----------------------------- MODULE AuthProofs -----------------------------
(* Proofs about module Auth: types, and its three safety properties, for every number of
   tasks, every life of a token and every margin. *)
EXTENDS Auth, TLAPS

USE AuthAssumption DEF Absent, Empty, Torn, Whole

\* Below the freshness of a token: what is left of it and the time since it was taken
\* make up for the margin.
Margins ==
    \A c \in Callers :
        call[c].pc \in {"write", "hold"} => call[c].token.left + call[c].waited > Margin

\* Below LinkKept: between two saves the file is never anything but truncated, unless a
\* login has its answer on the way.
Linked ==
    user = "linked" /\ slips = {} =>
        \/ file = Whole /\ saved.grant \in alive
        \/ /\ file = Empty
           /\ \E c \in Callers :
                 call[c].pc = "write" /\ call[c].open /\ call[c].token.grant \in alive
        \/ \E c \in Callers : call[c].pc = "exchange" /\ call[c].token.grant \in alive

\* Below Linked: a token on its way to the file has a refresh token.
Granted ==
    slips = {} =>
        \A c \in Callers :
            call[c].pc \in {"answer", "exchange", "write"} => call[c].token.grant # 0

IInv == TypeOK /\ Margins /\ Granted /\ Linked /\ UnlinkHeld

LEMMA IdleType == Idle \in Call /\ NoToken \in Token
BY DEF Idle, Call, NoToken, Token

LEMMA GivenType == \A g \in 0..MaxGrants : Given(g) \in Token /\ Known(g) \in Token
BY DEF Given, Known, Token

LEMMA InitInv == Init => IInv
<1> SUFFICES ASSUME Init PROVE IInv
  OBVIOUS
<1>1. TypeOK
  <2>1. Given(1) \in Token
    BY GivenType
  <2>2. saved \in Token /\ call \in [Callers -> Call]
    BY IdleType, <2>1 DEF Init
  <2> QED  BY <2>2 DEF Init, TypeOK
<1>2. Margins /\ Granted /\ Linked /\ UnlinkHeld
  BY DEF Init, Given, Margins, Granted, Linked, UnlinkHeld, Idle, NoToken, At
<1> QED  BY <1>1, <1>2 DEF IInv

-----------------------------------------------------------------------------
(* Types *)

LEMMA OlderType ==
  ASSUME NEW t \in Token
  PROVE  /\ Older(t) \in Token
         /\ Older(t).grant = t.grant
         /\ Older(t).left + 1 >= t.left
BY DEF Token, Older

LEMMA AgedType ==
  ASSUME NEW r \in Call
  PROVE  /\ Aged(r) \in Call
         /\ Aged(r).pc = r.pc /\ Aged(r).open = r.open
         /\ Aged(r).token.grant = r.token.grant
<1>1. CASE r.pc \in {"answer", "exchange"}
  BY <1>1 DEF Aged, Call, Token
<1>2. CASE r.pc \in {"write", "hold"}
  <2>1. r.token \in Token /\ r.waited \in 0..(Margin + 1)
    BY DEF Call
  <2>2. Older(r.token) \in Token /\ Older(r.token).grant = r.token.grant
    BY <2>1, OlderType
  <2> DEFINE w == IF r.waited > Margin THEN r.waited ELSE r.waited + 1
  <2>3. w \in 0..(Margin + 1)
    BY <2>1
  <2>4. Aged(r) = [r EXCEPT !.token = Older(r.token), !.waited = w]
    BY <1>2 DEF Aged
  <2> HIDE DEF w
  <2> QED  BY <2>2, <2>3, <2>4 DEF Call
<1>3. CASE r.pc \notin {"answer", "exchange", "write", "hold"}
  BY <1>3 DEF Aged
<1> QED  BY <1>1, <1>2, <1>3

LEMMA ClearType ==
  ASSUME TypeOK, NEW c \in Callers, NEW r \in Call, Clear(c, r)
  PROVE  call' \in [Callers -> Call] /\ file' = Absent /\ saved' \in Token
<1>1. \A d \in Callers : [call[d] EXCEPT !.open = FALSE] \in Call
  BY DEF TypeOK, Call
<1> QED  BY <1>1, IdleType DEF Clear

LEMMA SaveType ==
  ASSUME TypeOK, NEW c \in Callers, Save(c, call[c].token)
  PROVE  TypeOK'
<1>1. Arrived(call[c].token) \in Token
  BY DEF Arrived, TypeOK, Call, Token
<1>2. slips' \subseteq Mishaps
  BY DEF Save, TypeOK, Slip
<1> QED  BY <1>1, <1>2, IdleType DEF Save, Truncate, TypeOK, Set, Call

LEMMA DisconnectType ==
  ASSUME TypeOK, NEW c \in Callers, Disconnect(c), UNCHANGED grants,
         alive' \subseteq alive
  PROVE  TypeOK'
BY IdleType, ClearType DEF Disconnect, TypeOK, Slip

LEMMA StepTypes == TypeOK /\ [Next]_vars => TypeOK'
<1> SUFFICES ASSUME TypeOK, [Next]_vars PROVE TypeOK'
  OBVIOUS
<1>0. CASE UNCHANGED vars
  BY <1>0 DEF vars, TypeOK, Call, Token
<1> USE IdleType
<1>1. ASSUME NEW c \in Callers, Load(c) PROVE TypeOK'
  <2>1. saved \in Token /\ Known(saved.grant) \in Token
    BY GivenType DEF TypeOK, Token
  <2> QED  BY <1>1, <2>1 DEF Load, TypeOK, Set, Idle, Call
<1>2. ASSUME NEW c \in Callers, Refreshed(c) PROVE TypeOK'
  BY <1>2 DEF Refreshed, TypeOK, Set, Call
<1>3. ASSUME NEW c \in Callers, SaveRefreshed(c) \/ LoginDone(c) PROVE TypeOK'
  BY <1>3, SaveType DEF SaveRefreshed, LoginDone
<1>4. ASSUME NEW c \in Callers, Rejected(c) PROVE TypeOK'
  <2>1. [Idle EXCEPT !.pc = "login"] \in Call
    BY DEF Idle, Call
  <2> QED  BY <1>4, <2>1, ClearType DEF Rejected, TypeOK, Slip
<1>5. ASSUME NEW c \in Callers, RefreshFails(c) PROVE TypeOK'
  <2>1. [Idle EXCEPT !.pc = "login"] \in Call
    BY DEF Idle, Call
  <2> QED  BY <1>5, <2>1, ClearType DEF RefreshFails, TypeOK, Slip
<1>6. ASSUME NEW c \in Callers, Use(c) PROVE TypeOK'
  BY <1>6 DEF Use, TypeOK, Set
<1>7. ASSUME NEW c \in Callers, Exchanged(c) PROVE TypeOK'
  <2>1. ASSUME NEW g \in 0..MaxGrants
        PROVE  [Idle EXCEPT !.pc = "exchange", !.token = Given(g)] \in Call
    BY GivenType DEF Idle, Call
  <2>2. call' \in [Callers -> Call]
    <3>1. ASSUME grants < MaxGrants,
                 Set(c, [Idle EXCEPT !.pc = "exchange", !.token = Given(grants + 1)])
          PROVE  call' \in [Callers -> Call]
      <4>1. grants + 1 \in 0..MaxGrants
        BY <3>1 DEF TypeOK
      <4> QED  BY <2>1, <3>1, <4>1 DEF TypeOK, Set
    <3>2. ASSUME Set(c, [Idle EXCEPT !.pc = "exchange", !.token = Given(0)])
          PROVE  call' \in [Callers -> Call]
      <4>1. 0 \in 0..MaxGrants
        OBVIOUS
      <4> QED  BY <2>1, <3>2, <4>1 DEF TypeOK, Set
    <3> QED  BY <1>7, <3>1, <3>2 DEF Exchanged
  <2>3. alive' \subseteq 1..grants' /\ grants' \in 0..MaxGrants /\ slips' \subseteq Mishaps
    BY <1>7 DEF Exchanged, TypeOK, Slip
  <2> QED  BY <1>7, <2>2, <2>3 DEF Exchanged, TypeOK
<1>8. ASSUME NEW c \in Callers, LoginFails(c) PROVE TypeOK'
  BY <1>8 DEF LoginFails, TypeOK, Set
<1>9. ASSUME NEW c \in Callers, Write(c) \/ SaveFails(c) PROVE TypeOK'
  <2>1. [call[c] EXCEPT !.pc = "hold", !.open = FALSE] \in Call /\ call[c].token \in Token
    BY DEF TypeOK, Call
  <2>2. slips' \subseteq Mishaps
    BY <1>9 DEF Write, SaveFails, TypeOK, Slip
  <2>3. call' \in [Callers -> Call]
    BY <1>9, <2>1 DEF Write, SaveFails, TypeOK, Set
  <2> QED  BY <1>9, <2>1, <2>2, <2>3 DEF Write, SaveFails, TypeOK
<1>10. ASSUME NEW c \in Callers, Click(c) PROVE TypeOK'
  <2>1. [Idle EXCEPT !.pc = "revoke"] \in Call /\ [Idle EXCEPT !.pc = "login"] \in Call
    BY DEF Idle, Call
  <2> QED  BY <1>10, <2>1 DEF Click, TypeOK, Set
<1>11. ASSUME NEW c \in Callers, RevokeLoad(c) PROVE TypeOK'
  <2>2. CASE Readable
    <3>1. [Idle EXCEPT !.pc = "revoking", !.token = Known(saved.grant)] \in Call
      <4>1. Known(saved.grant) \in Token
        BY GivenType DEF TypeOK, Token
      <4> QED  BY <4>1 DEF Idle, Call
    <3>2. call' \in [Callers -> Call]
      BY <1>11, <2>2, <3>1 DEF RevokeLoad, TypeOK, Set
    <3> QED  BY <1>11, <2>2, <3>2 DEF RevokeLoad, TypeOK
  <2>3. CASE ~Readable
    BY <1>11, <2>3, DisconnectType DEF RevokeLoad
  <2> QED  BY <2>2, <2>3
<1>12. ASSUME NEW c \in Callers, Revoke(c) PROVE TypeOK'
  BY <1>12, DisconnectType DEF Revoke
<1>13. ASSUME GoogleEnds PROVE TypeOK'
  BY <1>13 DEF GoogleEnds, TypeOK
<1>14. ASSUME Crash PROVE TypeOK'
  BY <1>14 DEF Crash, TypeOK, Slip
<1>15. ASSUME Tick PROVE TypeOK'
  BY <1>15, AgedType, OlderType DEF Tick, TypeOK
<1> QED
  BY <1>0, <1>1, <1>2, <1>3, <1>4, <1>5, <1>6, <1>7, <1>8, <1>9, <1>10, <1>11, <1>12,
     <1>13, <1>14, <1>15 DEF Next, Run

-----------------------------------------------------------------------------
(* The margin *)

LEMMA StepMargins == TypeOK /\ Margins /\ [Next]_vars => Margins'
<1> SUFFICES ASSUME TypeOK, Margins, [Next]_vars PROVE Margins'
  OBVIOUS
<1>a. \A d \in Callers : /\ call[d] \in Call /\ call[d].token \in Token
                         /\ call[d].token.left \in Nat /\ call[d].waited \in Nat
  BY DEF TypeOK, Call, Token
<1>b. saved.left \in Nat
  BY DEF TypeOK, Token
<1>0. CASE UNCHANGED vars
  BY <1>0 DEF vars, Margins
<1>1. ASSUME NEW c \in Callers, Load(c) PROVE Margins'
  BY <1>1, <1>a, <1>b DEF Load, TypeOK, Set, Idle, Margins
<1>2. ASSUME NEW c \in Callers, Refreshed(c) PROVE Margins'
  BY <1>2 DEF Refreshed, TypeOK, Set, Margins
<1>4. ASSUME NEW c \in Callers, SaveRefreshed(c) \/ LoginDone(c) PROVE Margins'
  BY <1>4 DEF SaveRefreshed, LoginDone, Save, Arrived, Truncate, TypeOK, Set, Margins
<1>5. ASSUME NEW c \in Callers, NEW r \in Call, Clear(c, r), r.pc \notin {"write", "hold"}
      PROVE  Margins'
  BY <1>5 DEF Clear, TypeOK, Margins
<1>6. ASSUME NEW c \in Callers, Rejected(c) \/ RefreshFails(c) PROVE Margins'
  <2>1. [Idle EXCEPT !.pc = "login"] \in Call /\ [Idle EXCEPT !.pc = "login"].pc = "login"
    BY IdleType DEF Idle, Call
  <2> QED  BY <1>5, <1>6, <2>1 DEF Rejected, RefreshFails
<1>7. ASSUME NEW c \in Callers, Use(c) \/ LoginFails(c) \/ SaveFails(c) PROVE Margins'
  BY <1>7 DEF Use, LoginFails, SaveFails, TypeOK, Set, Margins, Idle
<1>8. ASSUME NEW c \in Callers, Exchanged(c) PROVE Margins'
  BY <1>8 DEF Exchanged, TypeOK, Set, Margins, Idle
<1>9. ASSUME NEW c \in Callers, Write(c) PROVE Margins'
  BY <1>9, <1>a DEF Write, At, TypeOK, Set, Margins, Idle, Call
<1>10. ASSUME NEW c \in Callers, Click(c) PROVE Margins'
  BY <1>10 DEF Click, TypeOK, Set, Margins, Idle
<1>11. ASSUME NEW c \in Callers, RevokeLoad(c) \/ Revoke(c) PROVE Margins'
  <2>2. ASSUME Disconnect(c) PROVE Margins'
    BY <1>5, <2>2, IdleType DEF Disconnect, Idle
  <2>3. ASSUME Set(c, [Idle EXCEPT !.pc = "revoking", !.token = Known(saved.grant)])
        PROVE  Margins'
    BY <2>3 DEF TypeOK, Set, Margins, Idle
  <2> QED  BY <1>11, <2>2, <2>3 DEF RevokeLoad, Revoke
<1>12. ASSUME GoogleEnds PROVE Margins'
  BY <1>12 DEF GoogleEnds, Margins
<1>13. ASSUME Crash PROVE Margins'
  BY <1>13 DEF Crash, Margins, Idle
<1>14. ASSUME Tick PROVE Margins'
  <2> SUFFICES ASSUME NEW c \in Callers, call'[c].pc \in {"write", "hold"}
               PROVE  call'[c].token.left + call'[c].waited > Margin
    BY DEF Margins
  <2>1. call'[c] = Aged(call[c])
    BY <1>14 DEF Tick
  <2>2. call[c].pc \in {"write", "hold"}
    BY <1>a, <2>1, AgedType
  <2>3. call'[c].token = Older(call[c].token)
        /\ call'[c].waited = IF call[c].waited > Margin THEN call[c].waited
                             ELSE call[c].waited + 1
    BY <1>a, <2>1, <2>2 DEF Aged, Call
  <2>4. Older(call[c].token).left \in Nat /\ Older(call[c].token).left + 1 >= call[c].token.left
    BY <1>a, OlderType DEF Token
  <2>5. call[c].token.left + call[c].waited > Margin
    BY <2>2 DEF Margins
  <2> QED  BY <1>a, <2>3, <2>4, <2>5
<1> QED
  BY <1>0, <1>1, <1>2, <1>4, <1>6, <1>7, <1>8, <1>9, <1>10, <1>11, <1>12, <1>13, <1>14
  DEF Next, Run

-----------------------------------------------------------------------------
(* The session *)

LEMMA StepGranted == TypeOK /\ Granted /\ [Next]_vars => Granted'
<1> SUFFICES ASSUME TypeOK, Granted, [Next]_vars, slips' = {}
             PROVE  Granted'
  BY DEF Granted
<1> USE DEF TypeOK, Set
<1>0. CASE UNCHANGED vars
  BY <1>0 DEF vars, Granted
<1>1. ASSUME NEW c \in Callers, NEW r, call' = [call EXCEPT ![c] = r], slips = {},
             r.pc \in {"answer", "exchange", "write"} => r.token.grant # 0
      PROVE  Granted'
  BY <1>1 DEF Granted
<1>2. ASSUME NEW c \in Callers, NEW r, Clear(c, r), slips = {},
             r.pc \notin {"answer", "exchange", "write"}
      PROVE  Granted'
  BY <1>2 DEF Clear, Granted, Call
<1>i. Idle.pc = "idle"
  BY DEF Idle
<1>3. ASSUME NEW c \in Callers, Load(c) \/ Use(c) \/ LoginFails(c) \/ SaveFails(c) \/ Click(c)
      PROVE  Granted'
  <2>1. slips = {}
    BY <1>3 DEF Load, Use, LoginFails, SaveFails, Click, Slip
  <2>2. CASE Load(c)
    <3>1. CASE saved.left > Margin
      BY <1>1, <2>1, <2>2, <3>1 DEF Load, Idle
    <3>2. CASE ~(saved.left > Margin)
      BY <1>1, <2>1, <2>2, <3>2 DEF Load, Idle
    <3> QED  BY <3>1, <3>2
  <2>3. CASE Use(c) \/ LoginFails(c) \/ SaveFails(c)
    BY <1>1, <1>i, <2>1, <2>3 DEF Use, LoginFails, SaveFails
  <2>4. CASE Click(c)
    BY <1>1, <2>1, <2>4 DEF Click, Idle
  <2> QED  BY <1>3, <2>2, <2>3, <2>4
<1>4. ASSUME NEW c \in Callers, Refreshed(c) PROVE Granted'
  <2>1. call[c].token.grant # 0
    BY <1>4 DEF Refreshed
  <2> QED  BY <1>1, <1>4, <2>1 DEF Refreshed, Call
<1>5. ASSUME NEW c \in Callers, SaveRefreshed(c) \/ LoginDone(c) PROVE Granted'
  <2>1. Save(c, call[c].token) /\ call[c].pc \in {"answer", "exchange"}
    BY <1>5 DEF SaveRefreshed, LoginDone, At
  <2>2. slips = {} /\ call[c].token.grant # 0
    BY <2>1 DEF Save, Slip, Granted
  <2> QED  BY <1>1, <2>1, <2>2 DEF Save, Truncate, Arrived
<1>6. ASSUME NEW c \in Callers, Rejected(c) \/ RefreshFails(c) PROVE Granted'
  <2>1. slips = {} /\ [Idle EXCEPT !.pc = "login"].pc = "login"
    BY <1>6 DEF Rejected, RefreshFails, Slip, Idle
  <2> QED  BY <1>2, <1>6, <2>1 DEF Rejected, RefreshFails
<1>7. ASSUME NEW c \in Callers, Exchanged(c) PROVE Granted'
  <2>1. slips = {} /\ Set(c, [Idle EXCEPT !.pc = "exchange", !.token = Given(grants + 1)])
    BY <1>7 DEF Exchanged, Slip
  <2>2. [Idle EXCEPT !.pc = "exchange", !.token = Given(grants + 1)].token.grant # 0
    BY DEF Idle, Given
  <2> QED  BY <1>1, <2>1, <2>2
<1>8. ASSUME NEW c \in Callers, Write(c) PROVE Granted'
  <2>1. slips = {}
    BY <1>8 DEF Write, Slip
  <2> QED  BY <1>1, <1>8, <1>i, <2>1 DEF Write, Call
<1>9. ASSUME NEW c \in Callers, RevokeLoad(c) \/ Revoke(c) PROVE Granted'
  <2>1. ASSUME Disconnect(c) PROVE Granted'
    BY <1>2, <1>i, <2>1 DEF Disconnect, Slip
  <2>2. CASE RevokeLoad(c) /\ Readable
    BY <1>1, <2>2 DEF RevokeLoad, Idle
  <2> QED  BY <1>9, <2>1, <2>2 DEF RevokeLoad, Revoke
<1>10. CASE GoogleEnds
  BY <1>10 DEF GoogleEnds, Granted
<1>11. CASE Crash
  BY <1>11, <1>i DEF Crash, Granted
<1>12. CASE Tick
  BY <1>12, AgedType DEF Tick, Granted
<1> QED
  BY <1>0, <1>3, <1>4, <1>5, <1>6, <1>7, <1>8, <1>9, <1>10, <1>11, <1>12 DEF Next, Run

LEMMA StepLinked == TypeOK /\ Granted /\ Linked /\ [Next]_vars => Linked'
<1> SUFFICES ASSUME TypeOK, Granted, Linked, [Next]_vars, user' = "linked", slips' = {}
             PROVE  Linked'
  BY DEF Linked
<1> USE DEF TypeOK, Set
<1>k. Linked => (user = "linked" /\ slips = {} =>
                    \/ OnDisk
                    \/ \E c \in Callers : call[c].pc = "exchange" /\ call[c].token.grant \in alive)
  BY DEF Linked, OnDisk, Saved, Readable, At
<1>0. CASE UNCHANGED vars
  BY <1>0 DEF vars, Linked
<1>1. ASSUME NEW c \in Callers, Load(c) PROVE Linked'
  BY <1>1 DEF Load, Linked, At
<1>2. ASSUME NEW c \in Callers, Refreshed(c) PROVE Linked'
  BY <1>2 DEF Refreshed, Linked, At
<1>3. ASSUME NEW c \in Callers, SaveRefreshed(c) \/ LoginDone(c) PROVE Linked'
  <2>1. Save(c, call[c].token)
    BY <1>3 DEF SaveRefreshed, LoginDone
  <2>2. user = "linked" /\ slips = {} /\ ~Ended(call[c].token)
    BY <2>1 DEF Save, Slip
  <2>5. call[c].token.grant # 0
    BY <1>3, <2>2 DEF SaveRefreshed, LoginDone, At, Granted
  <2>3. file' = Empty /\ alive' = alive /\ call'[c].pc = "write" /\ call'[c].open
        /\ call'[c].token.grant = call[c].token.grant
    BY <2>1 DEF Save, Truncate, Arrived
  <2>4. call[c].token.grant \in alive
    BY <2>2, <2>5 DEF Ended
  <2> QED  BY <2>3, <2>4 DEF Linked
<1>4. ASSUME NEW c \in Callers, Rejected(c) PROVE Linked'
  <2>1. user = "linked" /\ slips = {} /\ alive' = alive /\ ~OnDisk
    BY <1>4 DEF Rejected, Slip
  <2>2. PICK d \in Callers : call[d].pc = "exchange" /\ call[d].token.grant \in alive
    BY <1>k, <2>1
  <2>3. d # c
    BY <1>4, <2>2 DEF Rejected, At
  <2>4. call'[d].pc = "exchange" /\ call'[d].token.grant = call[d].token.grant
    BY <1>4, <2>2, <2>3 DEF Rejected, Clear, Call
  <2> QED  BY <2>1, <2>2, <2>4 DEF Linked
<1>5. ASSUME NEW c \in Callers, RefreshFails(c) PROVE FALSE
  BY <1>5 DEF RefreshFails, Slip
<1>6. ASSUME NEW c \in Callers, Use(c) \/ LoginFails(c) PROVE Linked'
  BY <1>6 DEF Use, LoginFails, Linked, At
<1>7. ASSUME NEW c \in Callers, Exchanged(c) PROVE Linked'
  <2>1. /\ grants + 1 \in alive'
        /\ Set(c, [Idle EXCEPT !.pc = "exchange", !.token = Given(grants + 1)])
    BY <1>7 DEF Exchanged, Slip
  <2>2. call'[c].pc = "exchange" /\ call'[c].token.grant = grants + 1
    BY <2>1 DEF Given, Idle
  <2> QED  BY <2>1, <2>2 DEF Linked
<1>8. ASSUME NEW c \in Callers, Write(c) PROVE Linked'
  <2>1. user = "linked" /\ alive' = alive
    BY <1>8 DEF Write
  <2>2. CASE ~call[c].open
    BY <1>8, <2>1, <2>2 DEF Write, Linked, At
  <2>3. CASE call[c].open
    <3>1. slips = {} /\ file' = Whole /\ saved' = call[c].token /\ ~Ended(call[c].token)
      BY <1>8, <2>1, <2>3 DEF Write, Slip
    <3>2. call[c].token.grant # 0
      BY <1>8, <3>1 DEF Write, At, Granted
    <3> QED  BY <2>1, <3>1, <3>2 DEF Ended, Linked
  <2> QED  BY <2>2, <2>3
<1>9. ASSUME NEW c \in Callers, Click(c) PROVE Linked'
  BY <1>9 DEF Click, Linked, At
<1>10. ASSUME NEW c \in Callers, RevokeLoad(c) PROVE Linked'
  <2>1. Readable
    BY <1>10 DEF RevokeLoad, Disconnect, Slip
  <2> QED  BY <1>10, <2>1 DEF RevokeLoad, Linked, At
<1>11. ASSUME NEW c \in Callers, Revoke(c) PROVE FALSE
  BY <1>11 DEF Revoke, Disconnect, Slip
<1>12. ASSUME GoogleEnds PROVE FALSE
  BY <1>12 DEF GoogleEnds
<1>15. ASSUME NEW c \in Callers, SaveFails(c) PROVE FALSE
  BY <1>15 DEF SaveFails, Slip
<1>13. ASSUME Crash PROVE Linked'
  <2>1. user = "linked" /\ slips = {} /\ Saved
    BY <1>13, <1>k DEF Crash, Slip, Kept, At
  <2> QED  BY <1>13, <2>1 DEF Crash, Linked, Saved, Readable
<1>14. ASSUME Tick PROVE Linked'
  <2>1. \A c \in Callers : /\ call'[c].pc = call[c].pc /\ call'[c].open = call[c].open
                           /\ call'[c].token.grant = call[c].token.grant
    BY <1>14, AgedType DEF Tick
  <2>2. saved'.grant = saved.grant
    BY <1>14, OlderType DEF Tick
  <2> QED  BY <1>14, <2>1, <2>2 DEF Tick, Linked
<1> QED
  BY <1>0, <1>1, <1>2, <1>3, <1>4, <1>5, <1>6, <1>7, <1>8, <1>9, <1>10, <1>11, <1>12,
     <1>13, <1>14, <1>15 DEF Next, Run

LEMMA StepUnlinked == TypeOK /\ UnlinkHeld /\ [Next]_vars => UnlinkHeld'
<1> SUFFICES ASSUME TypeOK, UnlinkHeld, [Next]_vars, user' = "unlinked", "undone" \notin slips'
             PROVE  UnlinkHeld'
  BY DEF UnlinkHeld
<1> USE DEF TypeOK, Set, At
<1>0. CASE UNCHANGED vars
  BY <1>0 DEF vars, UnlinkHeld
<1>1. ASSUME NEW c \in Callers, Load(c) PROVE UnlinkHeld'
  BY <1>1 DEF Load, UnlinkHeld, Idle
<1>2. ASSUME NEW c \in Callers, Refreshed(c) PROVE UnlinkHeld'
  BY <1>2 DEF Refreshed, UnlinkHeld
<1>3. ASSUME NEW c \in Callers, SaveRefreshed(c) \/ LoginDone(c) PROVE FALSE
  BY <1>3 DEF SaveRefreshed, LoginDone, Save, Slip
<1>4. ASSUME NEW c \in Callers, NEW r \in Call, Clear(c, r), r.pc # "write" PROVE UnlinkHeld'
  <2>1. \A d \in Callers : call'[d].pc = "write" => ~call'[d].open
    BY <1>4 DEF Clear, Call
  <2> QED  BY <1>4, <2>1 DEF Clear, UnlinkHeld
<1>5. ASSUME NEW c \in Callers, Rejected(c) \/ RefreshFails(c) PROVE UnlinkHeld'
  <2>1. [Idle EXCEPT !.pc = "login"] \in Call /\ [Idle EXCEPT !.pc = "login"].pc = "login"
    BY IdleType DEF Idle, Call
  <2> QED  BY <1>4, <1>5, <2>1 DEF Rejected, RefreshFails
<1>6. ASSUME NEW c \in Callers, Use(c) \/ LoginFails(c) \/ SaveFails(c) PROVE UnlinkHeld'
  BY <1>6 DEF Use, LoginFails, SaveFails, Slip, UnlinkHeld, Idle
<1>7. ASSUME NEW c \in Callers, Exchanged(c) PROVE FALSE
  BY <1>7 DEF Exchanged
<1>8. ASSUME NEW c \in Callers, Write(c) PROVE UnlinkHeld'
  <2>1. user = "unlinked" /\ "undone" \notin slips
    BY <1>8 DEF Write, Slip
  <2>2. file = Absent /\ ~call[c].open
    BY <1>8, <2>1 DEF Write, UnlinkHeld
  <2> QED  BY <1>8, <2>1, <2>2 DEF Write, UnlinkHeld, Idle
<1>9. ASSUME NEW c \in Callers, Click(c) PROVE UnlinkHeld'
  BY <1>9 DEF Click, UnlinkHeld, Idle
<1>10. ASSUME NEW c \in Callers, RevokeLoad(c) \/ Revoke(c) PROVE UnlinkHeld'
  <2>1. Idle \in Call /\ Idle.pc # "write"
    BY IdleType DEF Idle
  <2>2. ASSUME Disconnect(c) PROVE UnlinkHeld'
    BY <1>4, <2>1, <2>2 DEF Disconnect
  <2>3. CASE Revoke(c)
    BY <2>2, <2>3 DEF Revoke
  <2>4. CASE RevokeLoad(c) /\ ~Readable
    BY <2>2, <2>4 DEF RevokeLoad
  <2>5. CASE RevokeLoad(c) /\ Readable
    BY <2>5 DEF RevokeLoad, Readable, UnlinkHeld
  <2> QED  BY <1>10, <2>3, <2>4, <2>5
<1>11. ASSUME GoogleEnds PROVE UnlinkHeld'
  BY <1>11 DEF GoogleEnds, UnlinkHeld
<1>12. ASSUME Crash PROVE UnlinkHeld'
  BY <1>12 DEF Crash, Slip, UnlinkHeld, Idle
<1>13. ASSUME Tick PROVE UnlinkHeld'
  <2>1. \A c \in Callers : call'[c].pc = call[c].pc /\ call'[c].open = call[c].open
    BY <1>13, AgedType DEF Tick
  <2> QED  BY <1>13, <2>1 DEF Tick, UnlinkHeld
<1> QED
  BY <1>0, <1>1, <1>2, <1>3, <1>5, <1>6, <1>7, <1>8, <1>9, <1>10, <1>11, <1>12, <1>13
  DEF Next, Run

-----------------------------------------------------------------------------
(* Theorems *)

LEMMA Inductive == Spec => []IInv
<1>1. IInv /\ [Next]_vars => IInv'
  BY StepTypes, StepMargins, StepGranted, StepLinked, StepUnlinked DEF IInv
<1> QED  BY InitInv, <1>1, PTL DEF Spec

\* Types of the session, for every number of tasks (google_auth.rs, storage.rs).
THEOREM AuthTypes == Spec => []TypeOK
<1>1. IInv => TypeOK
  BY DEF IInv
<1> QED  BY <1>1, Inductive, PTL

\* Whatever the life of the tokens and the margin, a token used in time is not one that
\* Google has let expire (google_auth.rs:82, 139).
THEOREM TokenFreshCorrect == Spec => []TokenFresh
<1>1. IInv => TokenFresh
  <2> SUFFICES ASSUME IInv, NEW c \in Callers, call[c].pc = "hold",
                      call[c].token.lag + call[c].waited <= Margin
               PROVE  call[c].token.left > call[c].token.lag
    BY DEF TokenFresh, At
  <2>1. call[c].token.left \in Nat /\ call[c].token.lag \in Nat /\ call[c].waited \in Nat
    BY DEF IInv, TypeOK, Call, Token
  <2>2. call[c].token.left + call[c].waited > Margin
    BY DEF IInv, Margins
  <2> QED  BY <2>1, <2>2
<1> QED  BY <1>1, Inductive, PTL

\* With any number of tasks and clicks that refresh, clear and save at once, a linked
\* account stays linked unless one of the nine mishaps of Slips happens
\* (google_auth.rs:101-148, storage.rs:89, oauth2.rs:186-189, settings.rs:206-235).
THEOREM LinkKeptCorrect == Spec => []LinkKept
<1>1. IInv => LinkKept
  BY DEF IInv, Linked, LinkKept, Kept, OnDisk, Saved, Readable, At
<1> QED  BY <1>1, Inductive, PTL

\* A disconnected account stays so but for a refresh or a login that was under way
\* (google_auth.rs:155-182).
THEOREM UnlinkHeldCorrect == Spec => []UnlinkHeld
<1>1. IInv => UnlinkHeld
  BY DEF IInv
<1> QED  BY <1>1, Inductive, PTL

=============================================================================
