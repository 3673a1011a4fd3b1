-------------------------------- MODULE Auth --------------------------------
(***************************************************************************)
(* The session with Google: tokens.enc on the disk (auth/storage.rs), the  *)
(* tasks that ask GoogleAuth::get_valid_token for a token before each      *)
(* request (auth/google_auth.rs), the login in the browser (auth/oauth2.rs)*)
(* and the clicks on the button of the Settings window that links and      *)
(* revokes the account (ui/settings.rs). Nothing serialises them: each     *)
(* caller loads, refreshes, clears and saves the file on a thread of its   *)
(* own.                                                                    *)
(*                                                                         *)
(* A grant stands for a refresh token and what Google knows of it. A token *)
(* is an access token: its grant, the time the client believes it has left *)
(* (expires_at - now), and the lag by which the client overrates it, for   *)
(* expires_at is computed when the answer arrives.                         *)
(***************************************************************************)
EXTENDS Integers, FiniteSets

CONSTANTS
    Tasks,       \* callers of get_valid_token
    Clicks,      \* clicks under way at once: the button stays enabled while it revokes,
                 \* and each Settings window has its own
    Life,        \* expires_in
    Margin,      \* the 300 s of get_valid_token
    MaxGrants,   \* bound of the model: logins
    Mishaps,     \* what may go wrong: a subset of Slips
    MaxSlips     \* bound of the model: kinds of mishap in one behaviour

\* What can part the file from what the user and Google agreed on:
\*   offline  a refresh that Google did not reject fails, and the file is cleared
\*   late     a refresh that Google rejected clears a file that another has saved since
\*   older    a save puts a token that Google has ended over that of a newer login
\*   undone   a refresh or a login under way saves its token after the account was
\*            disconnected
\*   crossed  a click that revokes ends the account that a later login has linked
\*   mixed    two saves write into the file at once
\*   disk     a save fails, and leaves the file as it is or truncated
\*   nogrant  Google answers a login without a refresh token, and "" is saved for it
\*   crash    the process ends between a login and its save, or in the middle of a save
Slips == {"offline", "late", "older", "undone", "crossed", "mixed", "disk", "nogrant", "crash"}

ASSUME AuthAssumption ==
    /\ Tasks \cap Clicks = {}
    /\ Life \in Nat /\ Margin \in Nat /\ Margin < Life
    /\ MaxGrants \in Nat \ {0} /\ Mishaps \subseteq Slips /\ MaxSlips \in Nat

VARIABLES
    file,      \* tokens.enc: a token, unreadable, or absent
    saved,     \* the token in it
    alive,     \* grants that Google accepts
    grants,    \* grants given so far
    call,      \* what each task, and each click, is doing
    user,      \* history: what the user wants: "linked" when Google gives the grant,
               \* "leaving" at the click, "unlinked" when the file is gone; "ended" by Google
    slips      \* history: the mishaps so far

vars == <<file, saved, alive, grants, call, user, slips>>

Callers == Tasks \cup Clicks
Absent  == "absent"
Empty   == "empty"     \* truncated by std::fs::write
Torn    == "torn"      \* two contents mixed
Whole   == "whole"     \* a token

Token == [grant : 0..MaxGrants, left : 0..Life, lag : 0..Life]
NoToken == [grant |-> 0, left |-> 0, lag |-> 0]

\* The refresh token alone; a token as Google gives it; one that took its time to come.
Known(g)   == [grant |-> g, left |-> 0, lag |-> 0]
Given(g)   == [grant |-> g, left |-> Life, lag |-> 0]
Arrived(t) == [grant |-> t.grant, left |-> Life, lag |-> t.lag]

\* `open` says that the file a save has opened is still the one of that name.
Idle == [pc |-> "idle", token |-> NoToken, waited |-> 0, open |-> FALSE]

Call == [pc : {"idle", "refresh", "answer", "login", "exchange", "write", "hold", "revoke", "revoking"},
         token : Token, waited : 0..(Margin + 1), open : BOOLEAN]

TypeOK ==
    /\ file \in {Absent, Empty, Torn, Whole} /\ saved \in Token
    /\ alive \subseteq 1..grants /\ grants \in 0..MaxGrants
    /\ call \in [Callers -> Call]
    /\ user \in {"linked", "leaving", "unlinked", "ended"}
    /\ slips \subseteq Mishaps

Readable == file = Whole

At(c, pc) == call[c].pc = pc
Set(c, r) == call' = [call EXCEPT ![c] = r]
Slip(s)   ==
    /\ s \in Mishaps /\ Cardinality(slips \cup {s}) <= MaxSlips
    /\ slips' = slips \cup {s}

\* A session saved in the file, fresh, or no account yet.
Init ==
    /\ \/ file = Whole /\ saved = Given(1)
          /\ grants = 1 /\ alive = {1} /\ user = "linked"
       \/ file = Absent /\ saved = NoToken /\ grants = 0 /\ alive = {} /\ user = "unlinked"
    /\ call = [c \in Callers |-> Idle]
    /\ slips = {}

-----------------------------------------------------------------------------
(* EncryptedFileStorage *)

\* The first half of store: std::fs::write opens the file and truncates it.
Truncate(c, t) ==
    /\ file' = Empty /\ saved' = NoToken
    /\ Set(c, [pc |-> "write", token |-> t, waited |-> 0, open |-> TRUE])

\* What Google accepts is in the file, is being written, or on its way from a login.
Saved  == Readable /\ saved.grant \in alive
OnDisk == Saved \/ \E c \in Callers :
                       At(c, "write") /\ call[c].open /\ call[c].token.grant \in alive
Kept   == OnDisk \/ \E c \in Callers : At(c, "exchange") /\ call[c].token.grant \in alive

\* A token that Google has ended; not the empty one of an answer without refresh token.
Ended(t) == t.grant \notin alive \cup {0}

\* clear, by a caller that goes on as r: a save that has the file open will write nowhere.
Clear(c, r) ==
    /\ file' = Absent /\ saved' = NoToken
    /\ call' = [d \in Callers |-> IF d = c THEN r ELSE [call[d] EXCEPT !.open = FALSE]]

\* The second half of store, and the end of the call.
Write(c) ==
    /\ At(c, "write")
    /\ Set(c, IF c \in Clicks THEN Idle ELSE [call[c] EXCEPT !.pc = "hold", !.open = FALSE])
    /\ \/ ~call[c].open /\ UNCHANGED <<file, saved, slips>>
       \/ call[c].open /\ file' = Whole /\ saved' = call[c].token
          /\ IF user = "linked" /\ Ended(call[c].token)
               THEN Slip("older") ELSE UNCHANGED slips
       \/ call[c].open /\ file # Empty /\ file' = Torn /\ saved' = NoToken /\ Slip("mixed")
    /\ UNCHANGED <<alive, grants, user>>

\* store fails where it opens the file or where it writes into it: get_valid_token has
\* no token to give, and the window writes a line in the log.
SaveFails(c) ==
    /\ At(c, "answer") \/ At(c, "exchange") \/ At(c, "write")
    /\ Set(c, Idle)
    /\ IF user = "linked" THEN Slip("disk") ELSE UNCHANGED slips
    /\ UNCHANGED <<file, saved, alive, grants, user>>

\* store begins with a token that has just arrived.
Save(c, t) ==
    /\ Truncate(c, Arrived(t))
    /\ CASE user = "unlinked" -> Slip("undone")
         [] user = "linked" /\ Ended(t) -> Slip("older")
         [] OTHER -> UNCHANGED slips
    /\ UNCHANGED <<alive, grants, user>>

-----------------------------------------------------------------------------
(* get_valid_token *)

\* Mutation: a token is used to its last second.
LoadNoMargin(c) ==
    /\ c \in Tasks /\ At(c, "idle") /\ Readable
    /\ Set(c, IF saved.left > 0
                THEN [Idle EXCEPT !.pc = "hold", !.token = saved]
                ELSE [Idle EXCEPT !.pc = "refresh", !.token = Known(saved.grant)])
    /\ UNCHANGED <<file, saved, alive, grants, user, slips>>

\* A readable file: its token, or a refresh. (Without one the call fails at once: a file
\* that is absent, empty or torn opens no browser.)
Load(c) ==
    /\ c \in Tasks /\ At(c, "idle") /\ Readable
    /\ Set(c, IF saved.left > Margin
                THEN [Idle EXCEPT !.pc = "hold", !.token = saved]
                ELSE [Idle EXCEPT !.pc = "refresh", !.token = Known(saved.grant)])
    /\ UNCHANGED <<file, saved, alive, grants, user, slips>>

\* Google gives a new access token, and its life begins...
Refreshed(c) ==
    /\ At(c, "refresh") /\ call[c].token.grant \in alive
    /\ Set(c, [call[c] EXCEPT !.pc = "answer"])
    /\ UNCHANGED <<file, saved, alive, grants, user, slips>>

\* Mutation: without a new refresh token in the answer, none is saved.
SaveRefreshedDefault(c) ==
    /\ At(c, "answer")
    /\ Truncate(c, [Arrived(call[c].token) EXCEPT !.grant = 0])
    /\ UNCHANGED <<alive, grants, user, slips>>

\* ... then the answer arrives and is saved, with the refresh token loaded before.
SaveRefreshed(c) == At(c, "answer") /\ Save(c, call[c].token)

\* Google rejects the refresh token: the file is cleared, whatever it holds by now,
\* and the browser opened.
Rejected(c) ==
    /\ At(c, "refresh") /\ call[c].token.grant \notin alive
    /\ Clear(c, [Idle EXCEPT !.pc = "login"])
    /\ IF OnDisk THEN Slip("late") ELSE UNCHANGED slips
    /\ UNCHANGED <<alive, grants, user>>

\* Any other error of the refresh is taken for a rejection.
RefreshFails(c) ==
    /\ At(c, "refresh") \/ At(c, "answer")
    /\ Clear(c, [Idle EXCEPT !.pc = "login"])
    /\ Slip("offline")
    /\ UNCHANGED <<alive, grants, user>>

\* The task sends its request with the token.
Use(c) ==
    /\ At(c, "hold")
    /\ Set(c, Idle)
    /\ UNCHANGED <<file, saved, alive, grants, user, slips>>

-----------------------------------------------------------------------------
(* authenticate *)

\* The user has authorised the application in the browser, and Google exchanges the code
\* for a token of a new grant, or for one without a refresh token.
Exchanged(c) ==
    /\ At(c, "login")
    /\ \/ /\ grants < MaxGrants
          /\ grants' = grants + 1 /\ alive' = alive \cup {grants + 1}
          /\ Set(c, [Idle EXCEPT !.pc = "exchange", !.token = Given(grants + 1)])
          /\ UNCHANGED slips
       \/ /\ Slip("nogrant")
          /\ Set(c, [Idle EXCEPT !.pc = "exchange", !.token = Given(0)])
          /\ UNCHANGED <<alive, grants>>
    /\ user' = "linked"
    /\ UNCHANGED <<file, saved>>

\* The answer arrives and is saved.
LoginDone(c) == At(c, "exchange") /\ Save(c, call[c].token)

\* A redirection without a code, or a failed exchange, whose grant nobody knows. Without a
\* redirection the wait is for ever.
LoginFails(c) ==
    /\ At(c, "login")
    /\ Set(c, Idle)
    /\ UNCHANGED <<file, saved, alive, grants, user, slips>>

-----------------------------------------------------------------------------
(* The button of the Settings window *)

\* is_locally_connected tells which of the two it is.
Click(c) ==
    /\ c \in Clicks /\ At(c, "idle")
    /\ IF Readable
         THEN Set(c, [Idle EXCEPT !.pc = "revoke"]) /\ user' = "leaving"
         ELSE Set(c, [Idle EXCEPT !.pc = "login"]) /\ UNCHANGED user
    /\ UNCHANGED <<file, saved, alive, grants, slips>>

\* The end of revoke_token: the file is removed, whoever has saved it.
Disconnect(c) ==
    /\ Clear(c, Idle)
    /\ IF user = "linked"
         THEN Slip("crossed") /\ UNCHANGED user
         ELSE user' = "unlinked" /\ UNCHANGED slips

\* revoke_token loads the file again: with a token, Google is told first.
RevokeLoad(c) ==
    /\ At(c, "revoke")
    /\ IF Readable
         THEN /\ Set(c, [Idle EXCEPT !.pc = "revoking", !.token = Known(saved.grant)])
              /\ UNCHANGED <<file, saved, user, slips>>
         ELSE Disconnect(c)
    /\ UNCHANGED <<alive, grants>>

\* Mutation: without an answer from Google the file stays.
RevokeOnlineOnly(c) ==
    /\ At(c, "revoking")
    /\ \/ alive' = alive \ {call[c].token.grant} /\ Disconnect(c)
       \/ Set(c, Idle) /\ user' = "unlinked" /\ UNCHANGED <<alive, file, saved, slips>>
    /\ UNCHANGED grants

\* The file is removed whether Google was reached or not.
Revoke(c) ==
    /\ At(c, "revoking")
    /\ alive' \in {alive, alive \ {call[c].token.grant}}
    /\ Disconnect(c)
    /\ UNCHANGED grants

-----------------------------------------------------------------------------
(* Google, the process, time *)

\* The user removes the application in the Google account, or the grant expires.
GoogleEnds ==
    /\ alive # {}
    /\ alive' = {}
    /\ user' = IF user = "linked" THEN "ended" ELSE user
    /\ UNCHANGED <<file, saved, grants, call, slips>>

\* The process ends and starts again.
Crash ==
    /\ call' = [c \in Callers |-> Idle]
    /\ IF user = "linked" /\ Kept /\ ~Saved THEN Slip("crash") ELSE UNCHANGED slips
    /\ UNCHANGED <<file, saved, alive, grants, user>>

\* Mutation: what is left of a token is not bounded.
OlderUnbounded(t) == [t EXCEPT !.left = @ - 1]

Older(t) == [t EXCEPT !.left = IF @ = 0 THEN 0 ELSE @ - 1]

\* The token of an answer under way ages, but the client will not know.
Aged(r) ==
    CASE r.pc \in {"answer", "exchange"} -> [r EXCEPT !.token.lag = IF @ = Life THEN @ ELSE @ + 1]
      [] r.pc \in {"write", "hold"} ->
             [r EXCEPT !.token = Older(@), !.waited = IF @ > Margin THEN @ ELSE @ + 1]
      [] OTHER -> r

Tick ==
    /\ saved' = Older(saved)
    /\ call' = [c \in Callers |-> Aged(call[c])]
    /\ UNCHANGED <<file, alive, grants, user, slips>>

Run(c) ==
    \/ Load(c)
    \/ Refreshed(c)
    \/ SaveRefreshed(c)
    \/ Rejected(c)
    \/ RefreshFails(c)
    \/ Use(c)
    \/ Exchanged(c)
    \/ LoginDone(c)
    \/ LoginFails(c)
    \/ Write(c)
    \/ SaveFails(c)
    \/ Click(c)
    \/ RevokeLoad(c)
    \/ Revoke(c)

Next ==
    \/ \E c \in Callers : Run(c)
    \/ GoogleEnds
    \/ Crash
    \/ Tick

Spec == Init /\ [][Next]_vars

-----------------------------------------------------------------------------
(* Safety *)

\* The token of a request is one that Google has not let expire, as long as what the
\* answer of Google took on the way and what the request has waited since do not exceed
\* the margin of five minutes (google_auth.rs:82, 139): the clock of the client starts at
\* the answer, and another task may have saved the token meanwhile.
TokenFresh ==
    \A c \in Callers :
        At(c, "hold") /\ call[c].token.lag + call[c].waited <= Margin
            => call[c].token.left > call[c].token.lag

\* The user who has linked the account, and whose access Google has not ended, need not
\* link it again: the file has, or is about to have, a token that Google accepts, however
\* many tasks refresh, clear and save it at once. What can take the account away is one
\* of the nine mishaps of Slips, each a line of the code, and nothing else
\* (google_auth.rs:101-148, storage.rs:89, oauth2.rs:186-189, settings.rs:206-235).
LinkKept == user = "linked" => Kept \/ slips # {}

\* A disconnected account stays so: no file, and no save that could make one, until the
\* user links it again, but for a refresh or a login that was under way
\* (google_auth.rs:155-182).
UnlinkHeld ==
    user = "unlinked" /\ "undone" \notin slips =>
        /\ file = Absent
        /\ \A c \in Callers : At(c, "write") => ~call[c].open
=============================================================================
