----------------------------- MODULE DesktopProofs -----------------------------
(* Proofs about module Desktop: types, that the configuration survives, and that the
   commands of windows and menu do what the user means, for all windows, channel
   capacities and configurations. *)
EXTENDS Desktop, SequenceTheorems, TLAPS

USE DesktopAssumption

LEMMA AlphabetMembers ==
  /\ {"Pause", "Resume", "ForceScan", "OpenSettings", "OpenHelp", "Shutdown"} \subseteq Alphabet
  /\ Configs \subseteq Alphabet
BY DEF Alphabet

LEMMA TailType ==
  ASSUME NEW S, NEW q \in Seq(S), q # <<>>
  PROVE  /\ Head(q) \in S /\ Tail(q) \in Seq(S) /\ Len(Tail(q)) = Len(q) - 1
         /\ Len(q) \in Nat \ {0} /\ q[1] = Head(q)
         /\ \A i \in 1..(Len(q) - 1) : Tail(q)[i] = q[i + 1]
OBVIOUS

LEMMA AppendType ==
  ASSUME NEW S, NEW q \in Seq(S), NEW x \in S
  PROVE  /\ Append(q, x) \in Seq(S) /\ Len(Append(q, x)) = Len(q) + 1 /\ Len(q) \in Nat
         /\ \A i \in 1..Len(q) : Append(q, x)[i] = q[i]
         /\ Append(q, x)[Len(q) + 1] = x
OBVIOUS

-----------------------------------------------------------------------------
(* Types *)

\* A window that saves knows what; there is an engine after main has booted, and
\* neither window nor command before; only a loop
\* that selects is paused; the backup is complete before the file is touched.
StateInv ==
    /\ \A w \in Windows : win[w] = "saving" => entered[w] \in Configs
    /\ mode = "none" <=> main \notin {"select", "send", "wait"}
    /\ mode = "none" => cmdq = <<>> /\ \A w \in Windows : win[w] = "closed"
    /\ paused => mode \in {"loop", "stopped"}
    /\ main \in {"empty", "fill"} => bak = "v1"

Inv == TypeOK /\ StateInv

LEMMA IdleTypes ==
  /\ AllClosed \in [Windows -> {"closed", "settings", "saving", "saved", "help"}]
  /\ [w \in Windows |-> "none"] \in [Windows -> Configs \cup {"none"}]
  /\ \A w \in Windows : AllClosed[w] = "closed"
  /\ <<>> \in Seq(Alphabet) /\ Len(<<>>) <= CmdCap
BY DEF AllClosed

LEMMA GoneInv ==
  ASSUME Inv, Gone, UNCHANGED diskVars, had' \in BOOLEAN, slips' \subseteq Kinds
  PROVE  Inv'
<1>1. TypeOK'
  BY IdleTypes DEF Inv, TypeOK, Gone, diskVars
<1>2. StateInv'
  BY IdleTypes DEF StateInv, Gone
<1> QED  BY <1>1, <1>2 DEF Inv

LEMMA InitInv == Init => Inv
<1> SUFFICES ASSUME Init PROVE Inv
  OBVIOUS
<1>1. TypeOK
  <2>1. had \in BOOLEAN
    BY DEF Init
  <2>2. /\ mode = "none" /\ paused = FALSE /\ again = FALSE /\ ending = FALSE /\ cmdq = <<>>
        /\ main = "off" /\ held = "none" /\ hushed = FALSE
        /\ gtk = FALSE /\ win = AllClosed /\ entered = [w \in Windows |-> "none"]
    BY DEF Init, Idle
  <2>3. /\ file \in {"absent", "v1", "empty", "inactive"} \cup Configs
        /\ bak = "none" /\ slips \subseteq Kinds
    BY DEF Init
  <2> QED  BY <2>1, <2>2, <2>3, IdleTypes DEF TypeOK
<1>2. StateInv
  BY IdleTypes DEF StateInv, Init, Idle
<1> QED  BY <1>1, <1>2 DEF Inv

LEMMA ReceiveType ==
  ASSUME TypeOK, NEW c, Receive(c)
  PROVE  c \in Alphabet /\ cmdq' \in Seq(Alphabet) /\ Len(cmdq') <= CmdCap
BY TailType DEF TypeOK, Receive

LEMMA TrySendType ==
  ASSUME TypeOK, NEW c \in Alphabet, TrySend(c)
  PROVE  cmdq' \in Seq(Alphabet) /\ Len(cmdq') <= CmdCap
<1>1. CASE cmdq' = cmdq
  BY <1>1 DEF TypeOK
<1>2. CASE cmdq' # cmdq
  <2>1. cmdq' = Append(cmdq, c) /\ Len(cmdq) # CmdCap
    BY <1>2 DEF TrySend, Full
  <2>2. cmdq \in Seq(Alphabet) /\ Len(cmdq) <= CmdCap /\ Len(cmdq) \in Nat
    BY DEF TypeOK
  <2>3. cmdq' \in Seq(Alphabet) /\ Len(cmdq') = Len(cmdq) + 1
    BY <2>1, <2>2, AppendType
  <2> QED  BY <2>1, <2>2, <2>3
<1> QED  BY <1>1, <1>2

LEMMA MainStartsInv == Inv /\ MainStarts => Inv'
<1> SUFFICES ASSUME Inv, MainStarts PROVE Inv'
  OBVIOUS
<1> USE DEF Inv, TypeOK, StateInv, lifeVars, diskVars, windowVars, histVars, Starting
<1>1. CASE Launch
  BY <1>1 DEF Launch
<1>2. CASE LoggedIn
  BY <1>2 DEF LoggedIn
<1>3. CASE Load
  BY <1>3 DEF Load
<1>4. CASE Backup
  BY <1>4 DEF Backup
<1>5. CASE Migrate
  BY <1>5 DEF Migrate
<1>6. CASE Boot
  <2>1. CASE file = "inactive"
    BY <1>6, <2>1, GoneInv DEF Boot
  <2>2. CASE file # "inactive"
    <3>1. /\ main' = "select" /\ gtk' = TRUE /\ mode' \in {"first", "setup"}
          /\ held' \in Configs \cup {"none"}
          /\ UNCHANGED <<paused, again, ending, cmdq, win, entered, hushed, file, bak, had, slips>>
      BY <1>6, <2>2 DEF Boot
    <3>2. ~paused
      BY <1>6 DEF Boot
    <3>3. TypeOK'
      BY <3>1
    <3>4. StateInv'
      BY <3>1, <3>2
    <3> QED  BY <3>3, <3>4
  <2> QED  BY <2>1, <2>2
<1> QED  BY <1>1, <1>2, <1>3, <1>4, <1>5, <1>6 DEF MainStarts

LEMMA EngineInv ==
  Inv /\ (EngineHears \/ EngineApplies \/ EngineTurns \/ Stops \/ SetupHears \/ TrayHearsStopped)
    => Inv'
<1> SUFFICES ASSUME Inv, EngineHears \/ EngineApplies \/ EngineTurns \/ Stops \/ SetupHears
                         \/ TrayHearsStopped
             PROVE  Inv'
  OBVIOUS
<1>1. UNCHANGED <<main, diskVars, windowVars, histVars>>
  BY DEF EngineHears, EngineApplies, EngineTurns, Stops, EngineStops, SetupStops, SetupHears,
         TrayHearsStopped, EngineOnly
<1> SUFFICES /\ mode' \in {"none", "setup", "first", "scan", "loop", "deaf", "busy", "stopped"}
             /\ mode' = "none" <=> mode = "none"
             /\ mode = "none" => cmdq' = cmdq
             /\ paused' \in BOOLEAN /\ again' \in BOOLEAN /\ ending' \in BOOLEAN
             /\ cmdq' \in Seq(Alphabet) /\ Len(cmdq') <= CmdCap
             /\ held' \in Configs \cup {"none"}
             /\ paused' => mode' \in {"loop", "stopped"}
  BY <1>1 DEF Inv, TypeOK, StateInv, diskVars, windowVars, histVars
<1>2. ASSUME NEW c, Receive(c) PROVE cmdq' \in Seq(Alphabet) /\ Len(cmdq') <= CmdCap
  BY <1>2, ReceiveType DEF Inv
<1> USE DEF Inv, TypeOK, StateInv, Listening, Take
<1>3. CASE EngineHears
  <2>1. CASE HearShutdown
    BY <1>2, <1>3, <2>1 DEF EngineHears, HearShutdown
  <2>2. CASE Resume
    BY <1>2, <1>3, <2>2 DEF EngineHears, Resume
  <2>3. CASE ForceScan
    BY <1>2, <1>3, <2>3 DEF EngineHears, ForceScan
  <2>4. ASSUME NEW c \in Alphabet, Suspend(c) \/ Cut(c) \/ Lose(c)
        PROVE  /\ mode' \in {"loop", mode} /\ mode # "none" /\ again' \in BOOLEAN /\ ending' = ending
               /\ paused' \in BOOLEAN /\ Receive(c) /\ (paused' => mode' \in {"loop", "stopped"})
    <3>1. CASE Suspend(c)
      BY <3>1 DEF Suspend
    <3>2. CASE Cut(c)
      BY <3>2 DEF Cut
    <3>3. CASE Lose(c)
      BY <3>3 DEF Lose
    <3> QED  BY <2>4, <3>1, <3>2, <3>3
  <2> QED  BY <1>2, <1>3, <2>1, <2>2, <2>3, <2>4 DEF EngineHears, Hear
<1>4. CASE EngineApplies
  <2>1. PICK c \in Configs : Apply(c) /\ held' = c
    BY <1>4 DEF EngineApplies
  <2> QED  BY <1>2, <2>1 DEF Apply
<1>5. CASE EngineTurns
  BY <1>5 DEF EngineTurns, Return, Leave
<1>6. CASE Stops
  BY <1>6 DEF Stops, EngineStops, SetupStops, Stop
<1>7. CASE SetupHears
  <2>1. PICK c \in Alphabet :
          /\ Receive(c)
          /\ \/ c \in Configs /\ mode' = "first" /\ held' = c /\ UNCHANGED ending
             \/ c # "Shutdown" /\ UNCHANGED <<mode, held, ending>>
             \/ c = "Shutdown" /\ mode' = "stopped" /\ ending' = TRUE /\ UNCHANGED held
    BY <1>7 DEF SetupHears
  <2> QED  BY <1>2, <1>7, <2>1 DEF SetupHears
<1>8. CASE TrayHearsStopped
  BY <1>8 DEF TrayHearsStopped
<1> QED  BY <1>3, <1>4, <1>5, <1>6, <1>7, <1>8

\* What a command of a window or of main does to the channel.
LEMMA SentInv ==
  ASSUME Inv, NEW c \in Alphabet, TrySend(c)
  PROVE  /\ cmdq' \in Seq(Alphabet) /\ Len(cmdq') <= CmdCap
         /\ UNCHANGED <<mode, paused, again, ending>>
BY TrySendType DEF Inv, TrySend

LEMMA WindowInv == Inv /\ (\E w \in Windows : WindowStep(w)) => Inv'
<1> SUFFICES ASSUME Inv, NEW w \in Windows, WindowStep(w) PROVE Inv'
  OBVIOUS
<1> USE DEF Inv, TypeOK, StateInv, Turn, lifeVars, diskVars, histVars
<1>1. \A others : Overlap(others) \subseteq Kinds /\ Dropped \subseteq Kinds
  BY DEF Overlap, Dropped, Kinds
<1>a. mode # "none"
  BY DEF WindowStep, OpenSettings, SaveBegins, SaveFills, SaveFails, CloseWindow, OpenHelp,
         Mine, Alive
<1>2. CASE OpenSettings(w)
  <2>1. /\ cmdq' \in Seq(Alphabet) /\ Len(cmdq') <= CmdCap
        /\ UNCHANGED <<mode, paused, again, ending>>
    BY <1>2, AlphabetMembers, SentInv DEF OpenSettings
  <2>2. slips' \subseteq Kinds
    BY <1>1, <1>2 DEF OpenSettings, Slip, Kinds
  <2>3. CASE file \in Configs
    BY <1>a, <1>2, <2>1, <2>2, <2>3 DEF OpenSettings
  <2>4. CASE file \notin Configs
    <3>1. gtk' = FALSE /\ win' = AllClosed /\ entered' = [v \in Windows |-> "none"]
          /\ UNCHANGED <<main, file, bak, held, had, hushed>>
      BY <1>2, <2>4 DEF OpenSettings
    <3>a. /\ win' \in [Windows -> {"closed", "settings", "saving", "saved", "help"}]
          /\ entered' \in [Windows -> Configs \cup {"none"}] /\ gtk' \in BOOLEAN
      BY <3>1, IdleTypes
    <3>2. TypeOK'
      BY <2>1, <2>2, <3>1, <3>a
    <3>3. StateInv'
      BY <1>a, <2>1, <3>1, IdleTypes
    <3> QED  BY <3>2, <3>3
  <2> QED  BY <2>3, <2>4
<1>3. ASSUME NEW c \in Configs, SaveBegins(w, c) PROVE Inv'
  BY <1>a, <1>3 DEF SaveBegins
<1>4. CASE SaveFills(w)
  <2>1. entered[w] \in Configs /\ entered[w] \in Alphabet
    BY <1>4, AlphabetMembers DEF SaveFills
  <2>2. /\ cmdq' \in Seq(Alphabet) /\ Len(cmdq') <= CmdCap
        /\ UNCHANGED <<mode, paused, again, ending>>
    BY <1>4, <2>1, SentInv DEF SaveFills
  <2>3. slips' \subseteq Kinds
    BY <1>1, <1>4 DEF SaveFills, Slip
  <2> QED  BY <1>a, <1>4, <2>1, <2>2, <2>3 DEF SaveFills
<1>5. CASE SaveFails(w)
  BY <1>a, <1>5 DEF SaveFails, Slip, Kinds
<1>6. CASE CloseWindow(w)
  <2>1. /\ cmdq' \in Seq(Alphabet) /\ Len(cmdq') <= CmdCap
        /\ UNCHANGED <<mode, paused, again, ending>>
    BY <1>6, AlphabetMembers, SentInv DEF CloseWindow
  <2>2. slips' \subseteq Kinds
    BY <1>1, <1>6 DEF CloseWindow, Slip
  <2>3. /\ win' = [win EXCEPT ![w] = "closed"] /\ entered' = [entered EXCEPT ![w] = "none"]
        /\ hushed' = FALSE /\ UNCHANGED <<main, file, bak, gtk, held, had>>
    BY <1>6 DEF CloseWindow
  <2>a. /\ win' \in [Windows -> {"closed", "settings", "saving", "saved", "help"}]
        /\ entered' \in [Windows -> Configs \cup {"none"}]
    BY <2>3
  <2>b. hushed' \in BOOLEAN /\ had' \in BOOLEAN /\ gtk' \in BOOLEAN /\ ending' \in BOOLEAN
    BY <1>a, <2>1, <2>3
  <2>4. TypeOK'
    BY <2>1, <2>2, <2>3, <2>a, <2>b
  <2>5. StateInv'
    BY <1>a, <2>1, <2>3
  <2> QED  BY <2>4, <2>5
<1>7. CASE OpenHelp(w)
  <2>1. /\ cmdq' \in Seq(Alphabet) /\ Len(cmdq') <= CmdCap
        /\ UNCHANGED <<mode, paused, again, ending>>
    BY <1>7, AlphabetMembers, SentInv DEF OpenHelp
  <2>2. slips' \subseteq Kinds
    BY <1>1, <1>7 DEF OpenHelp, Slip
  <2> QED  BY <1>a, <1>7, <2>1, <2>2 DEF OpenHelp
<1> QED  BY <1>2, <1>3, <1>4, <1>5, <1>6, <1>7 DEF WindowStep

LEMMA UserInv == Inv /\ ((\E c \in Orders : Menu(c)) \/ Quit) => Inv'
<1> USE DEF Inv, TypeOK, StateInv, diskVars, windowVars, histVars
<1>1. ASSUME Inv, NEW c \in Orders, Menu(c) PROVE Inv'
  <2>1. /\ cmdq' \in Seq(Alphabet) /\ Len(cmdq') <= CmdCap
        /\ UNCHANGED <<mode, paused, again, ending>>
    BY <1>1, SentInv DEF Menu, Alphabet
  <2>2. slips' \subseteq Kinds /\ hushed' \in BOOLEAN
    <3>1. CASE c = "Resume"
      BY <1>1, <3>1 DEF Menu, Slip, Overlap, Dropped, Kinds
    <3>2. CASE c = "Pause"
      <4>1. slips' = slips /\ hushed' = (hushed \/ ~Full)
        BY <1>1, <3>2 DEF Menu
      <4>2. hushed' \in BOOLEAN
        BY <4>1, Zenon
      <4> QED  BY <1>1, <4>1, <4>2
    <3>3. CASE c = "ForceScan"
      BY <1>1, <3>3 DEF Menu
    <3> QED  BY <1>1, <3>1, <3>2, <3>3 DEF Menu
  <2> QED  BY <1>1, <2>1, <2>2 DEF Menu
<1>2. ASSUME Inv, Quit PROVE Inv'
  <2>2. cmdq' \in Seq(Alphabet) /\ Len(cmdq') <= CmdCap
    <3>1. CASE cmdq' = cmdq
      BY <1>2, <3>1
    <3>2. CASE cmdq' # cmdq
      <4>1. cmdq' = Append(cmdq, "Shutdown") /\ Len(cmdq) # CmdCap
        BY <1>2, <3>2 DEF Quit, Full
      <4>2. cmdq \in Seq(Alphabet) /\ Len(cmdq) <= CmdCap /\ "Shutdown" \in Alphabet
        BY <1>2, AlphabetMembers
      <4>3. cmdq' \in Seq(Alphabet) /\ Len(cmdq') = Len(cmdq) + 1 /\ Len(cmdq) \in Nat
        BY <4>1, <4>2, AppendType
      <4> QED  BY <4>1, <4>2, <4>3
    <3> QED  BY <3>1, <3>2
  <2> QED  BY <1>2, <2>2 DEF Quit
<1> QED  BY <1>1, <1>2

LEMMA EndInv == Inv /\ (MainHears \/ MainEnds \/ Crash) => Inv'
<1> SUFFICES ASSUME Inv, MainHears \/ MainEnds \/ Crash PROVE Inv'
  OBVIOUS
<1> USE DEF Inv, TypeOK, StateInv, diskVars, windowVars, histVars, Starting
<1>1. CASE MainHears
  BY <1>1 DEF MainHears
<1>2. CASE MainSends
  <2>1. /\ cmdq' \in Seq(Alphabet) /\ Len(cmdq') <= CmdCap
        /\ UNCHANGED <<mode, paused, again, ending>>
    BY <1>2, AlphabetMembers, SentInv DEF MainSends
  <2> QED  BY <1>2, <2>1 DEF MainSends
<1>3. CASE MainExits \/ Crash
  <2>1. Gone /\ UNCHANGED diskVars /\ had' \in BOOLEAN /\ slips' \subseteq Kinds
    BY <1>3 DEF MainExits, Crash, Interrupted, Kinds
  <2> QED  BY <2>1, GoneInv
<1> QED  BY <1>1, <1>2, <1>3 DEF MainEnds

LEMMA StepInv == Inv /\ [Next]_desktopVars => Inv'
<1> SUFFICES ASSUME Inv, [Next]_desktopVars PROVE Inv'
  OBVIOUS
<1>1. CASE UNCHANGED desktopVars
  BY <1>1 DEF desktopVars, lifeVars, diskVars, windowVars, histVars, Inv, TypeOK, StateInv
<1> QED  BY <1>1, MainStartsInv, EngineInv, WindowInv, UserInv, EndInv DEF Next

LEMMA Invariant == Spec => []Inv
BY InitInv, StepInv, PTL DEF Spec

\* The channel keeps its capacity and a window saves nothing but a configuration
\* (main.rs:115, settings.rs:27-53).
THEOREM TypeCorrect == Spec => []TypeOK
<1>1. Inv => TypeOK
  BY DEF Inv
<1> QED  BY <1>1, Invariant, PTL

-----------------------------------------------------------------------------
(* The configuration on the disk *)

LEMMA KeptStep == Inv /\ ConfigKept /\ [Next]_desktopVars => ConfigKept'
<1> SUFFICES ASSUME Inv, ConfigKept, [Next]_desktopVars PROVE ConfigKept'
  OBVIOUS
<1> USE DEF ConfigKept, diskVars, windowVars, histVars
<1>1. CASE MainStarts
  <2>1. CASE Load
    BY <2>1 DEF Load
  <2>2. CASE Backup
    BY <2>2 DEF Backup
  <2>3. CASE Migrate
    BY <2>3 DEF Migrate, Starting, Inv, StateInv
  <2>4. CASE Launch \/ LoggedIn
    BY <2>4 DEF Launch, LoggedIn
  <2>5. CASE Boot
    <3>1. ~\E w \in Windows : win[w] = "saving"
      BY <2>5 DEF Boot, Inv, StateInv
    <3> QED  BY <2>5, <3>1 DEF Boot
  <2> QED  BY <1>1, <2>1, <2>2, <2>3, <2>4, <2>5 DEF MainStarts
<1>2. CASE UNCHANGED <<file, bak, had, slips, win>>
  BY <1>2
<1>3. CASE EngineHears \/ EngineApplies \/ EngineTurns \/ Stops \/ SetupHears \/ TrayHearsStopped
  BY <1>2, <1>3 DEF EngineHears, EngineApplies, EngineTurns, Stops, EngineStops, SetupStops,
     SetupHears, TrayHearsStopped, EngineOnly
<1>4. ASSUME NEW w \in Windows, WindowStep(w) PROVE ConfigKept'
  <2>1. ASSUME NEW kinds, Slip(kinds) PROVE slips \subseteq slips'
    BY <2>1 DEF Slip
  <2>2. win \in [Windows -> {"closed", "settings", "saving", "saved", "help"}]
    BY DEF Inv, TypeOK
  <2>3. CASE OpenSettings(w)
    <3>1. win[w] = "closed" /\ \A v \in Windows : win[v] # "saving"
      BY <2>3 DEF OpenSettings, Mine, Saving
    <3>2. UNCHANGED <<file, bak, had>> /\ slips \subseteq slips'
      BY <2>1, <2>3 DEF OpenSettings
    <3> QED  BY <3>1, <3>2
  <2>4. ASSUME NEW c \in Configs, SaveBegins(w, c) PROVE ConfigKept'
    <3>1. win'[w] = "saving"
      BY <2>2, <2>4 DEF SaveBegins, Turn
    <3> QED  BY <3>1
  <2>5. CASE SaveFills(w)
    BY <2>5 DEF SaveFills, Turn, Inv, StateInv
  <2>6. CASE SaveFails(w)
    BY <2>6 DEF SaveFails, Slip
  <2>7. CASE CloseWindow(w)
    <3>1. \A v \in Windows : win[v] = "saving" => win'[v] = "saving"
      BY <2>2, <2>7 DEF CloseWindow
    <3>2. UNCHANGED <<file, bak, had>> /\ slips \subseteq slips'
      BY <2>1, <2>7 DEF CloseWindow
    <3> QED  BY <3>1, <3>2
  <2>8. CASE OpenHelp(w)
    <3>1. \A v \in Windows : win[v] = "saving" => win'[v] = "saving"
      BY <2>2, <2>8 DEF OpenHelp, Turn
    <3>2. UNCHANGED <<file, bak, had>> /\ slips \subseteq slips'
      BY <2>1, <2>8 DEF OpenHelp
    <3> QED  BY <3>1, <3>2
  <2> QED  BY <1>4, <2>3, <2>4, <2>5, <2>6, <2>7, <2>8 DEF WindowStep
<1>5. ASSUME NEW c \in Orders, Menu(c) PROVE ConfigKept'
  <2>1. UNCHANGED <<file, bak, had, win>> /\ slips \subseteq slips'
    BY <1>5 DEF Menu, Slip
  <2> QED  BY <2>1
<1>6. CASE Quit \/ MainHears \/ MainSends
  BY <1>2, <1>6 DEF Quit, MainHears, MainSends
<1>7. CASE MainExits \/ Crash
  <2>1. UNCHANGED <<file, bak, had>> /\ slips' = slips \cup Interrupted
    BY <1>7 DEF MainExits, Crash
  <2>2. (\E w \in Windows : win[w] = "saving") => "save" \in slips'
    BY <2>1 DEF Interrupted
  <2> QED  BY <2>1, <2>2
<1>8. CASE UNCHANGED desktopVars
  BY <1>2, <1>8 DEF desktopVars
<1> QED  BY <1>1, <1>3, <1>4, <1>5, <1>6, <1>7, <1>8 DEF Next, MainEnds

\* No crash, full disk or migration loses the configuration but one in the middle of a
\* save, wherever it strikes and however often (config.rs:276-287).
THEOREM ConfigCorrect == Spec => []ConfigKept
<1>1. Init => ConfigKept
  BY DEF Init, ConfigKept
<1> QED  BY <1>1, Invariant, KeptStep, PTL DEF Spec

-----------------------------------------------------------------------------
(* Alphabet on their way *)

\* A configuration takes effect when it arrives in a pause, or in run_unconfigured.
Receptive == mode = "setup" \/ paused
Loud == Configs \cup {"Resume"}
Pausing == {"Pause", "OpenSettings", "OpenHelp"}

\* The k-th command of q will find the engine receptive, which is r now: a window opens
\* before it, or it is so now, and nothing in between resumes or takes effect.
Safe(r, q, k) ==
    \/ r /\ \A j \in 1..(k - 1) : q[j] \notin Loud
    \/ \E i \in 1..(k - 1) :
          q[i] = "OpenSettings" /\ \A j \in (i + 1)..(k - 1) : q[j] \notin Loud

\* The last configuration of q is f; or there is none, and h.
Latest(q, f, h) ==
    \/ h /\ \A j \in 1..Len(q) : q[j] \notin Configs
    \/ \E k \in 1..Len(q) : q[k] = f /\ \A j \in (k + 1)..Len(q) : q[j] \notin Configs

\* The pause p has an owner, o, or will be over at the end of q.
Owned(q, p, o) ==
    \/ o
    \/ ~p /\ \A j \in 1..Len(q) : q[j] \notin Pausing
    \/ \E k \in 1..Len(q) : q[k] = "Resume" /\ \A j \in (k + 1)..Len(q) : q[j] \notin Pausing

Open == \E w \in Windows : win[w] # "closed"
Filling == \E w \in Windows : win[w] = "saving"

\* While somebody edits, the end of the channel is safe, and so is every configuration
\* in it; the last one is that of the file; a pause has an owner.
Meant ==
    /\ Editing # {} => Safe(Receptive, cmdq, Len(cmdq) + 1)
    /\ \A k \in 1..Len(cmdq) : cmdq[k] \in Configs => Safe(Receptive, cmdq, k)
    /\ Filling \/ Latest(cmdq, file, mode = "setup" \/ held = file)
    /\ Owned(cmdq, paused, hushed \/ Open)

MeantInv == slips = {} /\ mode \notin {"none", "stopped"} => Meant

LEMMA SafeTail ==
  ASSUME NEW q \in Seq(Alphabet), q # <<>>, NEW k \in 2..(Len(q) + 1),
         NEW r, NEW r2, Safe(r, q, k),
         Head(q) = "OpenSettings" => r2, r /\ Head(q) \notin Loud => r2
  PROVE  Safe(r2, Tail(q), k - 1)
<1>1. /\ Len(q) \in Nat \ {0} /\ q[1] = Head(q)
      /\ \A i \in 1..(Len(q) - 1) : Tail(q)[i] = q[i + 1]
  BY TailType
<1>2. CASE r /\ \A j \in 1..(k - 1) : q[j] \notin Loud
  <2>1. r2
    BY <1>1, <1>2
  <2>2. \A j \in 1..(k - 2) : Tail(q)[j] = q[j + 1] /\ j + 1 \in 1..(k - 1)
    BY <1>1
  <2> QED  BY <1>2, <2>1, <2>2 DEF Safe
<1>3. ASSUME NEW i \in 1..(k - 1), q[i] = "OpenSettings",
             \A j \in (i + 1)..(k - 1) : q[j] \notin Loud
      PROVE  Safe(r2, Tail(q), k - 1)
  <2>1. \A j \in 1..(k - 2) : Tail(q)[j] = q[j + 1]
    BY <1>1
  <2>2. CASE i = 1
    <3>1. r2
      BY <1>1, <1>3, <2>2
    <3>2. \A j \in 1..(k - 2) : Tail(q)[j] \notin Loud
      BY <1>3, <2>1, <2>2
    <3> QED  BY <3>1, <3>2 DEF Safe
  <2>3. CASE i # 1
    <3>1. i - 1 \in 1..(k - 2) /\ Tail(q)[i - 1] = "OpenSettings"
      BY <1>3, <2>1, <2>3
    <3>2. \A j \in ((i - 1) + 1)..(k - 2) : Tail(q)[j] \notin Loud
      BY <1>3, <2>1
    <3> QED  BY <3>1, <3>2 DEF Safe
  <2> QED  BY <2>2, <2>3
<1> QED  BY <1>2, <1>3 DEF Safe

LEMMA SafeAppend ==
  ASSUME NEW q \in Seq(Alphabet), NEW c \in Alphabet, NEW r
  PROVE  /\ \A k \in 1..(Len(q) + 1) : Safe(r, q, k) => Safe(r, Append(q, c), k)
         /\ Safe(r, q, Len(q) + 1) /\ c \notin Loud => Safe(r, Append(q, c), Len(q) + 2)
         /\ c = "OpenSettings" => Safe(r, Append(q, c), Len(q) + 2)
<1>1. /\ Len(q) \in Nat /\ \A i \in 1..Len(q) : Append(q, c)[i] = q[i]
      /\ Append(q, c)[Len(q) + 1] = c
  BY AppendType
<1> DEFINE s == Append(q, c)
<1>2. \A i \in 1..Len(q) : s[i] = q[i]
  BY <1>1
<1>3. s[Len(q) + 1] = c
  BY <1>1
<1> HIDE DEF s
<1>4. ASSUME NEW k \in 1..(Len(q) + 1), Safe(r, q, k) PROVE Safe(r, s, k)
  <2>1. \A j \in 1..(k - 1) : s[j] = q[j]
    BY <1>1, <1>2
  <2> QED  BY <1>1, <1>4, <2>1 DEF Safe
<1>5. ASSUME Safe(r, q, Len(q) + 1), c \notin Loud PROVE Safe(r, s, Len(q) + 2)
  <2>1. CASE r /\ \A j \in 1..Len(q) : q[j] \notin Loud
    BY <1>1, <1>2, <1>3, <1>5, <2>1 DEF Safe
  <2>2. ASSUME NEW i \in 1..Len(q), q[i] = "OpenSettings",
               \A j \in (i + 1)..Len(q) : q[j] \notin Loud
        PROVE  Safe(r, s, Len(q) + 2)
    BY <1>1, <1>2, <1>3, <1>5, <2>2 DEF Safe
  <2> QED  BY <1>1, <1>5, <2>1, <2>2 DEF Safe
<1>6. ASSUME c = "OpenSettings" PROVE Safe(r, s, Len(q) + 2)
  BY <1>1, <1>3, <1>6 DEF Safe
<1> QED  BY <1>4, <1>5, <1>6 DEF s

LEMMA LatestTail ==
  ASSUME NEW q \in Seq(Alphabet), q # <<>>, NEW f, NEW h, NEW h2,
         Latest(q, f, h), h /\ Head(q) \notin Configs => h2, Head(q) = f => h2
  PROVE  Latest(Tail(q), f, h2)
<1>1. /\ Len(q) \in Nat \ {0} /\ q[1] = Head(q) /\ Len(Tail(q)) = Len(q) - 1
      /\ \A i \in 1..(Len(q) - 1) : Tail(q)[i] = q[i + 1]
  BY TailType
<1>2. CASE h /\ \A j \in 1..Len(q) : q[j] \notin Configs
  BY <1>1, <1>2 DEF Latest
<1>3. ASSUME NEW k \in 1..Len(q), q[k] = f, \A j \in (k + 1)..Len(q) : q[j] \notin Configs
      PROVE  Latest(Tail(q), f, h2)
  <2>1. CASE k = 1
    BY <1>1, <1>3, <2>1 DEF Latest
  <2>2. CASE k # 1
    <3>1. k - 1 \in 1..Len(Tail(q)) /\ Tail(q)[k - 1] = f
      BY <1>1, <1>3, <2>2
    <3>2. \A j \in ((k - 1) + 1)..Len(Tail(q)) : Tail(q)[j] \notin Configs
      BY <1>1, <1>3
    <3> QED  BY <3>1, <3>2 DEF Latest
  <2> QED  BY <2>1, <2>2
<1> QED  BY <1>2, <1>3 DEF Latest

LEMMA LatestAppend ==
  ASSUME NEW q \in Seq(Alphabet), NEW c \in Alphabet, NEW f, NEW h
  PROVE  /\ Latest(q, f, h) /\ c \notin Configs => Latest(Append(q, c), f, h)
         /\ c = f => Latest(Append(q, c), f, h)
<1>1. /\ Len(q) \in Nat /\ \A i \in 1..Len(q) : Append(q, c)[i] = q[i]
      /\ Append(q, c)[Len(q) + 1] = c /\ Len(Append(q, c)) = Len(q) + 1
  BY AppendType
<1> DEFINE s == Append(q, c)
<1>2. (\A i \in 1..Len(q) : s[i] = q[i]) /\ s[Len(q) + 1] = c /\ Len(s) = Len(q) + 1
  BY <1>1
<1> HIDE DEF s
<1>3. ASSUME c = f PROVE Latest(s, f, h)
  BY <1>1, <1>2, <1>3 DEF Latest
<1>4. ASSUME Latest(q, f, h), c \notin Configs PROVE Latest(s, f, h)
  <2>1. CASE h /\ \A j \in 1..Len(q) : q[j] \notin Configs
    BY <1>1, <1>2, <1>4, <2>1 DEF Latest
  <2>2. ASSUME NEW k \in 1..Len(q), q[k] = f, \A j \in (k + 1)..Len(q) : q[j] \notin Configs
        PROVE  Latest(s, f, h)
    BY <1>1, <1>2, <1>4, <2>2 DEF Latest
  <2> QED  BY <1>4, <2>1, <2>2 DEF Latest
<1> QED  BY <1>3, <1>4 DEF s

LEMMA OwnedTail ==
  ASSUME NEW q \in Seq(Alphabet), q # <<>>, NEW p, NEW p2,
         NEW o, Owned(q, p, o),
         Head(q) = "Resume" => ~p2, ~p /\ Head(q) \notin Pausing => ~p2
  PROVE  Owned(Tail(q), p2, o)
<1>1. /\ Len(q) \in Nat \ {0} /\ q[1] = Head(q) /\ Len(Tail(q)) = Len(q) - 1
      /\ \A i \in 1..(Len(q) - 1) : Tail(q)[i] = q[i + 1]
  BY TailType
<1>2. CASE o
  BY <1>2 DEF Owned
<1>3. CASE ~p /\ \A j \in 1..Len(q) : q[j] \notin Pausing
  BY <1>1, <1>3 DEF Owned
<1>4. ASSUME NEW k \in 1..Len(q), q[k] = "Resume",
             \A j \in (k + 1)..Len(q) : q[j] \notin Pausing
      PROVE  Owned(Tail(q), p2, o)
  <2>1. CASE k = 1
    BY <1>1, <1>4, <2>1 DEF Owned
  <2>2. CASE k # 1
    <3>1. k - 1 \in 1..Len(Tail(q)) /\ Tail(q)[k - 1] = "Resume"
      BY <1>1, <1>4, <2>2
    <3>2. \A j \in ((k - 1) + 1)..Len(Tail(q)) : Tail(q)[j] \notin Pausing
      BY <1>1, <1>4
    <3> QED  BY <3>1, <3>2 DEF Owned
  <2> QED  BY <2>1, <2>2
<1> QED  BY <1>2, <1>3, <1>4 DEF Owned

LEMMA OwnedAppend ==
  ASSUME NEW q \in Seq(Alphabet), NEW c \in Alphabet, NEW p,
         NEW o, NEW o2,
         Owned(q, p, o), c \in Pausing => o2, o /\ c # "Resume" => o2
  PROVE  Owned(Append(q, c), p, o2)
<1>1. /\ Len(q) \in Nat /\ \A i \in 1..Len(q) : Append(q, c)[i] = q[i]
      /\ Append(q, c)[Len(q) + 1] = c /\ Len(Append(q, c)) = Len(q) + 1
  BY AppendType
<1> DEFINE s == Append(q, c)
<1>2. (\A i \in 1..Len(q) : s[i] = q[i]) /\ s[Len(q) + 1] = c /\ Len(s) = Len(q) + 1
  BY <1>1
<1> HIDE DEF s
<1>3. CASE c = "Resume"
  BY <1>1, <1>2, <1>3 DEF Owned
<1>4. CASE c \in Pausing \/ o
  BY <1>3, <1>4 DEF Owned, s
<1>5. CASE c \notin Pausing /\ ~o
  <2>1. CASE ~p /\ \A j \in 1..Len(q) : q[j] \notin Pausing
    BY <1>1, <1>2, <1>5, <2>1 DEF Owned, s
  <2>2. ASSUME NEW k \in 1..Len(q), q[k] = "Resume",
               \A j \in (k + 1)..Len(q) : q[j] \notin Pausing
        PROVE  Owned(s, p, o2)
    BY <1>1, <1>2, <1>5, <2>2 DEF Owned
  <2> QED  BY <1>5, <2>1, <2>2 DEF Owned, s
<1> QED  BY <1>3, <1>4, <1>5 DEF s

\* What it takes of a step that hears the command c.
LEMMA Heard ==
  ASSUME Inv, MeantInv, NEW c, Receive(c), mode \notin {"none", "stopped"},
         UNCHANGED <<file, win, hushed, slips>>,
         c = "OpenSettings" => Receptive',
         Receptive /\ c \notin Loud => Receptive',
         Receptive /\ c \in Configs => held' = c \/ mode' = "setup",
         c \notin Configs => held' = held /\ (mode = "setup" => mode' = "setup"),
         c = "Resume" \/ (~paused /\ c \notin Pausing) => ~paused'
  PROVE  MeantInv'
<1>1. cmdq \in Seq(Alphabet) /\ cmdq # <<>> /\ cmdq' = Tail(cmdq) /\ Head(cmdq) = c
  BY DEF Inv, TypeOK, Receive
<1>2. /\ Len(cmdq) \in Nat \ {0} /\ Len(cmdq') = Len(cmdq) - 1 /\ cmdq[1] = c
      /\ \A i \in 1..Len(cmdq') : cmdq'[i] = cmdq[i + 1]
  BY <1>1, TailType
<1> SUFFICES ASSUME slips = {} PROVE Meant'
  BY DEF MeantInv
<1>3. Meant
  BY DEF MeantInv
<1>4. ASSUME NEW k \in 2..(Len(cmdq) + 1), Safe(Receptive, cmdq, k)
      PROVE  Safe(Receptive', cmdq', k - 1)
  BY <1>1, <1>4, SafeTail
<1>5. Editing' = Editing /\ Filling' = Filling /\ Open' = Open
  BY DEF Editing, Filling, Open
<1>6. (Editing # {} => Safe(Receptive, cmdq, Len(cmdq) + 1))'
  BY <1>2, <1>3, <1>4, <1>5 DEF Meant
<1>7. (\A k \in 1..Len(cmdq) : cmdq[k] \in Configs => Safe(Receptive, cmdq, k))'
  <2>1. ASSUME NEW k \in 1..Len(cmdq'), cmdq'[k] \in Configs
        PROVE  Safe(Receptive', cmdq', k)
    <3>1. k + 1 \in 2..(Len(cmdq) + 1) /\ k + 1 \in 1..Len(cmdq) /\ cmdq[k + 1] \in Configs
      BY <1>2, <2>1
    <3>2. Safe(Receptive, cmdq, k + 1)
      BY <1>3, <3>1 DEF Meant
    <3>3. Safe(Receptive', cmdq', (k + 1) - 1)
      BY <1>4, <3>1, <3>2
    <3> QED  BY <1>2, <3>3
  <2> QED  BY <2>1
<1>8. (Filling \/ Latest(cmdq, file, mode = "setup" \/ held = file))'
  <2>1. CASE Filling
    BY <1>5, <2>1
  <2>2. CASE ~Filling
    <3>1. Latest(cmdq, file, mode = "setup" \/ held = file)
      BY <1>3, <2>2 DEF Meant
    <3>2. c \in Configs => held' = c \/ mode' = "setup"
      <4>1. ASSUME c \in Configs PROVE Safe(Receptive, cmdq, 1)
        BY <1>2, <1>3, <4>1 DEF Meant
      <4> QED  BY <4>1 DEF Safe
    <3>4. CASE c \in Configs
      <4>1. Latest(Tail(cmdq), file, mode' = "setup" \/ held' = file)
        BY <1>1, <3>1, <3>2, <3>4, LatestTail
      <4> QED  BY <1>1, <4>1
    <3>5. CASE c \notin Configs
      <4>1. c # file
        BY <1>1, <3>5 DEF Inv, TypeOK, Alphabet
      <4>2. Latest(Tail(cmdq), file, mode' = "setup" \/ held' = file)
        BY <1>1, <3>1, <3>5, <4>1, LatestTail
      <4> QED  BY <1>1, <4>2
    <3> QED  BY <3>4, <3>5
  <2> QED  BY <2>1, <2>2
<1>9. Owned(cmdq, paused, hushed \/ Open)'
  <2>1. Owned(cmdq, paused, hushed \/ Open)
    BY <1>3 DEF Meant
  <2>2. Owned(Tail(cmdq), paused', hushed \/ Open)
    BY <1>1, <2>1, OwnedTail
  <2> QED  BY <1>1, <1>5, <2>2
<1> QED  BY <1>6, <1>7, <1>8, <1>9 DEF Meant

\* What it takes of a step that sends the command c.
LEMMA Sent ==
  ASSUME Inv, MeantInv, NEW c \in Alphabet, cmdq' = Append(cmdq, c),
         UNCHANGED <<mode, paused, held>>, slips' = {} => slips = {},
         slips' = {} /\ Editing' # {} => c \notin Loud /\ (Editing # {} \/ c = "OpenSettings"),
         slips' = {} /\ c \in Configs => Editing # {} /\ file' = c,
         c \notin Configs => file' = file /\ (Filling => Filling'),
         c \in Pausing => hushed' \/ Open',
         (hushed \/ Open) /\ c # "Resume" => hushed' \/ Open'
  PROVE  MeantInv'
<1> SUFFICES ASSUME slips' = {}, mode \notin {"none", "stopped"} PROVE Meant'
  BY DEF MeantInv
<1>1. cmdq \in Seq(Alphabet) /\ Len(cmdq') = Len(cmdq) + 1 /\ Len(cmdq) \in Nat
      /\ (\A i \in 1..Len(cmdq) : cmdq'[i] = cmdq[i]) /\ cmdq'[Len(cmdq) + 1] = c
  BY AppendType DEF Inv, TypeOK
<1>2. Meant
  BY DEF MeantInv
<1>3. Receptive' = Receptive
  BY DEF Receptive
<1>4. /\ \A k \in 1..(Len(cmdq) + 1) : Safe(Receptive, cmdq, k) => Safe(Receptive, cmdq', k)
      /\ Safe(Receptive, cmdq, Len(cmdq) + 1) /\ c \notin Loud
            => Safe(Receptive, cmdq', Len(cmdq) + 2)
      /\ c = "OpenSettings" => Safe(Receptive, cmdq', Len(cmdq) + 2)
  BY <1>1, SafeAppend
<1>5. Editing' # {} => Safe(Receptive, cmdq', Len(cmdq') + 1)
  BY <1>1, <1>2, <1>4 DEF Meant
<1>6. ASSUME NEW k \in 1..Len(cmdq'), cmdq'[k] \in Configs PROVE Safe(Receptive, cmdq', k)
  <2>1. CASE k \in 1..Len(cmdq)
    BY <1>1, <1>2, <1>4, <1>6, <2>1 DEF Meant
  <2>2. CASE k = Len(cmdq) + 1
    BY <1>1, <1>2, <1>4, <1>6, <2>2 DEF Meant
  <2> QED  BY <1>1, <2>1, <2>2
<1>7. Filling' \/ Latest(cmdq', file', mode = "setup" \/ held = file')
  <2>1. CASE c \in Configs
    BY <1>1, <2>1, LatestAppend
  <2>2. CASE c \notin Configs /\ ~Filling'
    BY <1>1, <1>2, <2>2, LatestAppend DEF Meant
  <2> QED  BY <2>1, <2>2
<1>8. Owned(cmdq', paused, hushed' \/ Open')
  BY <1>1, <1>2, OwnedAppend DEF Meant
<1> QED  BY <1>3, <1>5, <1>6, <1>7, <1>8 DEF Meant

\* What it takes of a step that neither hears nor sends a command.
LEMMA Silent ==
  ASSUME Inv, MeantInv, UNCHANGED <<cmdq, paused, held>>, slips' = {} => slips = {},
         mode' \notin {"none", "stopped"} =>
             mode \notin {"none", "stopped"} /\ (mode = "setup" <=> mode' = "setup"),
         slips' = {} /\ Editing' # {} => Editing # {},
         slips' = {} => Filling' \/ (file' = file /\ ~Filling),
         slips' = {} /\ (hushed \/ Open) => hushed' \/ Open'
  PROVE  MeantInv'
<1> SUFFICES ASSUME slips' = {}, mode' \notin {"none", "stopped"} PROVE Meant'
  BY DEF MeantInv
<1>1. Meant
  BY DEF MeantInv
<1>2. Receptive' <=> Receptive
  BY DEF Receptive
<1>3. \A k : Safe(Receptive, cmdq, k) => Safe(Receptive', cmdq', k)
  BY <1>2 DEF Safe
<1>4. Latest(cmdq, file, mode = "setup" \/ held = file) /\ file' = file
        => Latest(cmdq', file', mode' = "setup" \/ held' = file')
  BY DEF Latest
<1>5. Owned(cmdq', paused', hushed' \/ Open')
  BY <1>1 DEF Meant, Owned
<1> QED  BY <1>1, <1>3, <1>4, <1>5 DEF Meant

LEMMA EngineMeant ==
  ASSUME Inv, MeantInv, EngineHears \/ EngineApplies \/ EngineTurns \/ Stops \/ SetupHears
                           \/ TrayHearsStopped
  PROVE  MeantInv'
<1>1. UNCHANGED <<main, file, gtk, win, entered, hushed, slips>>
  BY DEF EngineHears, EngineApplies, EngineTurns, Stops, EngineStops, SetupStops, SetupHears,
         TrayHearsStopped, EngineOnly, diskVars, windowVars, histVars
<1>2. Editing' = Editing /\ Filling' = Filling /\ Open' = Open
  BY <1>1 DEF Editing, Filling, Open
<1>3. (paused => mode \in {"loop", "stopped"}) /\ paused \in BOOLEAN
  BY DEF Inv, StateInv, TypeOK
<1> USE DEF Receptive, Loud, Pausing
<1>4. CASE mode' = "stopped"
  BY <1>4 DEF MeantInv
<1>5. CASE EngineHears
  <2>1. held' = held
    BY <1>5 DEF EngineHears
  <2>2. CASE HearShutdown
    BY <1>4, <2>2 DEF HearShutdown
  <2>3. CASE Resume
    BY <1>1, <1>3, <2>1, <2>3, Heard DEF Resume, Take
  <2>4. CASE ForceScan
    BY <1>1, <1>3, <2>1, <2>4, Heard DEF ForceScan, Take
  <2>5. ASSUME NEW c \in Alphabet, Suspend(c) PROVE MeantInv'
    BY <1>1, <1>3, <2>1, <2>5, Heard DEF Suspend, Take
  <2>6. ASSUME NEW c \in Alphabet, Cut(c) PROVE MeantInv'
    BY <1>1, <1>3, <2>1, <2>6, Heard DEF Cut, Listening
  <2>7. ASSUME NEW c \in Alphabet, Lose(c) PROVE MeantInv'
    BY <1>1, <1>3, <2>1, <2>7, Heard DEF Lose, Listening
  <2> QED  BY <1>5, <2>2, <2>3, <2>4, <2>5, <2>6, <2>7 DEF EngineHears, Hear
<1>6. CASE EngineApplies
  <2>1. PICK c \in Configs : Apply(c) /\ held' = c
    BY <1>6 DEF EngineApplies
  <2> QED  BY <1>1, <1>3, <2>1, Heard DEF Apply, Take
<1>7. CASE EngineTurns
  <2>1. /\ UNCHANGED <<cmdq, paused, held>> /\ mode \notin {"none", "stopped", "setup"}
        /\ mode' \in {"loop", "deaf", "busy"}
    BY <1>7 DEF EngineTurns, Return, Leave, Listening
  <2> QED  BY <1>1, <1>2, <2>1, Silent
<1>8. CASE Stops
  BY <1>4, <1>8 DEF Stops, EngineStops, SetupStops, Stop
<1>9. CASE SetupHears
  <2>1. PICK c \in Alphabet :
          /\ Receive(c)
          /\ \/ c \in Configs /\ mode' = "first" /\ held' = c /\ UNCHANGED ending
             \/ c # "Shutdown" /\ UNCHANGED <<mode, held, ending>>
             \/ c = "Shutdown" /\ mode' = "stopped" /\ ending' = TRUE /\ UNCHANGED held
    BY <1>9 DEF SetupHears
  <2>2. mode = "setup" /\ paused' = paused /\ ~paused
    BY <1>3, <1>9 DEF SetupHears
  <2>3. CASE c \in Configs /\ mode' = "first" /\ held' = c
    BY <1>1, <2>1, <2>2, <2>3, Heard
  <2>4. CASE UNCHANGED <<mode, held>>
    BY <1>1, <2>1, <2>2, <2>4, Heard
  <2> QED  BY <1>4, <2>1, <2>3, <2>4
<1>10. CASE TrayHearsStopped
  BY <1>4, <1>10 DEF TrayHearsStopped
<1> QED  BY <1>5, <1>6, <1>7, <1>8, <1>9, <1>10

\* A command that is sent, or dropped with a slip, or has no receiver any more.
LEMMA Tried ==
  ASSUME NEW c \in Alphabet, TrySend(c), NEW kinds, Slip(kinds), Dropped \subseteq kinds
  PROVE  /\ UNCHANGED <<mode, paused>>
         /\ slips' = {} => slips = {} /\ kinds = {}
         /\ \/ cmdq' = Append(cmdq, c)
            \/ mode' = "stopped"
            \/ slips' # {}
BY DEF TrySend, Slip, Dropped, Full

LEMMA WindowMeant ==
  ASSUME Inv, MeantInv, NEW w \in Windows, WindowStep(w)
  PROVE  MeantInv'
<1>1. /\ win \in [Windows -> {"closed", "settings", "saving", "saved", "help"}]
      /\ (win[w] = "saving" => entered[w] \in Configs) /\ Configs \subseteq Alphabet
  BY DEF Inv, TypeOK, StateInv, Alphabet
<1>2. CASE mode' = "stopped" \/ slips' # {}
  BY <1>2 DEF MeantInv
<1> USE DEF Loud, Pausing
<1>3. CASE OpenSettings(w)
  <2>1. TrySend("OpenSettings") /\ UNCHANGED <<file, held, hushed>>
    BY <1>3 DEF OpenSettings, diskVars
  <2>2. CASE file \notin Configs
    BY <1>2, <1>3, <2>2 DEF OpenSettings, Slip
  <2>3. CASE file \in Configs
    <3>1. win' = [win EXCEPT ![w] = "settings"] /\ Slip(Dropped) /\ win[w] = "closed"
      BY <1>3, <2>3 DEF OpenSettings
    <3>2. Open' /\ (Filling => Filling')
      BY <1>1, <3>1 DEF Open, Filling
    <3>3. CASE cmdq' = Append(cmdq, "OpenSettings")
      BY <2>1, <3>1, <3>2, <3>3, AlphabetMembers, Tried, Sent
    <3> QED  BY <1>2, <2>1, <3>1, <3>3, AlphabetMembers, Tried
  <2> QED  BY <2>2, <2>3
<1>4. ASSUME NEW c \in Configs, SaveBegins(w, c) PROVE MeantInv'
  <2>1. win[w] = "settings" /\ win' = [win EXCEPT ![w] = "saving"]
        /\ UNCHANGED <<lifeVars, held, hushed, slips>>
    BY <1>4 DEF SaveBegins, Turn, histVars
  <2>2. Editing' = Editing /\ Filling' /\ (Open => Open')
    BY <1>1, <2>1 DEF Editing, Filling, Open
  <2> QED  BY <2>1, <2>2, Silent DEF lifeVars
<1>5. CASE SaveFills(w)
  <2>1. /\ win[w] = "saving" /\ win' = [win EXCEPT ![w] = "saved"] /\ file' = entered[w]
        /\ TrySend(entered[w]) /\ Slip(Dropped \cup Overlap(Editing \ {w}))
        /\ UNCHANGED <<held, hushed>>
    BY <1>5 DEF SaveFills, Turn
  <2>2. w \in Editing /\ Editing' = Editing \ {w} /\ (Open => Open')
    BY <1>1, <2>1 DEF Editing, Open
  <2>3. Overlap(Editing \ {w}) = {} => Editing' = {}
    BY <2>2 DEF Overlap
  <2>4. entered[w] \in Configs /\ entered[w] \in Alphabet /\ entered[w] \notin Pausing
    BY <1>1, <2>1
  <2>5. /\ UNCHANGED <<mode, paused>> /\ (slips' = {} => slips = {} /\ Editing' = {})
        /\ (cmdq' = Append(cmdq, entered[w]) \/ mode' = "stopped" \/ slips' # {})
    BY <2>1, <2>3, <2>4, Tried
  <2>6. CASE cmdq' = Append(cmdq, entered[w])
    BY <2>1, <2>2, <2>4, <2>5, <2>6, Sent
  <2> QED  BY <1>2, <2>5, <2>6
<1>6. CASE SaveFails(w)
  BY <1>2, <1>6 DEF SaveFails, Slip
<1>7. CASE CloseWindow(w)
  <2>1. /\ win[w] \in {"settings", "saved", "help"} /\ win' = [win EXCEPT ![w] = "closed"]
        /\ TrySend("Resume") /\ Slip(Dropped \cup Overlap(Editing \ {w}))
        /\ UNCHANGED <<file, held>>
    BY <1>7 DEF CloseWindow, diskVars
  <2>2. Editing' = Editing \ {w} /\ (Filling => Filling')
    BY <1>1, <2>1 DEF Editing, Filling
  <2>3. Overlap(Editing \ {w}) = {} => Editing' = {}
    BY <2>2 DEF Overlap
  <2>4. /\ UNCHANGED <<mode, paused>> /\ (slips' = {} => slips = {} /\ Editing' = {})
        /\ (cmdq' = Append(cmdq, "Resume") \/ mode' = "stopped" \/ slips' # {})
    BY <2>1, <2>3, AlphabetMembers, Tried
  <2>5. CASE cmdq' = Append(cmdq, "Resume")
    BY <2>1, <2>2, <2>4, <2>5, AlphabetMembers, Sent
  <2> QED  BY <1>2, <2>4, <2>5
<1>8. CASE OpenHelp(w)
  <2>1. /\ win[w] = "closed" /\ win' = [win EXCEPT ![w] = "help"]
        /\ TrySend("OpenHelp") /\ Slip(Dropped)
        /\ UNCHANGED <<file, held, hushed>>
    BY <1>8 DEF OpenHelp, Turn, diskVars
  <2>2. Editing' = Editing /\ (Filling => Filling') /\ Open'
    BY <1>1, <2>1 DEF Editing, Filling, Open
  <2>3. CASE cmdq' = Append(cmdq, "OpenHelp")
    BY <2>1, <2>2, <2>3, AlphabetMembers, Tried, Sent
  <2> QED  BY <1>2, <2>1, <2>3, AlphabetMembers, Tried
<1> QED  BY <1>3, <1>4, <1>5, <1>6, <1>7, <1>8 DEF WindowStep

LEMMA UserMeant ==
  ASSUME Inv, MeantInv, (\E c \in Orders : Menu(c)) \/ Quit
  PROVE  MeantInv'
<1> USE DEF Loud, Pausing, windowVars, diskVars
<1>1. CASE mode' = "stopped" \/ slips' # {}
  BY <1>1 DEF MeantInv
<1>2. UNCHANGED <<file, win, held>>
  BY DEF Menu, Quit
<1>3. Editing' = Editing /\ Filling' = Filling /\ Open' = Open
  BY <1>2 DEF Editing, Filling, Open
<1>4. ASSUME NEW c \in Orders, Menu(c) PROVE MeantInv'
  <2>1. TrySend(c) /\ c \in {"Pause", "Resume", "ForceScan"}
    BY <1>4 DEF Menu
  <2>2. UNCHANGED <<mode, paused>> /\ (cmdq' = Append(cmdq, c) \/ mode = "stopped" \/ Full)
    BY <2>1 DEF TrySend
  <2>3. CASE c = "Resume"
    <3>1. Slip(Dropped \cup Overlap(Editing)) /\ hushed' = FALSE
      BY <1>4, <2>3 DEF Menu
    <3>2. /\ slips' = {} => slips = {} /\ Overlap(Editing) = {}
          /\ cmdq' = Append(cmdq, c) \/ mode' = "stopped" \/ slips' # {}
      BY <2>1, <2>3, <3>1, AlphabetMembers, Tried
    <3>3. Overlap(Editing) = {} => Editing = {}
      BY DEF Overlap
    <3>4. CASE cmdq' = Append(cmdq, c)
      BY <1>2, <1>3, <2>2, <2>3, <3>2, <3>3, <3>4, AlphabetMembers, Sent
    <3> QED  BY <1>1, <3>2, <3>4
  <2>4. CASE c = "Pause"
    <3>1. hushed' = (hushed \/ ~Full) /\ slips' = slips
      BY <1>4, <2>4 DEF Menu
    <3>2. (hushed => hushed') /\ (~Full => hushed')
      BY <3>1
    <3>3. CASE Full
      <4>1. cmdq' = cmdq
        BY <2>1, <3>3 DEF TrySend
      <4>2. ~Filling => file' = file /\ ~Filling
        BY <1>2
      <4>3. mode' \notin {"none", "stopped"} =>
              mode \notin {"none", "stopped"} /\ (mode = "setup" <=> mode' = "setup")
        BY <2>2
      <4> QED  BY <1>2, <1>3, <2>2, <3>1, <3>2, <4>1, <4>2, <4>3, Silent
    <3>4. CASE ~Full /\ cmdq' = Append(cmdq, c)
      BY <1>2, <1>3, <2>2, <2>4, <3>1, <3>2, <3>4, AlphabetMembers, Sent
    <3> QED  BY <1>1, <2>2, <3>3, <3>4
  <2>5. CASE c = "ForceScan"
    <3>1. UNCHANGED <<hushed, slips>>
      BY <1>4, <2>5 DEF Menu
    <3>2. CASE cmdq' = Append(cmdq, c)
      BY <1>2, <1>3, <2>2, <2>5, <3>1, <3>2, AlphabetMembers, Sent
    <3>3. CASE cmdq' = cmdq
      BY <1>2, <1>3, <2>2, <3>1, <3>3, Silent
    <3> QED  BY <2>1, <3>2, <3>3 DEF TrySend
  <2> QED  BY <2>1, <2>3, <2>4, <2>5
<1>5. CASE Quit
  <2>1. UNCHANGED <<mode, paused, hushed, slips>>
    BY <1>5 DEF Quit, histVars
  <2>2. CASE cmdq' = Append(cmdq, "Shutdown")
    BY <1>2, <1>3, <2>1, <2>2, AlphabetMembers, Sent
  <2>3. CASE cmdq' = cmdq
    BY <1>2, <1>3, <2>1, <2>3, Silent
  <2> QED  BY <1>5, <2>2, <2>3 DEF Quit
<1> QED  BY <1>4, <1>5

LEMMA MainMeant ==
  ASSUME Inv, MeantInv, MainStarts \/ MainHears \/ MainEnds \/ Crash
  PROVE  MeantInv'
<1> USE DEF Loud, Pausing, windowVars, diskVars, histVars
<1>1. CASE MainExits \/ Crash
  BY <1>1 DEF MainExits, Crash, Gone, MeantInv
<1>2. CASE mode' = "none"
  BY <1>2 DEF MeantInv
<1>3. CASE Launch \/ LoggedIn \/ Load \/ Backup \/ Migrate
  <2>1. mode = "none" /\ mode' = mode
    BY <1>3 DEF Launch, LoggedIn, Load, Backup, Migrate, Starting, lifeVars, Inv, StateInv
  <2> QED  BY <1>2, <2>1
<1>4. CASE Boot
  <2>1. /\ mode = "none" /\ cmdq = <<>> /\ \A w \in Windows : win[w] = "closed"
        /\ ~paused
    BY <1>4 DEF Boot, Inv, StateInv
  <2>2. CASE file = "inactive"
    BY <1>2, <1>4, <2>2 DEF Boot, Gone
  <2>3. CASE file # "inactive"
    <3>1. /\ UNCHANGED <<paused, cmdq, win, file>>
          /\ held' = file \/ mode' = "setup"
      BY <1>4, <2>3 DEF Boot
    <3>2. Editing' = {} /\ cmdq' = <<>> /\ ~paused'
      BY <2>1, <3>1 DEF Editing
    <3>3. Len(<<>>) = 0 /\ 1..0 = {}
      OBVIOUS
    <3>4. Latest(<<>>, file', mode' = "setup" \/ held' = file')
      BY <3>1, <3>3 DEF Latest
    <3>5. Owned(<<>>, paused', hushed' \/ Open')
      BY <3>2, <3>3 DEF Owned
    <3> QED  BY <3>2, <3>3, <3>4, <3>5 DEF MeantInv, Meant
  <2> QED  BY <2>2, <2>3
<1>5. CASE MainHears
  <2>1. UNCHANGED <<mode, paused, cmdq, file, win, held, hushed, slips>>
    BY <1>5 DEF MainHears
  <2>2. Editing' = Editing /\ Filling' = Filling /\ Open' = Open
    BY <2>1 DEF Editing, Filling, Open
  <2> QED  BY <2>1, <2>2, Silent
<1>6. CASE MainSends
  <2>1. UNCHANGED <<mode, paused, file, win, held, hushed, slips>>
    BY <1>6 DEF MainSends, TrySend
  <2>2. Editing' = Editing /\ Filling' = Filling /\ Open' = Open
    BY <2>1 DEF Editing, Filling, Open
  <2>3. CASE cmdq' = cmdq
    BY <2>1, <2>2, <2>3, Silent
  <2>4. CASE cmdq' = Append(cmdq, "Shutdown")
    BY <2>1, <2>2, <2>4, AlphabetMembers, Sent
  <2> QED  BY <1>6, <2>3, <2>4 DEF MainSends, TrySend
<1> QED  BY <1>1, <1>3, <1>4, <1>5, <1>6 DEF MainStarts, MainEnds

LEMMA MeantStep == Inv /\ MeantInv /\ [Next]_desktopVars => MeantInv'
<1> SUFFICES ASSUME Inv, MeantInv, [Next]_desktopVars PROVE MeantInv'
  OBVIOUS
<1>1. CASE UNCHANGED desktopVars
  <2>1. UNCHANGED <<mode, paused, cmdq, file, win, held, hushed, slips>>
    BY <1>1 DEF desktopVars, lifeVars, diskVars, windowVars, histVars
  <2>2. Editing' = Editing /\ Filling' = Filling /\ Open' = Open
    BY <2>1 DEF Editing, Filling, Open
  <2> QED  BY <2>1, <2>2, Silent
<1> QED  BY <1>1, EngineMeant, WindowMeant, UserMeant, MainMeant DEF Next

LEMMA MeantInvariant == Spec => []MeantInv
<1>1. Init => MeantInv
  BY DEF Init, Idle, MeantInv
<1> QED  BY <1>1, Invariant, MeantStep, PTL DEF Spec

\* With no command on its way, what was meant has happened.
LEMMA MeantSettles ==
  ASSUME MeantInv, Inv, Running, Settled, slips = {}
  PROVE  /\ held = file
         /\ Editing # {} => paused
         /\ paused => hushed \/ \E w \in Windows : win[w] # "closed"
<1>1. Meant /\ mode # "setup" /\ ~Filling
  BY DEF MeantInv, Running, Settled, Filling
<1>2. cmdq = <<>> /\ Len(cmdq) = 0 /\ 1..0 = {}
  BY DEF Settled
<1>3. held = file
  BY <1>1, <1>2 DEF Meant, Latest
<1>4. Editing # {} => paused
  BY <1>1, <1>2 DEF Meant, Safe, Receptive
<1>5. paused => hushed \/ Open
  BY <1>1, <1>2 DEF Meant, Owned
<1> QED  BY <1>3, <1>4, <1>5 DEF Open

\* The tasks are run with what the user saved, for any number of windows and any capacity
\* of the channel: an ApplyConfig always arrives in a pause, behind the OpenSettings of
\* its window (settings.rs:27-53, mod.rs:157-174, 557). What the engine copied when it
\* started is not what this is about (mod.rs:238, 338, 347-358).
THEOREM SavedCorrect == Spec => []TasksRunSaved
<1>1. Inv /\ MeantInv => TasksRunSaved
  BY MeantSettles DEF TasksRunSaved
<1> QED  BY <1>1, Invariant, MeantInvariant, PTL

\* The engine stays paused while a window edits the settings (settings.rs:27, 49-53).
THEOREM QuietCorrect == Spec => []EditingIsQuiet
<1>1. Inv /\ MeantInv => EditingIsQuiet
  BY MeantSettles DEF EditingIsQuiet
<1> QED  BY <1>1, Invariant, MeantInvariant, PTL

\* No engine is left paused when the windows are closed and nobody asked for it
\* (settings.rs:44, 52, help_window.rs:95).
THEOREM OwnerCorrect == Spec => []PauseHasOwner
<1>1. Inv /\ MeantInv => PauseHasOwner
  BY MeantSettles DEF PauseHasOwner
<1> QED  BY <1>1, Invariant, MeantInvariant, PTL
=============================================================================
