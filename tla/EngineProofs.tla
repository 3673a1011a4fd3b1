---------------------------- MODULE EngineProofs ----------------------------
(***************************************************************************)
(* Proofs about module Engine, for every set of commands, every capacity   *)
(* of the channels, every number of workers and of tasks.                  *)
(***************************************************************************)
EXTENDS Engine, TLAPS

USE EngineAssumption DEF EngineAssumption

\* flush_queue never removes more rows than it has read.
FlushedFromRows == flushing <= rows

TypeInv == TypeOK /\ FlushedFromRows /\ ActiveIsWorking

LEMMA InitType == Init => TypeInv
<1> SUFFICES ASSUME Init PROVE TypeInv
  OBVIOUS
<1>1. ControlOK /\ StatusOK
  BY DEF Init, ControlOK, StatusOK, Statuses
<1>2. QueuesOK /\ FlushedFromRows
  BY DEF Init, QueuesOK, FlushedFromRows
<1>3. CountersOK /\ ActiveIsWorking
  BY DEF Init, CountersOK, ActiveIsWorking
<1> QED
  BY <1>1, <1>2, <1>3 DEF TypeInv, TypeOK

\* The command channel stays a bounded sequence when its head is received.
LEMMA ReceiveType ==
    ASSUME cmdq \in Seq(Commands), Len(cmdq) <= CmdCap, NEW c, Receive(c)
    PROVE  cmdq' \in Seq(Commands) /\ Len(cmdq') <= CmdCap
  BY DEF Receive

LEMMA SendType ==
    ASSUME cmdq \in Seq(Commands), NEW c \in Commands, SendCommand(c)
    PROVE  cmdq' \in Seq(Commands) /\ Len(cmdq') <= CmdCap
  BY DEF SendCommand

LEMMA CommandType ==
    ASSUME TypeInv, HandleCommand
    PROVE  TypeInv'
<1> USE DEF TypeInv, TypeOK, ControlOK, StatusOK, QueuesOK, CountersOK, FlushedFromRows, ActiveIsWorking, scanVars, flagVars, queueVars, workerVars,
            sayVars, Take, Say, Quiet, StartScan, Tell, Statuses
<1>1. CASE CmdShutdown
  <2>1. ControlOK'
    BY <1>1, ReceiveType DEF CmdShutdown
  <2>2. StatusOK'
    BY <1>1, ReceiveType DEF CmdShutdown
  <2>3. QueuesOK' /\ FlushedFromRows'
    BY <1>1, ReceiveType DEF CmdShutdown
  <2>4. CountersOK' /\ ActiveIsWorking'
    BY <1>1, ReceiveType DEF CmdShutdown
  <2> QED
    BY <2>1, <2>2, <2>3, <2>4
<1>2. CASE CmdResume
  <2>1. ControlOK'
    BY <1>2, ReceiveType DEF CmdResume
  <2>2. StatusOK'
    BY <1>2, ReceiveType DEF CmdResume
  <2>3. QueuesOK' /\ FlushedFromRows'
    BY <1>2, ReceiveType DEF CmdResume
  <2>4. CountersOK' /\ ActiveIsWorking'
    BY <1>2, ReceiveType DEF CmdResume
  <2> QED
    BY <2>1, <2>2, <2>3, <2>4
<1>3. CASE CmdResumeRunning
  BY <1>3, ReceiveType DEF CmdResumeRunning
<1>4. CASE CmdForceScan
  <2>1. ControlOK'
    BY <1>4, ReceiveType DEF CmdForceScan
  <2>2. StatusOK'
    BY <1>4, ReceiveType DEF CmdForceScan
  <2>3. QueuesOK' /\ FlushedFromRows'
    BY <1>4, ReceiveType DEF CmdForceScan
  <2>4. CountersOK' /\ ActiveIsWorking'
    BY <1>4, ReceiveType DEF CmdForceScan
  <2> QED
    BY <2>1, <2>2, <2>3, <2>4
<1>5. ASSUME NEW c \in Commands, CmdSuspend(c)
      PROVE  TypeInv'
  <2>1. ControlOK'
    BY <1>5, ReceiveType DEF CmdSuspend, StatusOf
  <2>2. StatusOK'
    BY <1>5, ReceiveType DEF CmdSuspend, StatusOf
  <2>3. QueuesOK' /\ FlushedFromRows'
    BY <1>5, ReceiveType DEF CmdSuspend, StatusOf
  <2>4. CountersOK' /\ ActiveIsWorking'
    BY <1>5, ReceiveType DEF CmdSuspend, StatusOf
  <2> QED
    BY <2>1, <2>2, <2>3, <2>4
<1>6. ASSUME NEW c \in Commands, CmdWhilePaused(c)
      PROVE  TypeInv'
  <2>1. ControlOK'
    BY <1>6, ReceiveType DEF CmdWhilePaused, StatusOf
  <2>2. StatusOK'
    BY <1>6, ReceiveType DEF CmdWhilePaused, StatusOf
  <2>3. QueuesOK' /\ FlushedFromRows'
    BY <1>6, ReceiveType DEF CmdWhilePaused, StatusOf
  <2>4. CountersOK' /\ ActiveIsWorking'
    BY <1>6, ReceiveType DEF CmdWhilePaused, StatusOf
  <2> QED
    BY <2>1, <2>2, <2>3, <2>4
<1>7. ASSUME NEW c \in Commands, CmdApplyPaused(c)
      PROVE  TypeInv'
  <2>1. ControlOK'
    BY <1>7, ReceiveType DEF CmdApplyPaused, Rewatch
  <2>2. StatusOK'
    BY <1>7, ReceiveType DEF CmdApplyPaused, Rewatch
  <2>3. QueuesOK' /\ FlushedFromRows'
    BY <1>7, ReceiveType DEF CmdApplyPaused, Rewatch
  <2>4. CountersOK' /\ ActiveIsWorking'
    BY <1>7, ReceiveType DEF CmdApplyPaused, Rewatch
  <2> QED
    BY <2>1, <2>2, <2>3, <2>4
<1>8. ASSUME NEW c \in Commands, CmdApply(c)
      PROVE  TypeInv'
  <2>1. ControlOK'
    BY <1>8, ReceiveType DEF CmdApply, Rewatch
  <2>2. StatusOK'
    BY <1>8, ReceiveType DEF CmdApply, Rewatch
  <2>3. QueuesOK' /\ FlushedFromRows'
    BY <1>8, ReceiveType DEF CmdApply, Rewatch
  <2>4. CountersOK' /\ ActiveIsWorking'
    BY <1>8, ReceiveType DEF CmdApply, Rewatch
  <2> QED
    BY <2>1, <2>2, <2>3, <2>4
<1>9. ASSUME NEW c \in Commands, CutScan(c)
      PROVE  TypeInv'
  <2>1. ControlOK'
    BY <1>9, ReceiveType DEF CutScan, EndScanPaused, LeaveScan, IdleFollows, StatusOf
  <2>2. StatusOK'
    BY <1>9, ReceiveType DEF CutScan, EndScanPaused, LeaveScan, IdleFollows, StatusOf
  <2>3. QueuesOK' /\ FlushedFromRows'
    BY <1>9, ReceiveType DEF CutScan, EndScanPaused, LeaveScan, IdleFollows, StatusOf
  <2>4. CountersOK' /\ ActiveIsWorking'
    BY <1>9, ReceiveType DEF CutScan, EndScanPaused, LeaveScan, IdleFollows, StatusOf
  <2> QED
    BY <2>1, <2>2, <2>3, <2>4
<1>10. ASSUME NEW c \in Commands, DropCommand(c)
       PROVE  TypeInv'
  BY <1>10, ReceiveType DEF DropCommand
<1> QED
  BY <1>1, <1>2, <1>3, <1>4, <1>5, <1>6, <1>7, <1>8, <1>9, <1>10 DEF HandleCommand

LEMMA StepType ==
    ASSUME TypeInv, [Next]_vars
    PROVE  TypeInv'
<1> USE DEF TypeInv, TypeOK, ControlOK, StatusOK, QueuesOK, CountersOK, FlushedFromRows, ActiveIsWorking, scanVars, flagVars, queueVars, workerVars,
            sayVars, Tell, Statuses
<1>1. CASE StopNow
  <2>1. ControlOK'
    BY <1>1 DEF StopNow
  <2>2. StatusOK'
    BY <1>1 DEF StopNow
  <2>3. QueuesOK' /\ FlushedFromRows'
    BY <1>1 DEF StopNow
  <2>4. CountersOK' /\ ActiveIsWorking'
    BY <1>1 DEF StopNow
  <2> QED
    BY <2>1, <2>2, <2>3, <2>4
<1>2. CASE HandleCommand
  BY <1>2, CommandType
<1>3. CASE ScanCompare
  <2>1. ControlOK'
    BY <1>3 DEF ScanCompare
  <2>2. StatusOK'
    BY <1>3 DEF ScanCompare
  <2>3. QueuesOK' /\ FlushedFromRows'
    BY <1>3 DEF ScanCompare
  <2>4. CountersOK' /\ ActiveIsWorking'
    BY <1>3 DEF ScanCompare
  <2> QED
    BY <2>1, <2>2, <2>3, <2>4
<1>4. CASE ScanFail
  <2>1. ControlOK'
    BY <1>4 DEF ScanFail, EndScan, LeaveScan, IdleFollows
  <2>2. StatusOK'
    BY <1>4 DEF ScanFail, EndScan, LeaveScan, IdleFollows
  <2>3. QueuesOK' /\ FlushedFromRows'
    BY <1>4 DEF ScanFail, EndScan, LeaveScan, IdleFollows
  <2>4. CountersOK' /\ ActiveIsWorking'
    BY <1>4 DEF ScanFail, EndScan, LeaveScan, IdleFollows
  <2> QED
    BY <2>1, <2>2, <2>3, <2>4
<1>5. CASE ScanSend
  <2>1. ControlOK'
    BY <1>5 DEF ScanSend
  <2>2. StatusOK'
    BY <1>5 DEF ScanSend
  <2>3. QueuesOK' /\ FlushedFromRows'
    BY <1>5 DEF ScanSend
  <2>4. CountersOK' /\ ActiveIsWorking'
    BY <1>5 DEF ScanSend
  <2> QED
    BY <2>1, <2>2, <2>3, <2>4
<1>6. CASE ScanDone
  <2>1. ControlOK'
    BY <1>6 DEF ScanDone, LeaveScan
  <2>2. StatusOK'
    BY <1>6 DEF ScanDone, LeaveScan
  <2>3. QueuesOK' /\ FlushedFromRows'
    BY <1>6 DEF ScanDone, LeaveScan
  <2>4. CountersOK' /\ ActiveIsWorking'
    BY <1>6 DEF ScanDone, LeaveScan
  <2> QED
    BY <2>1, <2>2, <2>3, <2>4
<1>7. CASE RescanTick
  <2>1. ControlOK'
    BY <1>7 DEF RescanTick, StartScan
  <2>2. StatusOK'
    BY <1>7 DEF RescanTick, StartScan
  <2>3. QueuesOK' /\ FlushedFromRows'
    BY <1>7 DEF RescanTick, StartScan
  <2>4. CountersOK' /\ ActiveIsWorking'
    BY <1>7 DEF RescanTick, StartScan
  <2> QED
    BY <2>1, <2>2, <2>3, <2>4
<1>8. CASE HealthTick
  BY <1>8 DEF HealthTick
<1>9. CASE HealthOk
  <2>1. ControlOK'
    BY <1>9 DEF HealthOk
  <2>2. StatusOK'
    BY <1>9 DEF HealthOk
  <2>3. QueuesOK' /\ FlushedFromRows'
    BY <1>9 DEF HealthOk
  <2>4. CountersOK' /\ ActiveIsWorking'
    BY <1>9 DEF HealthOk
  <2> QED
    BY <2>1, <2>2, <2>3, <2>4
<1>10. CASE HealthKo
  <2>1. ControlOK'
    BY <1>10 DEF HealthKo
  <2>2. StatusOK'
    BY <1>10 DEF HealthKo
  <2>3. QueuesOK' /\ FlushedFromRows'
    BY <1>10 DEF HealthKo
  <2>4. CountersOK' /\ ActiveIsWorking'
    BY <1>10 DEF HealthKo
  <2> QED
    BY <2>1, <2>2, <2>3, <2>4
<1>11. CASE GraceEnd
  <2>1. ControlOK'
    BY <1>11 DEF GraceEnd
  <2>2. StatusOK'
    BY <1>11 DEF GraceEnd
  <2>3. QueuesOK' /\ FlushedFromRows'
    BY <1>11 DEF GraceEnd
  <2>4. CountersOK' /\ ActiveIsWorking'
    BY <1>11 DEF GraceEnd
  <2> QED
    BY <2>1, <2>2, <2>3, <2>4
<1>12. CASE FlushSend
  BY <1>12 DEF FlushSend
<1>13. CASE FlushDone
  BY <1>13 DEF FlushDone
<1>14. CASE LoginOpens
  BY <1>14 DEF LoginOpens
<1>15. CASE LoginDone
  BY <1>15 DEF LoginDone
<1>16. CASE TakeTask
  BY <1>16 DEF TakeTask
<1>17. CASE Spawn
  BY <1>17 DEF Spawn
<1>18. CASE WorkerDone
  BY <1>18 DEF WorkerDone
<1>19. CASE WorkerIdle
  BY <1>19 DEF WorkerIdle
<1>20. CASE DispatchEvent
  BY <1>20 DEF DispatchEvent
<1>21. CASE DispatchSend
  BY <1>21 DEF DispatchSend
<1>22. CASE Publish
  BY <1>22 DEF Publish
<1>23. CASE Terminated \/ UNCHANGED vars
  <2>1. ControlOK'
    BY <1>23 DEF Terminated, vars
  <2>2. StatusOK'
    BY <1>23 DEF Terminated, vars
  <2>3. QueuesOK' /\ FlushedFromRows'
    BY <1>23 DEF Terminated, vars
  <2>4. CountersOK' /\ ActiveIsWorking'
    BY <1>23 DEF Terminated, vars
  <2> QED
    BY <2>1, <2>2, <2>3, <2>4
<1>24. CASE Signal
  BY <1>24 DEF Signal
<1>25. ASSUME NEW c \in Commands, SendCommand(c)
       PROVE  TypeInv'
  BY <1>25, SendType DEF SendCommand
<1> QED
  BY <1>1, <1>2, <1>3, <1>4, <1>5, <1>6, <1>7, <1>8, <1>9, <1>10, <1>11, <1>12, <1>13,
     <1>14, <1>15, <1>16, <1>17, <1>18, <1>19, <1>20, <1>21, <1>22, <1>23, <1>24, <1>25
     DEF Next, EngineStep, ScanStep, HealthStep, WorkerStep

-----------------------------------------------------------------------------
(* Types, and the counter of the workers *)

\* Every variable keeps its type: the channels their bounds, the counters never
\* below zero (the fetch_sub of a worker, the rows removed by a flush).
THEOREM TypeCorrect == Spec => []TypeOK
<1>1. Init => TypeInv
  BY InitType
<1>2. TypeInv /\ [Next]_vars => TypeInv'
  BY StepType
<1>3. TypeInv => TypeOK
  BY DEF TypeInv
<1> QED
  BY <1>1, <1>2, <1>3, PTL DEF Spec

\* `active` counts the workers at work, and no more than max_workers permits are
\* ever held, through pauses, scans, flushes and shutdown (mod.rs:551-602).
THEOREM ActiveCorrect == Spec => []ActiveIsWorking
<1>1. Init => TypeInv
  BY InitType
<1>2. TypeInv /\ [Next]_vars => TypeInv'
  BY StepType
<1>3. TypeInv => ActiveIsWorking
  BY DEF TypeInv
<1> QED
  BY <1>1, <1>2, <1>3, PTL DEF Spec

-----------------------------------------------------------------------------
(* Tasks between the channel and the workers *)

LEMMA CountStep ==
    ASSUME TypeInv, TasksCounted, [Next]_vars
    PROVE  TasksCounted'
<1> USE DEF TypeInv, TypeOK, ControlOK, QueuesOK, CountersOK, TasksCounted, scanVars,
            flagVars, queueVars, workerVars, sayVars, StartScan, Say, Tell, Quiet
<1>1. CASE StopNow
  BY <1>1 DEF StopNow
<1>2. CASE CmdShutdown
  BY <1>2 DEF CmdShutdown
<1>3. CASE CmdResume
  BY <1>3 DEF CmdResume, Take
<1>4. CASE CmdResumeRunning
  BY <1>4 DEF CmdResumeRunning, Take
<1>5. CASE CmdForceScan
  BY <1>5 DEF CmdForceScan, Take
<1>6. ASSUME NEW c \in Commands, CmdSuspend(c)
      PROVE  TasksCounted'
  BY <1>6 DEF CmdSuspend, Take
<1>7. ASSUME NEW c \in Commands, CmdWhilePaused(c)
      PROVE  TasksCounted'
  BY <1>7 DEF CmdWhilePaused, Take
<1>8. ASSUME NEW c \in Commands, CmdApplyPaused(c)
      PROVE  TasksCounted'
  BY <1>8 DEF CmdApplyPaused, Take, Rewatch
<1>9. ASSUME NEW c \in Commands, CmdApply(c)
      PROVE  TasksCounted'
  BY <1>9 DEF CmdApply, Take, Rewatch
<1>10. ASSUME NEW c \in Commands, CutScan(c)
       PROVE  TasksCounted'
  BY <1>10 DEF CutScan, Interruptible, Scanning, EndScanPaused, LeaveScan
<1>11. ASSUME NEW c \in Commands, DropCommand(c)
       PROVE  TasksCounted'
  BY <1>11 DEF DropCommand
<1>12. CASE ScanCompare
  BY <1>12 DEF ScanCompare, Scanning
<1>13. CASE ScanFail
  BY <1>13 DEF ScanFail, Scanning, EndScan, LeaveScan
<1>14. CASE ScanSend
  BY <1>14 DEF ScanSend, Scanning
<1>15. CASE ScanDone
  BY <1>15 DEF ScanDone, Scanning, LeaveScan
<1>16. CASE RescanTick
  BY <1>16 DEF RescanTick
<1>17. CASE HealthTick
  BY <1>17 DEF HealthTick
<1>18. CASE HealthOk
  BY <1>18 DEF HealthOk
<1>19. CASE HealthKo
  BY <1>19 DEF HealthKo
<1>20. CASE LoginOpens
  BY <1>20 DEF LoginOpens
<1>21. CASE LoginDone
  BY <1>21 DEF LoginDone
<1>22. CASE GraceEnd
  BY <1>22 DEF GraceEnd
<1>23. CASE FlushSend
  BY <1>23 DEF FlushSend
<1>24. CASE FlushDone
  BY <1>24 DEF FlushDone
<1>25. CASE TakeTask
  BY <1>25 DEF TakeTask
<1>26. CASE Spawn
  BY <1>26 DEF Spawn
<1>27. CASE WorkerDone
  BY <1>27 DEF WorkerDone
<1>28. CASE WorkerIdle
  BY <1>28 DEF WorkerIdle
<1>29. CASE DispatchEvent
  BY <1>29 DEF DispatchEvent
<1>30. CASE DispatchSend
  BY <1>30 DEF DispatchSend
<1>31. CASE Publish
  BY <1>31 DEF Publish
<1>32. CASE Terminated \/ UNCHANGED vars
  BY <1>32 DEF Terminated, vars
<1>33. CASE Signal
  BY <1>33 DEF Signal
<1>34. ASSUME NEW c \in Commands, SendCommand(c)
       PROVE  TasksCounted'
  BY <1>34 DEF SendCommand
<1> QED
  BY <1>1, <1>2, <1>3, <1>4, <1>5, <1>6, <1>7, <1>8, <1>9, <1>10, <1>11,
     <1>12, <1>13, <1>14, <1>15, <1>16, <1>17, <1>18, <1>19, <1>20,
     <1>21, <1>22, <1>23, <1>24, <1>25, <1>26, <1>27, <1>28, <1>29,
     <1>30, <1>31, <1>32, <1>33, <1>34
     DEF Next, EngineStep, HandleCommand, ScanStep, HealthStep, WorkerStep

\* Until the loop returns, every task that entered the channel is in it, waits for
\* a permit, is with a worker or has been counted as done (mod.rs:548-604).
THEOREM TasksCountedCorrect == Spec => []TasksCounted
<1>1. Init => TypeInv /\ TasksCounted
  BY InitType DEF Init, TasksCounted
<1>2. TypeInv /\ TasksCounted /\ [Next]_vars => TypeInv' /\ TasksCounted'
  BY StepType, CountStep
<1> QED
  BY <1>1, <1>2, PTL DEF Spec

-----------------------------------------------------------------------------
(* Pauses and scans *)

\* A loop that is paused sits in its select; a scan runs online only. These two
\* make CutScanIsRedone inductive: nothing that may find the remote gone happens
\* in a scan, or between the pause and the Resume.
PauseInv ==
    /\ paused => pc \in {"select", "stopped"}
    /\ pc = "scan" => ~offline
    /\ CutScanIsRedone

LEMMA PauseStep ==
    ASSUME TypeInv, PauseInv, [Next]_vars
    PROVE  PauseInv'
<1> USE DEF TypeInv, TypeOK, ControlOK, PauseInv, CutScanIsRedone, scanVars, flagVars,
            queueVars, workerVars, sayVars, StartScan, Say, Tell, Quiet
<1>1. CASE StopNow
  BY <1>1 DEF StopNow
<1>2. CASE CmdShutdown
  BY <1>2 DEF CmdShutdown
<1>3. CASE CmdResume
  BY <1>3 DEF CmdResume, Take
<1>4. CASE CmdResumeRunning
  BY <1>4 DEF CmdResumeRunning, Take
<1>5. CASE CmdForceScan
  BY <1>5 DEF CmdForceScan, Take
<1>6. ASSUME NEW c \in Commands, CmdSuspend(c)
      PROVE  PauseInv'
  BY <1>6 DEF CmdSuspend, Take
<1>7. ASSUME NEW c \in Commands, CmdWhilePaused(c)
      PROVE  PauseInv'
  BY <1>7 DEF CmdWhilePaused, Take
<1>8. ASSUME NEW c \in Commands, CmdApplyPaused(c)
      PROVE  PauseInv'
  BY <1>8 DEF CmdApplyPaused, Take, Rewatch
<1>9. ASSUME NEW c \in Commands, CmdApply(c)
      PROVE  PauseInv'
  BY <1>9 DEF CmdApply, Take, Rewatch
<1>10. ASSUME NEW c \in Commands, CutScan(c)
       PROVE  PauseInv'
  BY <1>10 DEF CutScan, Interruptible, Scanning, EndScanPaused, LeaveScan
<1>11. ASSUME NEW c \in Commands, DropCommand(c)
       PROVE  PauseInv'
  BY <1>11 DEF DropCommand
<1>12. CASE ScanCompare
  BY <1>12 DEF ScanCompare, Scanning
<1>13. CASE ScanFail
  BY <1>13 DEF ScanFail, Scanning, EndScan, LeaveScan
<1>14. CASE ScanSend
  BY <1>14 DEF ScanSend, Scanning
<1>15. CASE ScanDone
  BY <1>15 DEF ScanDone, Scanning, LeaveScan
<1>16. CASE RescanTick
  BY <1>16 DEF RescanTick
<1>17. CASE HealthTick
  BY <1>17 DEF HealthTick
<1>18. CASE HealthOk
  BY <1>18 DEF HealthOk
<1>19. CASE HealthKo
  BY <1>19 DEF HealthKo
<1>20. CASE LoginOpens
  BY <1>20 DEF LoginOpens
<1>21. CASE LoginDone
  BY <1>21 DEF LoginDone
<1>22. CASE GraceEnd
  BY <1>22 DEF GraceEnd
<1>23. CASE FlushSend
  BY <1>23 DEF FlushSend
<1>24. CASE FlushDone
  BY <1>24 DEF FlushDone
<1>25. CASE TakeTask
  BY <1>25 DEF TakeTask
<1>26. CASE Spawn
  BY <1>26 DEF Spawn
<1>27. CASE WorkerDone
  BY <1>27 DEF WorkerDone
<1>28. CASE WorkerIdle
  BY <1>28 DEF WorkerIdle
<1>29. CASE DispatchEvent
  BY <1>29 DEF DispatchEvent
<1>30. CASE DispatchSend
  BY <1>30 DEF DispatchSend
<1>31. CASE Publish
  BY <1>31 DEF Publish
<1>32. CASE Terminated \/ UNCHANGED vars
  BY <1>32 DEF Terminated, vars
<1>33. CASE Signal
  BY <1>33 DEF Signal
<1>34. ASSUME NEW c \in Commands, SendCommand(c)
       PROVE  PauseInv'
  BY <1>34 DEF SendCommand
<1> QED
  BY <1>1, <1>2, <1>3, <1>4, <1>5, <1>6, <1>7, <1>8, <1>9, <1>10, <1>11,
     <1>12, <1>13, <1>14, <1>15, <1>16, <1>17, <1>18, <1>19, <1>20,
     <1>21, <1>22, <1>23, <1>24, <1>25, <1>26, <1>27, <1>28, <1>29,
     <1>30, <1>31, <1>32, <1>33, <1>34
     DEF Next, EngineStep, HandleCommand, ScanStep, HealthStep, WorkerStep

LEMMA PauseAlways == Spec => []PauseInv
<1>1. Init => TypeInv /\ PauseInv
  BY InitType DEF Init, PauseInv, CutScanIsRedone
<1>2. TypeInv /\ PauseInv /\ [Next]_vars => TypeInv' /\ PauseInv'
  BY StepType, PauseStep
<1> QED
  BY <1>1, <1>2, PTL DEF Spec

\* A scan cut short by Pause or a window is redone by the Resume that follows
\* (mod.rs:157-166, 258-279, 368-386).
THEOREM CutScanCorrect == Spec => []CutScanIsRedone
<1>1. PauseInv => CutScanIsRedone
  BY DEF PauseInv
<1> QED
  BY <1>1, PauseAlways, PTL

LEMMA QuietStep ==
    ASSUME TypeInv, PauseInv, [Next]_vars, paused
    PROVE  working' <= working
<1> USE DEF TypeInv, TypeOK, ControlOK, CountersOK, PauseInv, scanVars, flagVars,
            queueVars, workerVars, sayVars, StartScan, Say, Tell, Quiet
<1>1. CASE StopNow
  BY <1>1 DEF StopNow
<1>2. CASE CmdShutdown
  BY <1>2 DEF CmdShutdown
<1>3. CASE CmdResume
  BY <1>3 DEF CmdResume, Take
<1>4. CASE CmdResumeRunning
  BY <1>4 DEF CmdResumeRunning, Take
<1>5. CASE CmdForceScan
  BY <1>5 DEF CmdForceScan, Take
<1>6. ASSUME NEW c \in Commands, CmdSuspend(c)
      PROVE  working' <= working
  BY <1>6 DEF CmdSuspend, Take
<1>7. ASSUME NEW c \in Commands, CmdWhilePaused(c)
      PROVE  working' <= working
  BY <1>7 DEF CmdWhilePaused, Take
<1>8. ASSUME NEW c \in Commands, CmdApplyPaused(c)
      PROVE  working' <= working
  BY <1>8 DEF CmdApplyPaused, Take, Rewatch
<1>9. ASSUME NEW c \in Commands, CmdApply(c)
      PROVE  working' <= working
  BY <1>9 DEF CmdApply, Take, Rewatch
<1>10. ASSUME NEW c \in Commands, CutScan(c)
       PROVE  working' <= working
  BY <1>10 DEF CutScan, Interruptible, Scanning, EndScanPaused, LeaveScan
<1>11. ASSUME NEW c \in Commands, DropCommand(c)
       PROVE  working' <= working
  BY <1>11 DEF DropCommand
<1>12. CASE ScanCompare
  BY <1>12 DEF ScanCompare, Scanning
<1>13. CASE ScanFail
  BY <1>13 DEF ScanFail, Scanning, EndScan, LeaveScan
<1>14. CASE ScanSend
  BY <1>14 DEF ScanSend, Scanning
<1>15. CASE ScanDone
  BY <1>15 DEF ScanDone, Scanning, LeaveScan
<1>16. CASE RescanTick
  BY <1>16 DEF RescanTick
<1>17. CASE HealthTick
  BY <1>17 DEF HealthTick
<1>18. CASE HealthOk
  BY <1>18 DEF HealthOk
<1>19. CASE HealthKo
  BY <1>19 DEF HealthKo
<1>20. CASE LoginOpens
  BY <1>20 DEF LoginOpens
<1>21. CASE LoginDone
  BY <1>21 DEF LoginDone
<1>22. CASE GraceEnd
  BY <1>22 DEF GraceEnd
<1>23. CASE FlushSend
  BY <1>23 DEF FlushSend
<1>24. CASE FlushDone
  BY <1>24 DEF FlushDone
<1>25. CASE TakeTask
  BY <1>25 DEF TakeTask
<1>26. CASE Spawn
  BY <1>26 DEF Spawn
<1>27. CASE WorkerDone
  BY <1>27 DEF WorkerDone
<1>28. CASE WorkerIdle
  BY <1>28 DEF WorkerIdle
<1>29. CASE DispatchEvent
  BY <1>29 DEF DispatchEvent
<1>30. CASE DispatchSend
  BY <1>30 DEF DispatchSend
<1>31. CASE Publish
  BY <1>31 DEF Publish
<1>32. CASE Terminated \/ UNCHANGED vars
  <2>1. UNCHANGED vars
    BY <1>32 DEF Terminated
  <2>2. working' = working
    BY <2>1 DEF vars
  <2> QED
    BY <2>2
<1>33. CASE Signal
  BY <1>33 DEF Signal
<1>34. ASSUME NEW c \in Commands, SendCommand(c)
       PROVE  working' <= working
  BY <1>34 DEF SendCommand
<1> QED
  BY <1>1, <1>2, <1>3, <1>4, <1>5, <1>6, <1>7, <1>8, <1>9, <1>10, <1>11,
     <1>12, <1>13, <1>14, <1>15, <1>16, <1>17, <1>18, <1>19, <1>20,
     <1>21, <1>22, <1>23, <1>24, <1>25, <1>26, <1>27, <1>28, <1>29,
     <1>30, <1>31, <1>32, <1>33, <1>34
     DEF Next, EngineStep, HandleCommand, ScanStep, HealthStep, WorkerStep

\* No transfer begins while the engine is paused (mod.rs:361-424): a task takes its
\* permit at pc = "permit", where no pause can find the loop.
THEOREM QuietCorrect == Spec => QuietWhilePaused
<1>1. Init => TypeInv
  BY InitType
<1>2. TypeInv /\ [Next]_vars => TypeInv'
  BY StepType
<1>3. TypeInv /\ PauseInv /\ [Next]_vars =>
        [paused /\ paused' => working' <= working]_vars
  BY QuietStep
<1> QED
  BY <1>1, <1>2, <1>3, PauseAlways, PTL DEF Spec, QuietWhilePaused

\* A step that says nothing and leaves the pause and the loop's life alone.
LEMMA MuteStep ==
    ASSUME PauseIsTold, UNCHANGED <<told, covered, paused>>, pc' # "stopped" => pc # "stopped"
    PROVE  PauseIsTold'
  BY DEF PauseIsTold, PauseStatuses

LEMMA ToldStep ==
    ASSUME PauseInv, PauseIsTold, [Next]_vars
    PROVE  PauseIsTold'
<1> USE DEF PauseInv, scanVars, flagVars, queueVars, workerVars, sayVars, StartScan, Say,
            Tell, Quiet
<1>1. CASE StopNow \/ CmdShutdown
  BY <1>1 DEF StopNow, CmdShutdown, PauseIsTold
<1>2. CASE CmdResume
  BY <1>2 DEF CmdResume, Take, PauseIsTold
<1>3. CASE CmdResumeRunning
  BY <1>3, MuteStep DEF CmdResumeRunning, Take
<1>4. CASE CmdForceScan
  BY <1>4 DEF CmdForceScan, Take, PauseIsTold
<1>5. ASSUME NEW c \in Commands, CmdSuspend(c)
      PROVE  PauseIsTold'
  BY <1>5 DEF CmdSuspend, Take, StatusOf, PauseIsTold, PauseStatuses
<1>6. ASSUME NEW c \in Commands, CmdWhilePaused(c)
      PROVE  PauseIsTold'
  BY <1>6 DEF CmdWhilePaused, Take, StatusOf, PauseIsTold, PauseStatuses
<1>7. ASSUME NEW c \in Commands, CmdApplyPaused(c)
      PROVE  PauseIsTold'
  BY <1>7, MuteStep DEF CmdApplyPaused, Take
<1>8. ASSUME NEW c \in Commands, CmdApply(c)
      PROVE  PauseIsTold'
  BY <1>8 DEF CmdApply, Take, PauseIsTold
<1>9. ASSUME NEW c \in Commands, CutScan(c)
      PROVE  PauseIsTold'
  BY <1>9 DEF CutScan, EndScanPaused, LeaveScan, IdleFollows, StatusOf, PauseIsTold,
              PauseStatuses
<1>10. ASSUME NEW c \in Commands, DropCommand(c)
       PROVE  PauseIsTold'
  BY <1>10, MuteStep DEF DropCommand
<1>11. CASE ScanStep
  \* A scan runs only while the loop is not paused, and none of its steps pauses it.
  <2>1. ~paused /\ UNCHANGED paused
    BY <1>11 DEF ScanStep, ScanCompare, ScanFail, ScanSend, ScanDone, Scanning
  <2> QED
    BY <2>1 DEF PauseIsTold
<1>12. CASE RescanTick
  BY <1>12 DEF RescanTick, PauseIsTold
<1>13. CASE HealthStep
  <2>1. ~paused /\ UNCHANGED paused
    BY <1>13 DEF HealthStep, HealthOk, HealthKo, GraceEnd, FlushSend, FlushDone
  <2> QED
    BY <2>1 DEF PauseIsTold
<1>14. CASE HealthTick \/ LoginOpens \/ LoginDone \/ TakeTask \/ Spawn
  BY <1>14, MuteStep DEF HealthTick, LoginOpens, LoginDone, TakeTask, Spawn
<1>15. CASE WorkerStep
  BY <1>15, MuteStep DEF WorkerStep, WorkerDone, WorkerIdle
<1>16. CASE DispatchEvent \/ DispatchSend \/ Publish \/ Signal
  BY <1>16, MuteStep DEF DispatchEvent, DispatchSend, Publish, Signal
<1>17. CASE Terminated \/ UNCHANGED vars
  BY <1>17, MuteStep DEF Terminated, vars
<1>18. ASSUME NEW c \in Commands, SendCommand(c)
       PROVE  PauseIsTold'
  BY <1>18, MuteStep DEF SendCommand
<1> QED
  BY <1>1, <1>2, <1>3, <1>4, <1>5, <1>6, <1>7, <1>8, <1>9, <1>10, <1>11, <1>12,
     <1>13, <1>14, <1>15, <1>16, <1>17, <1>18 DEF Next, EngineStep, HandleCommand

\* The last word of the loop in a pause is that of the pause, whatever it is told and
\* whatever runs around it, but for the Idle that covers a pause which cut the scan of
\* a Resume or of an ApplyConfig (mod.rs:157-176, 385, 391-424, 484).
THEOREM ToldCorrect == Spec => []PauseIsTold
<1>1. Init => PauseIsTold
  BY DEF Init, PauseIsTold
<1>2. PauseInv /\ PauseIsTold /\ [Next]_vars => PauseIsTold'
  BY ToldStep
<1> QED
  BY <1>1, <1>2, PauseAlways, PTL DEF Spec

-----------------------------------------------------------------------------
(* Refinement *)

LifeStep == [L!LifeNext]_(L!lifeVars)

\* A step that touches none of the five things the desktop sees.
LEMMA HiddenStep ==
    ASSUME UNCHANGED <<pc, scanFor, paused, rescanOnResume, shutdown, cmdq>>
    PROVE  LifeStep
  BY DEF LifeStep, L!lifeVars, Mode

LEMMA CommandLife ==
    ASSUME TypeInv, HandleCommand
    PROVE  LifeStep
<1> USE DEF LifeStep, L!LifeNext, L!Hear, L!Alphabet, L!Receive, L!Take, L!Listening,
            Receive, Take, Mode, StartScan, Say, Tell, Quiet, scanVars
<1>1. CASE CmdShutdown
  <2>1. L!HearShutdown
    BY <1>1 DEF CmdShutdown, L!HearShutdown, Interruptible, Scanning
  <2> QED
    BY <2>1
<1>2. CASE CmdResume
  <2>1. L!Resume
    BY <1>2 DEF CmdResume, L!Resume
  <2> QED
    BY <2>1
<1>3. CASE CmdResumeRunning
  <2>1. L!Resume
    BY <1>3 DEF CmdResumeRunning, L!Resume, flagVars
  <2> QED
    BY <2>1
<1>4. CASE CmdForceScan
  <2>1. L!ForceScan
    BY <1>4 DEF CmdForceScan, L!ForceScan, flagVars
  <2> QED
    BY <2>1
<1>5. ASSUME NEW c \in Commands, CmdSuspend(c)
      PROVE  LifeStep
  <2>1. L!Suspend(c)
    BY <1>5 DEF CmdSuspend, L!Suspend
  <2> QED
    BY <2>1
<1>6. ASSUME NEW c \in Commands, CmdWhilePaused(c)
      PROVE  LifeStep
  <2>1. L!Suspend(c) \/ L!ForceScan
    BY <1>6 DEF CmdWhilePaused, L!Suspend, L!ForceScan, flagVars
  <2> QED
    BY <2>1
<1>7. ASSUME NEW c \in Commands, CmdApplyPaused(c) \/ CmdApply(c)
      PROVE  LifeStep
  <2>1. c \in Commands \cap {"Apply", "ApplyRoot"}
    BY <1>7 DEF CmdApplyPaused, CmdApply
  <2>2. L!Apply(c)
    BY <1>7, <2>1 DEF CmdApplyPaused, CmdApply, L!Apply, flagVars
  <2> QED
    BY <2>1, <2>2
<1>8. ASSUME NEW c \in Commands, CutScan(c)
      PROVE  LifeStep
  <2>1. L!Cut(c)
    BY <1>8 DEF CutScan, L!Cut, Interruptible, Scanning, EndScanPaused, LeaveScan, TypeInv, TypeOK, ControlOK
  <2> QED
    BY <2>1
<1>9. ASSUME NEW c \in Commands, DropCommand(c)
      PROVE  LifeStep
  <2>1. L!Lose(c)
    BY <1>9 DEF DropCommand, L!Lose, Interruptible, Scanning, flagVars, TypeInv, TypeOK, ControlOK
  <2> QED
    BY <2>1
<1> QED
  BY <1>1, <1>2, <1>3, <1>4, <1>5, <1>6, <1>7, <1>8, <1>9 DEF HandleCommand

LEMMA StepLife ==
    ASSUME TypeInv, [Next]_vars
    PROVE  LifeStep
<1> USE DEF scanVars, flagVars, queueVars, workerVars, sayVars
<1>1. CASE HandleCommand
  BY <1>1, CommandLife
<1>2. CASE StopNow
  <2>1. L!Stop
    BY <1>2 DEF StopNow, L!Stop, Mode
  <2> QED
    BY <2>1 DEF LifeStep, L!LifeNext
<1>3. CASE ScanFail \/ ScanDone
  <2>1. L!Return
    BY <1>3 DEF ScanFail, ScanDone, EndScan, LeaveScan, Scanning, L!Return, L!Listening, Mode,
                TypeInv, TypeOK, ControlOK
  <2> QED
    BY <2>1 DEF LifeStep, L!LifeNext
<1>4. CASE RescanTick \/ HealthTick \/ TakeTask
  <2>1. L!Leave
    BY <1>4 DEF RescanTick, HealthTick, TakeTask, StartScan, L!Leave, Mode
  <2> QED
    BY <2>1 DEF LifeStep, L!LifeNext
<1>5. CASE HealthOk \/ HealthKo \/ FlushDone \/ Spawn
  <2>1. L!Return \/ UNCHANGED L!lifeVars
    BY <1>5 DEF HealthOk, HealthKo, FlushDone, Spawn, L!Return, L!lifeVars, Mode
  <2> QED
    BY <2>1 DEF LifeStep, L!LifeNext
<1>6. CASE LoginOpens \/ LoginDone \/ GraceEnd \/ FlushSend
  <2>1. UNCHANGED L!lifeVars
    BY <1>6 DEF LoginOpens, LoginDone, GraceEnd, FlushSend, L!lifeVars, Mode
  <2> QED
    BY <2>1 DEF LifeStep
<1>7. CASE ScanCompare \/ ScanSend \/ WorkerStep \/ DispatchEvent \/ DispatchSend
           \/ Publish \/ Terminated \/ UNCHANGED vars
  <2>1. UNCHANGED <<pc, scanFor, paused, rescanOnResume, shutdown, cmdq>>
    BY <1>7 DEF ScanCompare, ScanSend, WorkerStep, WorkerDone, WorkerIdle, DispatchEvent,
                DispatchSend, Publish, Terminated, vars
  <2> QED
    BY <2>1, HiddenStep
<1>8. CASE Signal
  <2>1. L!Cancel
    BY <1>8 DEF Signal, L!Cancel, Mode
  <2> QED
    BY <2>1 DEF LifeStep, L!LifeNext
<1>9. ASSUME NEW c \in Commands, SendCommand(c)
      PROVE  LifeStep
  <2>1. L!Send(c)
    BY <1>9 DEF SendCommand, L!Send, Mode
  <2> QED
    BY <2>1 DEF LifeStep, L!LifeNext, L!Alphabet
<1> QED
  BY <1>1, <1>2, <1>3, <1>4, <1>5, <1>6, <1>7, <1>8, <1>9
     DEF Next, EngineStep, ScanStep, HealthStep

\* The engine, for all its scans, tasks, workers and logins, hears the desktop as
\* module Lifecycle says, so what Desktop shows of Lifecycle holds of the engine.
THEOREM RefinementCorrect == Spec => ImplementsLifecycle
<1>1. Init => L!LifeInit
  BY DEF Init, L!LifeInit, Mode
<1>2. Init => TypeInv
  BY InitType
<1>3. TypeInv /\ [Next]_vars => TypeInv' /\ LifeStep
  BY StepType, StepLife
<1> QED
  BY <1>1, <1>2, <1>3, PTL DEF Spec, ImplementsLifecycle, L!LifeSpec, LifeStep
=============================================================================
