------------------------ MODULE DebugServer_proofs --------------------------
(***************************************************************************)
(* Proofs about DebugServer for every set of trace commands, every socket *)
(* capacity and every setting of the switches: the inductive invariant    *)
(* IInv, one lemma per thread and part of the invariant and in it one     *)
(* step per action, then the theorems of the specification, the last of   *)
(* which is that DebugServer implements BreakSession.                     *)
(***************************************************************************)
EXTENDS DebugServer, SequenceTheorems, TLAPS

-----------------------------------------------------------------------------
(* Types.                                                                  *)

\* The flags stay Boolean at every step of the virtual machine's thread.
LEMMA VmFlags ==
    ASSUME FlagsOK, VmNext
    PROVE  FlagsOK'
<1> USE DEF VmStep, DbgStep, ConStep, Free, vmThread, vmVars, breakVars, tracerVars,
            shared, linkVars, mutexes, server, dbgVars, conVars, serverVars
<1>1. CASE VmIsConnected
  BY <1>1, Zenon DEF FlagsOK, VmIsConnected
<1>2. CASE VmHandleAnyTraceCommand
  BY <1>2, Zenon DEF FlagsOK, VmHandleAnyTraceCommand
<1>3. CASE VmUserRequest
  BY <1>3, Zenon DEF FlagsOK, VmUserRequest
<1>4. CASE VmTraceDone
  BY <1>4, Zenon DEF FlagsOK, VmTraceDone
<1>5. CASE VmLine
  BY <1>5, Zenon DEF FlagsOK, VmLine
<1>6. CASE VmCondEnter
  BY <1>6, Zenon DEF FlagsOK, VmCondEnter
<1>7. CASE VmCondLeave
  BY <1>7, Zenon DEF FlagsOK, VmCondLeave
<1>8. CASE VmError
  BY <1>8, Zenon DEF FlagsOK, VmError
<1>9. CASE VmArtificial
  BY <1>9, Zenon DEF FlagsOK, VmArtificial
<1>10. CASE VmEnter
  BY <1>10, Zenon DEF FlagsOK, VmEnter
<1>11. CASE VmOnStop
  BY <1>11, Zenon DEF FlagsOK, VmOnStop
<1>12. CASE VmNotify
  BY <1>12, Zenon DEF FlagsOK, VmNotify, VmNextMessage
<1>13. CASE VmAdapter
  BY <1>13, Zenon DEF FlagsOK, VmAdapter
<1>14. CASE VmSend
  BY <1>14, Zenon DEF FlagsOK, VmSend, VmNextMessage
<1>15. CASE VmWait
  BY <1>15, Zenon DEF FlagsOK, VmWait
<1>16. CASE VmLeave
  BY <1>16, Zenon DEF FlagsOK, VmLeave
<1>17. CASE VmClose
  BY <1>17, Zenon DEF FlagsOK, VmClose
<1>18. CASE VmClosing
  BY <1>18, Zenon DEF FlagsOK, VmClosing
<1>19. CASE VmEnd
  BY <1>19, Zenon DEF FlagsOK, VmEnd
<1>20. CASE VmStopDbg
  BY <1>20, Zenon DEF FlagsOK, VmStopDbg
<1>21. CASE VmCheckClient
  BY <1>21, Zenon DEF FlagsOK, VmCheckClient
<1>22. CASE VmInfoStop
  BY <1>22, Zenon DEF FlagsOK, VmInfoStop
<1>23. CASE VmDeleteClient
  BY <1>23, Zenon DEF FlagsOK, VmDeleteClient
<1>24. CASE VmStopCon
  BY <1>24, Zenon DEF FlagsOK, VmStopCon
<1> QED BY <1>1, <1>2, <1>3, <1>4, <1>5, <1>6, <1>7, <1>8, <1>9, <1>10,
           <1>11, <1>12, <1>13, <1>14, <1>15, <1>16, <1>17, <1>18, <1>19,
           <1>20, <1>21, <1>22, <1>23, <1>24 DEF VmNext

\* The flags stay Boolean at every step of the service thread.
LEMMA DbgFlags ==
    ASSUME FlagsOK, DbgNext
    PROVE  FlagsOK'
<1> USE DEF VmStep, DbgStep, ConStep, Free, vmThread, vmVars, breakVars, tracerVars,
            shared, linkVars, mutexes, server, dbgVars, conVars, serverVars
<1>1. CASE DbgTest
  BY <1>1, Zenon DEF FlagsOK, DbgTest
<1>2. CASE DbgIdle
  BY <1>2, Zenon DEF FlagsOK, DbgIdle
<1>3. CASE DbgReceive
  BY <1>3, Zenon DEF FlagsOK, DbgReceive
<1>4. CASE DbgLost
  BY <1>4, Zenon DEF FlagsOK, DbgLost
<1>5. CASE DbgReset
  BY <1>5, Zenon DEF FlagsOK, DbgReset
<1>6. CASE DbgGo
  BY <1>6, Zenon DEF FlagsOK, DbgGo
<1>7. CASE DbgRestart
  BY <1>7, Zenon DEF FlagsOK, DbgRestart
<1>8. CASE DbgRelease
  BY <1>8, Zenon DEF FlagsOK, DbgRelease
<1>9. CASE DbgPost
  BY <1>9, Zenon DEF FlagsOK, DbgPost
<1>10. CASE DbgFill
  BY <1>10, Zenon DEF FlagsOK, DbgFill
<1>11. CASE DbgMark
  BY <1>11, Zenon DEF FlagsOK, DbgMark
<1>12. CASE DbgBreakExecution
  BY <1>12, Zenon DEF FlagsOK, DbgBreakExecution
<1>13. CASE DbgInspect
  BY <1>13, Zenon DEF FlagsOK, DbgInspect
<1>14. CASE DbgReply
  BY <1>14, Zenon DEF FlagsOK, DbgReply
<1>15. CASE DbgStop
  BY <1>15, Zenon DEF FlagsOK, DbgStop
<1>16. CASE DbgProcessed
  BY <1>16, Zenon DEF FlagsOK, DbgProcessed
<1>17. CASE DbgFinish
  BY <1>17, Zenon DEF FlagsOK, DbgFinish
<1> QED BY <1>1, <1>2, <1>3, <1>4, <1>5, <1>6, <1>7, <1>8, <1>9, <1>10,
           <1>11, <1>12, <1>13, <1>14, <1>15, <1>16, <1>17 DEF DbgNext

\* The flags stay Boolean at every step of the connection thread.
LEMMA ConFlags ==
    ASSUME FlagsOK, ConNext
    PROVE  FlagsOK'
<1> USE DEF VmStep, DbgStep, ConStep, Free, vmThread, vmVars, breakVars, tracerVars,
            shared, linkVars, mutexes, server, dbgVars, conVars, serverVars
<1>1. CASE ConBegin
  BY <1>1, Zenon DEF FlagsOK, ConBegin
<1>2. CASE ConAccept
  BY <1>2, Zenon DEF FlagsOK, ConAccept
<1>3. CASE ConAccepted
  BY <1>3, Zenon DEF FlagsOK, ConAccepted
<1>4. CASE ConExit
  BY <1>4, Zenon DEF FlagsOK, ConExit
<1>5. CASE ConInit
  BY <1>5, Zenon DEF FlagsOK, ConInit
<1>6. CASE ConReceive
  BY <1>6, Zenon DEF FlagsOK, ConReceive
<1>7. CASE ConReceiveFails
  BY <1>7, Zenon DEF FlagsOK, ConReceiveFails
<1>8. CASE ConSet
  BY <1>8, Zenon DEF FlagsOK, ConSet
<1>9. CASE ConStartDbg
  BY <1>9, Zenon DEF FlagsOK, ConStartDbg
<1>10. CASE ConFinish
  BY <1>10, Zenon DEF FlagsOK, ConFinish
<1> QED BY <1>1, <1>2, <1>3, <1>4, <1>5, <1>6, <1>7, <1>8, <1>9, <1>10 DEF
           ConNext

\* The other variables keep their type at every step of the virtual machine's
\* thread.
LEMMA VmValues ==
    ASSUME ValuesOK, VmNext
    PROVE  ValuesOK'
<1> USE DEF VmStep, DbgStep, ConStep, Free, vmThread, vmVars, breakVars, tracerVars,
            shared, linkVars, mutexes, server, dbgVars, conVars, serverVars
<1>1. CASE VmIsConnected
  BY <1>1 DEF ValuesOK, VmIsConnected, VmPcs
<1>2. CASE VmHandleAnyTraceCommand
  BY <1>2 DEF ValuesOK, VmHandleAnyTraceCommand, VmPcs
<1>3. CASE VmUserRequest
  BY <1>3 DEF ValuesOK, VmUserRequest, VmPcs
<1>4. CASE VmTraceDone
  BY <1>4 DEF ValuesOK, VmTraceDone, VmPcs
<1>5. CASE VmLine
  BY <1>5 DEF ValuesOK, VmLine, VmPcs
<1>6. CASE VmCondEnter
  BY <1>6 DEF ValuesOK, VmCondEnter, VmPcs
<1>7. CASE VmCondLeave
  BY <1>7 DEF ValuesOK, VmCondLeave, VmPcs
<1>8. CASE VmError
  BY <1>8 DEF ValuesOK, VmError, VmPcs
<1>9. CASE VmArtificial
  BY <1>9 DEF ValuesOK, VmArtificial, VmPcs
<1>10. CASE VmEnter
  BY <1>10 DEF ValuesOK, VmEnter, VmPcs
<1>11. CASE VmOnStop
  BY <1>11 DEF ValuesOK, VmOnStop, VmPcs
<1>12. CASE VmNotify
  BY <1>12 DEF ValuesOK, VmNotify, VmPcs, VmNextMessage
<1>13. CASE VmAdapter
  BY <1>13 DEF ValuesOK, VmAdapter, VmPcs
<1>14. CASE VmSend
  BY <1>14 DEF ValuesOK, VmSend, VmPcs, VmNextMessage
<1>15. CASE VmWait
  BY <1>15 DEF ValuesOK, VmWait, VmPcs
<1>16. CASE VmLeave
  BY <1>16 DEF ValuesOK, VmLeave, VmPcs
<1>17. CASE VmClose
  BY <1>17 DEF ValuesOK, VmClose, VmPcs
<1>18. CASE VmClosing
  BY <1>18 DEF ValuesOK, VmClosing, VmPcs
<1>19. CASE VmEnd
  BY <1>19 DEF ValuesOK, VmEnd, VmPcs
<1>20. CASE VmStopDbg
  BY <1>20 DEF ValuesOK, VmStopDbg, VmPcs, DbgPcs
<1>21. CASE VmCheckClient
  BY <1>21 DEF ValuesOK, VmCheckClient, VmPcs
<1>22. CASE VmInfoStop
  BY <1>22 DEF ValuesOK, VmInfoStop, VmPcs
<1>23. CASE VmDeleteClient
  BY <1>23 DEF ValuesOK, VmDeleteClient, VmPcs
<1>24. CASE VmStopCon
  BY <1>24 DEF ValuesOK, VmStopCon, VmPcs
<1> QED BY <1>1, <1>2, <1>3, <1>4, <1>5, <1>6, <1>7, <1>8, <1>9, <1>10,
           <1>11, <1>12, <1>13, <1>14, <1>15, <1>16, <1>17, <1>18, <1>19,
           <1>20, <1>21, <1>22, <1>23, <1>24 DEF VmNext

\* The other variables keep their type at every step of the service thread; the
\* command posted is a release because of Handshake.
LEMMA DbgValues ==
    ASSUME ValuesOK, Handshake, DbgNext
    PROVE  ValuesOK'
<1> USE DEF VmStep, DbgStep, ConStep, Free, vmThread, vmVars, breakVars, tracerVars,
            shared, linkVars, mutexes, server, dbgVars, conVars, serverVars
<1>1. CASE DbgTest
  BY <1>1 DEF ValuesOK, DbgTest, DbgPcs
<1>2. CASE DbgIdle
  BY <1>2 DEF ValuesOK, DbgIdle, DbgPcs
<1>3. CASE DbgReceive
  BY <1>3 DEF ValuesOK, DbgReceive, DbgPcs
<1>4. CASE DbgLost
  BY <1>4 DEF ValuesOK, DbgLost, DbgPcs
<1>5. CASE DbgReset
  BY <1>5 DEF ValuesOK, DbgReset, DbgPcs, Callbacks
<1>6. CASE DbgGo
  BY <1>6 DEF ValuesOK, DbgGo, DbgPcs, Requests, Releases
<1>7. CASE DbgRestart
  BY <1>7 DEF ValuesOK, DbgRestart, DbgPcs, ConPcs
<1>8. CASE DbgRelease
  BY <1>8 DEF ValuesOK, DbgRelease, DbgPcs
<1>9. CASE DbgPost
  BY <1>9 DEF ValuesOK, DbgPost, DbgPcs, Requests, Releases, Handshake
<1>10. CASE DbgFill
  BY <1>10 DEF ValuesOK, DbgFill, DbgPcs
<1>11. CASE DbgMark
  BY <1>11 DEF ValuesOK, DbgMark, DbgPcs
<1>12. CASE DbgBreakExecution
  BY <1>12 DEF ValuesOK, DbgBreakExecution, DbgPcs
<1>13. CASE DbgInspect
  BY <1>13 DEF ValuesOK, DbgInspect, DbgPcs
<1>14. CASE DbgReply
  BY <1>14 DEF ValuesOK, DbgReply, DbgPcs
<1>15. CASE DbgStop
  BY <1>15 DEF ValuesOK, DbgStop, DbgPcs
<1>16. CASE DbgProcessed
  BY <1>16 DEF ValuesOK, DbgProcessed, DbgPcs
<1>17. CASE DbgFinish
  BY <1>17 DEF ValuesOK, DbgFinish, DbgPcs
<1> QED BY <1>1, <1>2, <1>3, <1>4, <1>5, <1>6, <1>7, <1>8, <1>9, <1>10,
           <1>11, <1>12, <1>13, <1>14, <1>15, <1>16, <1>17 DEF DbgNext

\* The other variables keep their type at every step of the connection thread.
LEMMA ConValues ==
    ASSUME ValuesOK, ConNext
    PROVE  ValuesOK'
<1> USE DEF VmStep, DbgStep, ConStep, Free, vmThread, vmVars, breakVars, tracerVars,
            shared, linkVars, mutexes, server, dbgVars, conVars, serverVars
<1>1. CASE ConBegin
  BY <1>1 DEF ValuesOK, ConBegin, ConPcs
<1>2. CASE ConAccept
  BY <1>2 DEF ValuesOK, ConAccept, ConPcs
<1>3. CASE ConAccepted
  BY <1>3 DEF ValuesOK, ConAccepted, ConPcs
<1>4. CASE ConExit
  BY <1>4 DEF ValuesOK, ConExit, ConPcs
<1>5. CASE ConInit
  BY <1>5 DEF ValuesOK, ConInit, ConPcs
<1>6. CASE ConReceive
  BY <1>6 DEF ValuesOK, ConReceive, ConPcs
<1>7. CASE ConReceiveFails
  BY <1>7 DEF ValuesOK, ConReceiveFails, ConPcs
<1>8. CASE ConSet
  BY <1>8 DEF ValuesOK, ConSet, ConPcs, Callbacks
<1>9. CASE ConStartDbg
  BY <1>9 DEF ValuesOK, ConStartDbg, ConPcs, DbgPcs
<1>10. CASE ConFinish
  BY <1>10 DEF ValuesOK, ConFinish, ConPcs
<1> QED BY <1>1, <1>2, <1>3, <1>4, <1>5, <1>6, <1>7, <1>8, <1>9, <1>10 DEF
           ConNext

\* The client's steps change nothing but its state and the link.
LEMMA PeerValues ==
    ASSUME ValuesOK, PeerNext
    PROVE  ValuesOK'
<1> USE DEF ValuesOK, vmThread, vmVars, breakVars, tracerVars, shared, linkVars,
            mutexes, server, dbgVars, conVars, serverVars
<1>1. CASE PeerConnect
  BY <1>1 DEF PeerConnect
<1>2. CASE PeerDetach
  BY <1>2 DEF PeerDetach
<1>3. ASSUME NEW r \in Requests, PeerPost(r) PROVE ValuesOK'
  BY <1>3 DEF PeerPost
<1> QED BY <1>1, <1>2, <1>3 DEF PeerNext

-----------------------------------------------------------------------------
(* The handshake of the virtual machine's and the service thread.         *)

\* Handshake is kept by the virtual machine's thread.
LEMMA VmHandshake ==
    ASSUME FlagsOK, ValuesOK, Handshake, VmNext
    PROVE  Handshake'
<1> USE DEF VmStep, DbgStep, ConStep, Free, vmThread, vmVars, breakVars, tracerVars,
            shared, linkVars, mutexes, server, dbgVars, conVars, serverVars
<1>1. CASE VmIsConnected
  BY <1>1 DEF Handshake, FlagsOK, VmIsConnected, InService, PastReport,
              Releases
<1>2. CASE VmHandleAnyTraceCommand
  BY <1>2 DEF Handshake, FlagsOK, VmHandleAnyTraceCommand, InService,
              PastReport, Releases
<1>3. CASE VmUserRequest
  BY <1>3 DEF Handshake, FlagsOK, VmUserRequest, InService, PastReport,
              Releases
<1>4. CASE VmTraceDone
  BY <1>4 DEF Handshake, FlagsOK, VmTraceDone, InService, PastReport, Releases
<1>5. CASE VmLine
  BY <1>5 DEF Handshake, FlagsOK, VmLine, InService, PastReport, Releases
<1>6. CASE VmCondEnter
  BY <1>6 DEF Handshake, FlagsOK, VmCondEnter, InService, PastReport, Releases
<1>7. CASE VmCondLeave
  BY <1>7 DEF Handshake, FlagsOK, VmCondLeave, InService, PastReport, Releases
<1>8. CASE VmError
  BY <1>8 DEF Handshake, FlagsOK, VmError, InService, PastReport, Releases
<1>9. CASE VmArtificial
  BY <1>9 DEF Handshake, FlagsOK, VmArtificial, InService, PastReport, Releases
<1>10. CASE VmEnter
  BY <1>10 DEF Handshake, FlagsOK, VmEnter, InService, PastReport, Releases
<1>11. CASE VmOnStop
  BY <1>11 DEF Handshake, FlagsOK, VmOnStop, InService, PastReport, Releases
<1>12. CASE VmNotify
  BY <1>12 DEF Handshake, FlagsOK, ValuesOK, VmNotify, VmNextMessage, Message,
               BreakInformation, InService, PastReport, Releases
<1>13. CASE VmAdapter
  BY <1>13 DEF Handshake, FlagsOK, ValuesOK, VmAdapter, Message,
               BreakInformation, InService, PastReport, Releases
<1>14. CASE VmSend
  BY <1>14 DEF Handshake, FlagsOK, ValuesOK, VmSend, VmNextMessage, Message,
               InService, PastReport, Releases
<1>15. CASE VmWait
  BY <1>15 DEF Handshake, FlagsOK, VmWait, InService, PastReport, Releases
<1>16. CASE VmLeave
  BY <1>16 DEF Handshake, FlagsOK, VmLeave, InService, PastReport, Releases
<1>17. CASE VmClose
  BY <1>17 DEF Handshake, FlagsOK, VmClose, InService, PastReport, Releases
<1>18. CASE VmClosing
  BY <1>18 DEF Handshake, FlagsOK, VmClosing, InService, PastReport, Releases
<1>19. CASE VmEnd
  BY <1>19 DEF Handshake, FlagsOK, VmEnd, InService, PastReport, Releases
<1>20. CASE VmStopDbg
  BY <1>20 DEF Handshake, FlagsOK, VmStopDbg, InService, PastReport, Releases
<1>21. CASE VmCheckClient
  BY <1>21 DEF Handshake, FlagsOK, VmCheckClient, InService, PastReport,
               Releases
<1>22. CASE VmInfoStop
  BY <1>22 DEF Handshake, FlagsOK, VmInfoStop, InService, PastReport, Releases
<1>23. CASE VmDeleteClient
  BY <1>23 DEF Handshake, FlagsOK, VmDeleteClient, InService, PastReport,
               Releases
<1>24. CASE VmStopCon
  BY <1>24 DEF Handshake, FlagsOK, VmStopCon, InService, PastReport, Releases
<1> QED BY <1>1, <1>2, <1>3, <1>4, <1>5, <1>6, <1>7, <1>8, <1>9, <1>10,
           <1>11, <1>12, <1>13, <1>14, <1>15, <1>16, <1>17, <1>18, <1>19,
           <1>20, <1>21, <1>22, <1>23, <1>24 DEF VmNext

\* Handshake is kept by the service thread.
LEMMA DbgHandshake ==
    ASSUME FlagsOK, ValuesOK, Handshake, DbgNext
    PROVE  Handshake'
<1> USE DEF VmStep, DbgStep, ConStep, Free, vmThread, vmVars, breakVars, tracerVars,
            shared, linkVars, mutexes, server, dbgVars, conVars, serverVars
<1>1. CASE DbgTest
  BY <1>1 DEF Handshake, FlagsOK, DbgTest, InService, PastReport, Releases
<1>2. CASE DbgIdle
  BY <1>2 DEF Handshake, FlagsOK, DbgIdle, InService, PastReport, Releases
<1>3. CASE DbgReceive
  BY <1>3 DEF Handshake, FlagsOK, DbgReceive, InService, PastReport, Releases
<1>4. CASE DbgLost
  BY <1>4 DEF Handshake, FlagsOK, DbgLost, InService, PastReport, Releases
<1>5. CASE DbgReset
  BY <1>5 DEF Handshake, FlagsOK, DbgReset, InService, PastReport, Releases
<1>6. CASE DbgGo
  BY <1>6 DEF Handshake, FlagsOK, DbgGo, InService, PastReport, Releases
<1>7. CASE DbgRestart
  BY <1>7 DEF Handshake, FlagsOK, DbgRestart, InService, PastReport, Releases
<1>8. CASE DbgRelease
  BY <1>8 DEF Handshake, FlagsOK, DbgRelease, InService, PastReport, Releases
<1>9. CASE DbgPost
  BY <1>9 DEF Handshake, FlagsOK, DbgPost, InService, PastReport, Releases
<1>10. CASE DbgFill
  BY <1>10 DEF Handshake, FlagsOK, DbgFill, InService, PastReport, Releases
<1>11. CASE DbgMark
  BY <1>11 DEF Handshake, FlagsOK, DbgMark, InService, PastReport, Releases
<1>12. CASE DbgBreakExecution
  BY <1>12 DEF Handshake, FlagsOK, DbgBreakExecution, InService, PastReport,
               Releases
<1>13. CASE DbgInspect
  BY <1>13 DEF Handshake, FlagsOK, DbgInspect, InService, PastReport, Releases
<1>14. CASE DbgReply
  BY <1>14 DEF Handshake, FlagsOK, DbgReply, InService, PastReport, Releases
<1>15. CASE DbgStop
  BY <1>15 DEF Handshake, FlagsOK, DbgStop, InService, PastReport, Releases
<1>16. CASE DbgProcessed
  BY <1>16 DEF Handshake, FlagsOK, DbgProcessed, InService, PastReport,
               Releases
<1>17. CASE DbgFinish
  BY <1>17 DEF Handshake, FlagsOK, DbgFinish, InService, PastReport, Releases
<1> QED BY <1>1, <1>2, <1>3, <1>4, <1>5, <1>6, <1>7, <1>8, <1>9, <1>10,
           <1>11, <1>12, <1>13, <1>14, <1>15, <1>16, <1>17 DEF DbgNext

\* Handshake is kept by the connection thread.
LEMMA ConHandshake ==
    ASSUME FlagsOK, ValuesOK, Handshake, ConNext
    PROVE  Handshake'
<1> USE DEF VmStep, DbgStep, ConStep, Free, vmThread, vmVars, breakVars, tracerVars,
            shared, linkVars, mutexes, server, dbgVars, conVars, serverVars
<1>1. CASE ConBegin
  BY <1>1 DEF Handshake, FlagsOK, ConBegin, InService, PastReport, Releases
<1>2. CASE ConAccept
  BY <1>2 DEF Handshake, FlagsOK, ConAccept, InService, PastReport, Releases
<1>3. CASE ConAccepted
  BY <1>3 DEF Handshake, FlagsOK, ConAccepted, InService, PastReport, Releases
<1>4. CASE ConExit
  BY <1>4 DEF Handshake, FlagsOK, ConExit, InService, PastReport, Releases
<1>5. CASE ConInit
  BY <1>5 DEF Handshake, FlagsOK, ConInit, InService, PastReport, Releases
<1>6. CASE ConReceive
  BY <1>6 DEF Handshake, FlagsOK, ConReceive, InService, PastReport, Releases
<1>7. CASE ConReceiveFails
  BY <1>7 DEF Handshake, FlagsOK, ConReceiveFails, InService, PastReport,
              Releases
<1>8. CASE ConSet
  BY <1>8 DEF Handshake, FlagsOK, ConSet, InService, PastReport, Releases
<1>9. CASE ConStartDbg
  BY <1>9 DEF Handshake, FlagsOK, ConStartDbg, InService, PastReport, Releases
<1>10. CASE ConFinish
  BY <1>10 DEF Handshake, FlagsOK, ConFinish, InService, PastReport, Releases
<1> QED BY <1>1, <1>2, <1>3, <1>4, <1>5, <1>6, <1>7, <1>8, <1>9, <1>10 DEF
           ConNext

\* ServiceInOrder is kept by the virtual machine's thread.
LEMMA VmService ==
    ASSUME ValuesOK, Handshake, ServiceInOrder, VmNext
    PROVE  ServiceInOrder'
<1> USE DEF VmStep, DbgStep, ConStep, Free, vmThread, vmVars, breakVars, tracerVars,
            shared, linkVars, mutexes, server, dbgVars, conVars, serverVars
<1>1. CASE VmIsConnected
  BY <1>1 DEF ServiceInOrder, ValuesOK, VmIsConnected
<1>2. CASE VmHandleAnyTraceCommand
  BY <1>2 DEF ServiceInOrder, ValuesOK, VmHandleAnyTraceCommand
<1>3. CASE VmUserRequest
  BY <1>3 DEF ServiceInOrder, ValuesOK, VmUserRequest
<1>4. CASE VmTraceDone
  BY <1>4 DEF ServiceInOrder, ValuesOK, VmTraceDone
<1>5. CASE VmLine
  BY <1>5 DEF ServiceInOrder, ValuesOK, VmLine
<1>6. CASE VmCondEnter
  BY <1>6 DEF ServiceInOrder, ValuesOK, VmCondEnter
<1>7. CASE VmCondLeave
  BY <1>7 DEF ServiceInOrder, ValuesOK, VmCondLeave
<1>8. CASE VmError
  BY <1>8 DEF ServiceInOrder, ValuesOK, VmError
<1>9. CASE VmArtificial
  BY <1>9 DEF ServiceInOrder, ValuesOK, VmArtificial
<1>10. CASE VmEnter
  BY <1>10 DEF ServiceInOrder, ValuesOK, VmEnter
<1>11. CASE VmOnStop
  BY <1>11 DEF ServiceInOrder, ValuesOK, VmOnStop
<1>12. CASE VmNotify
  BY <1>12 DEF ServiceInOrder, ValuesOK, VmNotify, VmNextMessage, Message,
               BreakInformation
<1>13. CASE VmAdapter
  BY <1>13 DEF ServiceInOrder, ValuesOK, VmAdapter, Message, BreakInformation
<1>14. CASE VmSend
  BY <1>14 DEF ServiceInOrder, ValuesOK, VmSend, VmNextMessage, Message
<1>15. CASE VmWait
  BY <1>15 DEF ServiceInOrder, ValuesOK, VmWait
<1>16. CASE VmLeave
  BY <1>16 DEF ServiceInOrder, ValuesOK, VmLeave
<1>17. CASE VmClose
  BY <1>17 DEF ServiceInOrder, ValuesOK, VmClose
<1>18. CASE VmClosing
  BY <1>18 DEF ServiceInOrder, ValuesOK, VmClosing
<1>19. CASE VmEnd
  BY <1>19 DEF ServiceInOrder, ValuesOK, VmEnd
<1>20. CASE VmStopDbg
  BY <1>20 DEF ServiceInOrder, ValuesOK, VmStopDbg
<1>21. CASE VmCheckClient
  BY <1>21 DEF ServiceInOrder, ValuesOK, VmCheckClient
<1>22. CASE VmInfoStop
  BY <1>22 DEF ServiceInOrder, ValuesOK, VmInfoStop
<1>23. CASE VmDeleteClient
  BY <1>23 DEF ServiceInOrder, ValuesOK, VmDeleteClient
<1>24. CASE VmStopCon
  BY <1>24 DEF ServiceInOrder, ValuesOK, VmStopCon
<1> QED BY <1>1, <1>2, <1>3, <1>4, <1>5, <1>6, <1>7, <1>8, <1>9, <1>10,
           <1>11, <1>12, <1>13, <1>14, <1>15, <1>16, <1>17, <1>18, <1>19,
           <1>20, <1>21, <1>22, <1>23, <1>24 DEF VmNext

\* ServiceInOrder is kept by the service thread.
LEMMA DbgService ==
    ASSUME ValuesOK, Handshake, ServiceInOrder, DbgNext
    PROVE  ServiceInOrder'
<1> USE DEF VmStep, DbgStep, ConStep, Free, vmThread, vmVars, breakVars, tracerVars,
            shared, linkVars, mutexes, server, dbgVars, conVars, serverVars
<1>1. CASE DbgTest
  BY <1>1 DEF ServiceInOrder, ValuesOK, DbgTest
<1>2. CASE DbgIdle
  BY <1>2 DEF ServiceInOrder, ValuesOK, DbgIdle
<1>3. CASE DbgReceive
  BY <1>3 DEF ServiceInOrder, ValuesOK, DbgReceive
<1>4. CASE DbgLost
  BY <1>4 DEF ServiceInOrder, ValuesOK, DbgLost
<1>5. CASE DbgReset
  BY <1>5 DEF ServiceInOrder, ValuesOK, DbgReset
<1>6. CASE DbgGo
  BY <1>6 DEF ServiceInOrder, ValuesOK, DbgGo
<1>7. CASE DbgRestart
  BY <1>7 DEF ServiceInOrder, ValuesOK, DbgRestart
<1>8. CASE DbgRelease
  BY <1>8 DEF ServiceInOrder, ValuesOK, DbgRelease
<1>9. CASE DbgPost
  BY <1>9 DEF ServiceInOrder, ValuesOK, DbgPost, Handshake, PastReport,
              Releases, TracesAssumption
<1>10. CASE DbgFill
  BY <1>10 DEF ServiceInOrder, ValuesOK, DbgFill
<1>11. CASE DbgMark
  BY <1>11 DEF ServiceInOrder, ValuesOK, DbgMark
<1>12. CASE DbgBreakExecution
  BY <1>12 DEF ServiceInOrder, ValuesOK, DbgBreakExecution
<1>13. CASE DbgInspect
  BY <1>13 DEF ServiceInOrder, ValuesOK, DbgInspect
<1>14. CASE DbgReply
  BY <1>14 DEF ServiceInOrder, ValuesOK, DbgReply
<1>15. CASE DbgStop
  BY <1>15 DEF ServiceInOrder, ValuesOK, DbgStop
<1>16. CASE DbgProcessed
  BY <1>16 DEF ServiceInOrder, ValuesOK, DbgProcessed
<1>17. CASE DbgFinish
  BY <1>17 DEF ServiceInOrder, ValuesOK, DbgFinish
<1> QED BY <1>1, <1>2, <1>3, <1>4, <1>5, <1>6, <1>7, <1>8, <1>9, <1>10,
           <1>11, <1>12, <1>13, <1>14, <1>15, <1>16, <1>17 DEF DbgNext

\* ServiceInOrder is kept by the connection thread.
LEMMA ConService ==
    ASSUME ValuesOK, Handshake, ServiceInOrder, ConNext
    PROVE  ServiceInOrder'
<1> USE DEF VmStep, DbgStep, ConStep, Free, vmThread, vmVars, breakVars, tracerVars,
            shared, linkVars, mutexes, server, dbgVars, conVars, serverVars
<1>1. CASE ConBegin
  BY <1>1 DEF ServiceInOrder, ValuesOK, ConBegin
<1>2. CASE ConAccept
  BY <1>2 DEF ServiceInOrder, ValuesOK, ConAccept
<1>3. CASE ConAccepted
  BY <1>3 DEF ServiceInOrder, ValuesOK, ConAccepted
<1>4. CASE ConExit
  BY <1>4 DEF ServiceInOrder, ValuesOK, ConExit
<1>5. CASE ConInit
  BY <1>5 DEF ServiceInOrder, ValuesOK, ConInit
<1>6. CASE ConReceive
  BY <1>6 DEF ServiceInOrder, ValuesOK, ConReceive
<1>7. CASE ConReceiveFails
  BY <1>7 DEF ServiceInOrder, ValuesOK, ConReceiveFails
<1>8. CASE ConSet
  BY <1>8 DEF ServiceInOrder, ValuesOK, ConSet
<1>9. CASE ConStartDbg
  BY <1>9 DEF ServiceInOrder, ValuesOK, ConStartDbg
<1>10. CASE ConFinish
  BY <1>10 DEF ServiceInOrder, ValuesOK, ConFinish
<1> QED BY <1>1, <1>2, <1>3, <1>4, <1>5, <1>6, <1>7, <1>8, <1>9, <1>10 DEF
           ConNext

-----------------------------------------------------------------------------
(* The two threads that start each other.                                  *)

\* ThreadsAlternate is kept by the virtual machine's thread.
LEMMA VmThreads ==
    ASSUME ThreadsAlternate, VmNext
    PROVE  ThreadsAlternate'
<1> USE DEF VmStep, DbgStep, ConStep, Free, vmThread, vmVars, breakVars, tracerVars,
            shared, linkVars, mutexes, server, dbgVars, conVars, serverVars
<1>1. CASE VmIsConnected
  BY <1>1 DEF ThreadsAlternate, VmIsConnected, Ending
<1>2. CASE VmHandleAnyTraceCommand
  BY <1>2 DEF ThreadsAlternate, VmHandleAnyTraceCommand, Ending
<1>3. CASE VmUserRequest
  BY <1>3 DEF ThreadsAlternate, VmUserRequest, Ending
<1>4. CASE VmTraceDone
  BY <1>4 DEF ThreadsAlternate, VmTraceDone, Ending
<1>5. CASE VmLine
  BY <1>5 DEF ThreadsAlternate, VmLine, Ending
<1>6. CASE VmCondEnter
  BY <1>6 DEF ThreadsAlternate, VmCondEnter, Ending
<1>7. CASE VmCondLeave
  BY <1>7 DEF ThreadsAlternate, VmCondLeave, Ending
<1>8. CASE VmError
  BY <1>8 DEF ThreadsAlternate, VmError, Ending
<1>9. CASE VmArtificial
  BY <1>9 DEF ThreadsAlternate, VmArtificial, Ending
<1>10. CASE VmEnter
  BY <1>10 DEF ThreadsAlternate, VmEnter, Ending
<1>11. CASE VmOnStop
  BY <1>11 DEF ThreadsAlternate, VmOnStop, Ending
<1>12. CASE VmNotify
  BY <1>12 DEF ThreadsAlternate, VmNotify, VmNextMessage, Ending
<1>13. CASE VmAdapter
  BY <1>13 DEF ThreadsAlternate, VmAdapter, Ending
<1>14. CASE VmSend
  BY <1>14 DEF ThreadsAlternate, VmSend, VmNextMessage, Ending
<1>15. CASE VmWait
  BY <1>15 DEF ThreadsAlternate, VmWait, Ending
<1>16. CASE VmLeave
  BY <1>16 DEF ThreadsAlternate, VmLeave, Ending
<1>17. CASE VmClose
  BY <1>17 DEF ThreadsAlternate, VmClose, Ending
<1>18. CASE VmClosing
  BY <1>18 DEF ThreadsAlternate, VmClosing, Ending
<1>19. CASE VmEnd
  BY <1>19 DEF ThreadsAlternate, VmEnd, Ending
<1>20. CASE VmStopDbg
  BY <1>20 DEF ThreadsAlternate, VmStopDbg, Ending
<1>21. CASE VmCheckClient
  BY <1>21 DEF ThreadsAlternate, VmCheckClient, Ending
<1>22. CASE VmInfoStop
  BY <1>22 DEF ThreadsAlternate, VmInfoStop, Ending
<1>23. CASE VmDeleteClient
  BY <1>23 DEF ThreadsAlternate, VmDeleteClient, Ending
<1>24. CASE VmStopCon
  BY <1>24 DEF ThreadsAlternate, VmStopCon, Ending
<1> QED BY <1>1, <1>2, <1>3, <1>4, <1>5, <1>6, <1>7, <1>8, <1>9, <1>10,
           <1>11, <1>12, <1>13, <1>14, <1>15, <1>16, <1>17, <1>18, <1>19,
           <1>20, <1>21, <1>22, <1>23, <1>24 DEF VmNext

\* ThreadsAlternate is kept by the service thread.
LEMMA DbgThreads ==
    ASSUME ThreadsAlternate, DbgNext
    PROVE  ThreadsAlternate'
<1> USE DEF VmStep, DbgStep, ConStep, Free, vmThread, vmVars, breakVars, tracerVars,
            shared, linkVars, mutexes, server, dbgVars, conVars, serverVars
<1>1. CASE DbgTest
  BY <1>1 DEF ThreadsAlternate, DbgTest, Ending
<1>2. CASE DbgIdle
  BY <1>2 DEF ThreadsAlternate, DbgIdle, Ending
<1>3. CASE DbgReceive
  BY <1>3 DEF ThreadsAlternate, DbgReceive, Ending
<1>4. CASE DbgLost
  BY <1>4 DEF ThreadsAlternate, DbgLost, Ending
<1>5. CASE DbgReset
  BY <1>5 DEF ThreadsAlternate, DbgReset, Ending
<1>6. CASE DbgGo
  BY <1>6 DEF ThreadsAlternate, DbgGo, Ending
<1>7. CASE DbgRestart
  BY <1>7 DEF ThreadsAlternate, DbgRestart, Ending
<1>8. CASE DbgRelease
  BY <1>8 DEF ThreadsAlternate, DbgRelease, Ending
<1>9. CASE DbgPost
  BY <1>9 DEF ThreadsAlternate, DbgPost, Ending
<1>10. CASE DbgFill
  BY <1>10 DEF ThreadsAlternate, DbgFill, Ending
<1>11. CASE DbgMark
  BY <1>11 DEF ThreadsAlternate, DbgMark, Ending
<1>12. CASE DbgBreakExecution
  BY <1>12 DEF ThreadsAlternate, DbgBreakExecution, Ending
<1>13. CASE DbgInspect
  BY <1>13 DEF ThreadsAlternate, DbgInspect, Ending
<1>14. CASE DbgReply
  BY <1>14 DEF ThreadsAlternate, DbgReply, Ending
<1>15. CASE DbgStop
  BY <1>15 DEF ThreadsAlternate, DbgStop, Ending
<1>16. CASE DbgProcessed
  BY <1>16 DEF ThreadsAlternate, DbgProcessed, Ending
<1>17. CASE DbgFinish
  BY <1>17 DEF ThreadsAlternate, DbgFinish, Ending
<1> QED BY <1>1, <1>2, <1>3, <1>4, <1>5, <1>6, <1>7, <1>8, <1>9, <1>10,
           <1>11, <1>12, <1>13, <1>14, <1>15, <1>16, <1>17 DEF DbgNext

\* ThreadsAlternate is kept by the connection thread.
LEMMA ConThreads ==
    ASSUME ThreadsAlternate, ConNext
    PROVE  ThreadsAlternate'
<1> USE DEF VmStep, DbgStep, ConStep, Free, vmThread, vmVars, breakVars, tracerVars,
            shared, linkVars, mutexes, server, dbgVars, conVars, serverVars
<1>1. CASE ConBegin
  BY <1>1 DEF ThreadsAlternate, ConBegin, Ending
<1>2. CASE ConAccept
  BY <1>2 DEF ThreadsAlternate, ConAccept, Ending
<1>3. CASE ConAccepted
  BY <1>3 DEF ThreadsAlternate, ConAccepted, Ending
<1>4. CASE ConExit
  BY <1>4 DEF ThreadsAlternate, ConExit, Ending
<1>5. CASE ConInit
  BY <1>5 DEF ThreadsAlternate, ConInit, Ending
<1>6. CASE ConReceive
  BY <1>6 DEF ThreadsAlternate, ConReceive, Ending
<1>7. CASE ConReceiveFails
  BY <1>7 DEF ThreadsAlternate, ConReceiveFails, Ending
<1>8. CASE ConSet
  BY <1>8 DEF ThreadsAlternate, ConSet, Ending
<1>9. CASE ConStartDbg
  BY <1>9 DEF ThreadsAlternate, ConStartDbg, Ending
<1>10. CASE ConFinish
  BY <1>10 DEF ThreadsAlternate, ConFinish, Ending
<1> QED BY <1>1, <1>2, <1>3, <1>4, <1>5, <1>6, <1>7, <1>8, <1>9, <1>10 DEF
           ConNext

-----------------------------------------------------------------------------
(* An inspection keeps the stop it found: only its own thread ends it.     *)

\* ReplyInside is kept by the virtual machine's thread.
LEMMA VmInside ==
    ASSUME ReplyInside, VmNext
    PROVE  ReplyInside'
<1> USE DEF VmStep, DbgStep, ConStep, Free, vmThread, vmVars, breakVars, tracerVars,
            shared, linkVars, mutexes, server, dbgVars, conVars, serverVars
<1>1. CASE VmIsConnected
  BY <1>1 DEF ReplyInside, VmIsConnected
<1>2. CASE VmHandleAnyTraceCommand
  BY <1>2 DEF ReplyInside, VmHandleAnyTraceCommand
<1>3. CASE VmUserRequest
  BY <1>3 DEF ReplyInside, VmUserRequest
<1>4. CASE VmTraceDone
  BY <1>4 DEF ReplyInside, VmTraceDone
<1>5. CASE VmLine
  BY <1>5 DEF ReplyInside, VmLine
<1>6. CASE VmCondEnter
  BY <1>6 DEF ReplyInside, VmCondEnter
<1>7. CASE VmCondLeave
  BY <1>7 DEF ReplyInside, VmCondLeave
<1>8. CASE VmError
  BY <1>8 DEF ReplyInside, VmError
<1>9. CASE VmArtificial
  BY <1>9 DEF ReplyInside, VmArtificial
<1>10. CASE VmEnter
  BY <1>10 DEF ReplyInside, VmEnter
<1>11. CASE VmOnStop
  BY <1>11 DEF ReplyInside, VmOnStop
<1>12. CASE VmNotify
  BY <1>12 DEF ReplyInside, VmNotify, VmNextMessage
<1>13. CASE VmAdapter
  BY <1>13 DEF ReplyInside, VmAdapter
<1>14. CASE VmSend
  BY <1>14 DEF ReplyInside, VmSend, VmNextMessage
<1>15. CASE VmWait
  BY <1>15 DEF ReplyInside, VmWait
<1>16. CASE VmLeave
  BY <1>16 DEF ReplyInside, VmLeave
<1>17. CASE VmClose
  BY <1>17 DEF ReplyInside, VmClose
<1>18. CASE VmClosing
  BY <1>18 DEF ReplyInside, VmClosing
<1>19. CASE VmEnd
  BY <1>19 DEF ReplyInside, VmEnd
<1>20. CASE VmStopDbg
  BY <1>20 DEF ReplyInside, VmStopDbg
<1>21. CASE VmCheckClient
  BY <1>21 DEF ReplyInside, VmCheckClient
<1>22. CASE VmInfoStop
  BY <1>22 DEF ReplyInside, VmInfoStop
<1>23. CASE VmDeleteClient
  BY <1>23 DEF ReplyInside, VmDeleteClient
<1>24. CASE VmStopCon
  BY <1>24 DEF ReplyInside, VmStopCon
<1> QED BY <1>1, <1>2, <1>3, <1>4, <1>5, <1>6, <1>7, <1>8, <1>9, <1>10,
           <1>11, <1>12, <1>13, <1>14, <1>15, <1>16, <1>17, <1>18, <1>19,
           <1>20, <1>21, <1>22, <1>23, <1>24 DEF VmNext

\* ReplyInside is kept by the service thread.
LEMMA DbgInside ==
    ASSUME ReplyInside, DbgNext
    PROVE  ReplyInside'
<1> USE DEF VmStep, DbgStep, ConStep, Free, vmThread, vmVars, breakVars, tracerVars,
            shared, linkVars, mutexes, server, dbgVars, conVars, serverVars
<1>1. CASE DbgTest
  BY <1>1 DEF ReplyInside, DbgTest
<1>2. CASE DbgIdle
  BY <1>2 DEF ReplyInside, DbgIdle
<1>3. CASE DbgReceive
  BY <1>3 DEF ReplyInside, DbgReceive
<1>4. CASE DbgLost
  BY <1>4 DEF ReplyInside, DbgLost
<1>5. CASE DbgReset
  BY <1>5 DEF ReplyInside, DbgReset
<1>6. CASE DbgGo
  BY <1>6 DEF ReplyInside, DbgGo
<1>7. CASE DbgRestart
  BY <1>7 DEF ReplyInside, DbgRestart
<1>8. CASE DbgRelease
  BY <1>8 DEF ReplyInside, DbgRelease
<1>9. CASE DbgPost
  BY <1>9 DEF ReplyInside, DbgPost
<1>10. CASE DbgFill
  BY <1>10 DEF ReplyInside, DbgFill
<1>11. CASE DbgMark
  BY <1>11 DEF ReplyInside, DbgMark
<1>12. CASE DbgBreakExecution
  BY <1>12 DEF ReplyInside, DbgBreakExecution
<1>13. CASE DbgInspect
  BY <1>13 DEF ReplyInside, DbgInspect
<1>14. CASE DbgReply
  BY <1>14 DEF ReplyInside, DbgReply
<1>15. CASE DbgStop
  BY <1>15 DEF ReplyInside, DbgStop
<1>16. CASE DbgProcessed
  BY <1>16 DEF ReplyInside, DbgProcessed
<1>17. CASE DbgFinish
  BY <1>17 DEF ReplyInside, DbgFinish
<1> QED BY <1>1, <1>2, <1>3, <1>4, <1>5, <1>6, <1>7, <1>8, <1>9, <1>10,
           <1>11, <1>12, <1>13, <1>14, <1>15, <1>16, <1>17 DEF DbgNext

\* ReplyInside is kept by the connection thread.
LEMMA ConInside ==
    ASSUME ReplyInside, ConNext
    PROVE  ReplyInside'
<1> USE DEF VmStep, DbgStep, ConStep, Free, vmThread, vmVars, breakVars, tracerVars,
            shared, linkVars, mutexes, server, dbgVars, conVars, serverVars
<1>1. CASE ConBegin
  BY <1>1 DEF ReplyInside, ConBegin
<1>2. CASE ConAccept
  BY <1>2 DEF ReplyInside, ConAccept
<1>3. CASE ConAccepted
  BY <1>3 DEF ReplyInside, ConAccepted
<1>4. CASE ConExit
  BY <1>4 DEF ReplyInside, ConExit
<1>5. CASE ConInit
  BY <1>5 DEF ReplyInside, ConInit
<1>6. CASE ConReceive
  BY <1>6 DEF ReplyInside, ConReceive
<1>7. CASE ConReceiveFails
  BY <1>7 DEF ReplyInside, ConReceiveFails
<1>8. CASE ConSet
  BY <1>8 DEF ReplyInside, ConSet
<1>9. CASE ConStartDbg
  BY <1>9 DEF ReplyInside, ConStartDbg
<1>10. CASE ConFinish
  BY <1>10 DEF ReplyInside, ConFinish
<1> QED BY <1>1, <1>2, <1>3, <1>4, <1>5, <1>6, <1>7, <1>8, <1>9, <1>10 DEF
           ConNext

-----------------------------------------------------------------------------
(* Every step is a step of BreakSession, or changes nothing it sees.       *)

\* The steps of the virtual machine's thread map to BreakSession.
LEMMA VmRefines ==
    ASSUME IInv, VmNext
    PROVE  [Session!BSNext]_<<Product, Order>>
<1> USE DEF VmStep, DbgStep, ConStep, Free, vmThread, vmVars, breakVars, tracerVars,
            shared, linkVars, mutexes, server, dbgVars, conVars, serverVars
<1> USE DEF IInv, TypeOK, FlagsOK, ValuesOK, Handshake, ServiceInOrder, Product, Order,
            PendingOrder, InService, PastReport, Session!BSNext, Session!Break,
            Session!Report, Session!Release, Session!Leave
<1>1. CASE VmIsConnected
  BY <1>1 DEF VmIsConnected
<1>2. CASE VmHandleAnyTraceCommand
  BY <1>2 DEF VmHandleAnyTraceCommand
<1>3. CASE VmUserRequest
  BY <1>3 DEF VmUserRequest
<1>4. CASE VmTraceDone
  BY <1>4 DEF VmTraceDone
<1>5. CASE VmLine
  BY <1>5 DEF VmLine
<1>6. CASE VmCondEnter
  BY <1>6 DEF VmCondEnter
<1>7. CASE VmCondLeave
  BY <1>7 DEF VmCondLeave
<1>8. CASE VmError
  BY <1>8 DEF VmError
<1>9. CASE VmArtificial
  BY <1>9 DEF VmArtificial
<1>10. CASE VmEnter
  BY <1>10 DEF VmEnter
<1>11. CASE VmOnStop
  BY <1>11 DEF VmOnStop
<1>12. CASE VmNotify
  BY <1>12 DEF VmNotify, VmNextMessage, Message, BreakInformation
<1>13. CASE VmAdapter
  BY <1>13 DEF VmAdapter, Message, BreakInformation
<1>14. CASE VmSend
  BY <1>14 DEF VmSend, VmNextMessage, Message
<1>15. CASE VmWait
  BY <1>15 DEF VmWait
<1>16. CASE VmLeave
  BY <1>16 DEF VmLeave
<1>17. CASE VmClose
  BY <1>17 DEF VmClose
<1>18. CASE VmClosing
  BY <1>18 DEF VmClosing
<1>19. CASE VmEnd
  BY <1>19 DEF VmEnd
<1>20. CASE VmStopDbg
  BY <1>20 DEF VmStopDbg
<1>21. CASE VmCheckClient
  BY <1>21 DEF VmCheckClient
<1>22. CASE VmInfoStop
  BY <1>22 DEF VmInfoStop
<1>23. CASE VmDeleteClient
  BY <1>23 DEF VmDeleteClient
<1>24. CASE VmStopCon
  BY <1>24 DEF VmStopCon
<1> QED BY <1>1, <1>2, <1>3, <1>4, <1>5, <1>6, <1>7, <1>8, <1>9, <1>10,
           <1>11, <1>12, <1>13, <1>14, <1>15, <1>16, <1>17, <1>18, <1>19,
           <1>20, <1>21, <1>22, <1>23, <1>24 DEF VmNext

\* The steps of the service thread map to BreakSession.
LEMMA DbgRefines ==
    ASSUME IInv, DbgNext
    PROVE  [Session!BSNext]_<<Product, Order>>
<1> USE DEF VmStep, DbgStep, ConStep, Free, vmThread, vmVars, breakVars, tracerVars,
            shared, linkVars, mutexes, server, dbgVars, conVars, serverVars
<1> USE DEF IInv, TypeOK, FlagsOK, ValuesOK, Handshake, ServiceInOrder, Product, Order,
            PendingOrder, InService, PastReport, Session!BSNext, Session!Break,
            Session!Report, Session!Release, Session!Leave
<1>1. CASE DbgTest
  BY <1>1 DEF DbgTest
<1>2. CASE DbgIdle
  BY <1>2 DEF DbgIdle
<1>3. CASE DbgReceive
  BY <1>3 DEF DbgReceive
<1>4. CASE DbgLost
  BY <1>4 DEF DbgLost
<1>5. CASE DbgReset
  BY <1>5 DEF DbgReset
<1>6. CASE DbgGo
  BY <1>6 DEF DbgGo, Releases
<1>7. CASE DbgRestart
  BY <1>7 DEF DbgRestart
<1>8. CASE DbgRelease
  BY <1>8 DEF DbgRelease, Releases
<1>9. CASE DbgPost
  BY <1>9 DEF DbgPost, Releases
<1>10. CASE DbgFill
  BY <1>10 DEF DbgFill
<1>11. CASE DbgMark
  BY <1>11 DEF DbgMark
<1>12. CASE DbgBreakExecution
  BY <1>12 DEF DbgBreakExecution
<1>13. CASE DbgInspect
  BY <1>13 DEF DbgInspect
<1>14. CASE DbgReply
  BY <1>14 DEF DbgReply
<1>15. CASE DbgStop
  BY <1>15 DEF DbgStop
<1>16. CASE DbgProcessed
  BY <1>16 DEF DbgProcessed
<1>17. CASE DbgFinish
  BY <1>17 DEF DbgFinish
<1> QED BY <1>1, <1>2, <1>3, <1>4, <1>5, <1>6, <1>7, <1>8, <1>9, <1>10,
           <1>11, <1>12, <1>13, <1>14, <1>15, <1>16, <1>17 DEF DbgNext

\* The steps of the connection thread map to BreakSession.
LEMMA ConRefines ==
    ASSUME IInv, ConNext
    PROVE  [Session!BSNext]_<<Product, Order>>
<1> USE DEF VmStep, DbgStep, ConStep, Free, vmThread, vmVars, breakVars, tracerVars,
            shared, linkVars, mutexes, server, dbgVars, conVars, serverVars
<1> USE DEF IInv, TypeOK, FlagsOK, ValuesOK, Handshake, ServiceInOrder, Product, Order,
            PendingOrder, InService, PastReport, Session!BSNext, Session!Break,
            Session!Report, Session!Release, Session!Leave
<1>1. CASE ConBegin
  BY <1>1 DEF ConBegin
<1>2. CASE ConAccept
  BY <1>2 DEF ConAccept
<1>3. CASE ConAccepted
  BY <1>3 DEF ConAccepted
<1>4. CASE ConExit
  BY <1>4 DEF ConExit
<1>5. CASE ConInit
  BY <1>5 DEF ConInit
<1>6. CASE ConReceive
  BY <1>6 DEF ConReceive
<1>7. CASE ConReceiveFails
  BY <1>7 DEF ConReceiveFails
<1>8. CASE ConSet
  BY <1>8 DEF ConSet
<1>9. CASE ConStartDbg
  BY <1>9 DEF ConStartDbg
<1>10. CASE ConFinish
  BY <1>10 DEF ConFinish
<1> QED BY <1>1, <1>2, <1>3, <1>4, <1>5, <1>6, <1>7, <1>8, <1>9, <1>10 DEF
           ConNext

-----------------------------------------------------------------------------
(* The theorems.                                                           *)

\* The inductive invariant holds at the start.
LEMMA InitIInv == Init => IInv
<1> SUFFICES ASSUME Init PROVE IInv
  OBVIOUS
<1>1. FlagsOK
  BY Zenon DEF Init, FlagsOK
<1>2. ValuesOK
  BY DEF Init, ValuesOK, VmPcs, DbgPcs, ConPcs
<1>3. Handshake /\ ServiceInOrder /\ ThreadsAlternate /\ ReplyInside
  BY DEF Init, Handshake, ServiceInOrder, ThreadsAlternate, Ending,
         ReplyInside, InService, PastReport
<1> QED BY <1>1, <1>2, <1>3 DEF IInv, TypeOK

\* Every step of every thread, and of the client, preserves it.
LEMMA NextIInv == IInv /\ [Next]_vars => IInv'
<1> SUFFICES ASSUME IInv, [Next]_vars PROVE IInv'
  OBVIOUS
<1>1. CASE VmNext
  BY <1>1, VmFlags, VmValues, VmHandshake, VmService, VmThreads, VmInside
     DEF IInv, TypeOK
<1>2. CASE DbgNext
  BY <1>2, DbgFlags, DbgValues, DbgHandshake, DbgService, DbgThreads, DbgInside
     DEF IInv, TypeOK
<1>3. CASE ConNext
  BY <1>3, ConFlags, ConValues, ConHandshake, ConService, ConThreads, ConInside
     DEF IInv, TypeOK
<1>4. CASE PeerNext
  <2>1. UNCHANGED <<vmThread, callbacks, mutexes, server>>
    BY <1>4 DEF PeerNext, PeerConnect, PeerDetach, PeerPost, vmThread, server
  <2>2. ValuesOK'
    BY <1>4, PeerValues DEF IInv, TypeOK
  <2>3. FlagsOK'
    BY <2>1, Zenon DEF IInv, TypeOK, FlagsOK, vmThread, breakVars, tracerVars,
                       server, dbgVars, conVars, serverVars
  <2> QED
    BY <2>1, <2>2, <2>3
       DEF IInv, TypeOK, Handshake, ServiceInOrder, ThreadsAlternate, Ending,
           ReplyInside,
           InService, PastReport, vmThread, vmVars, breakVars, tracerVars,
           mutexes, server, dbgVars, conVars, serverVars
<1>5. CASE UNCHANGED vars
  <2>1. FlagsOK'
    BY <1>5, Zenon DEF IInv, TypeOK, FlagsOK, vars, vmThread, breakVars,
                       tracerVars, server, dbgVars, conVars, serverVars
  <2> QED
    BY <1>5, <2>1
       DEF IInv, TypeOK, ValuesOK, Handshake, ServiceInOrder, ThreadsAlternate,
           Ending, ReplyInside, InService, PastReport, vars, vmThread, vmVars, breakVars,
           tracerVars, shared, linkVars, mutexes, server, dbgVars, conVars,
           serverVars
<1> QED BY <1>1, <1>2, <1>3, <1>4, <1>5 DEF Next

\* The inductive invariant holds in every reachable state.
THEOREM Invariance == Spec => []IInv
  BY InitIInv, NextIInv, PTL DEF Spec

\* Every variable keeps its type; that only releases are posted needs Handshake.
THEOREM TypeCorrect == Spec => []TypeOK
<1>1. IInv => TypeOK
  BY DEF IInv
<1> QED BY <1>1, Invariance, PTL

\* A stop is open to requests only while the program waits past its report.
THEOREM HandshakeHolds == Spec => []Handshake
<1>1. IInv => Handshake
  BY DEF IInv
<1> QED BY <1>1, Invariance, PTL

\* An inspection answers while the program is stopped.
THEOREM InspectionSafe == Spec => []InspectionSeesStoppedProgram
<1>1. IInv => InspectionSeesStoppedProgram
  BY DEF IInv, InspectionSeesStoppedProgram, ReplyInside, Handshake, ServiceInOrder,
         InService, PastReport, TypeOK, ValuesOK
<1> QED BY <1>1, Invariance, PTL

\* The connection and the service thread start each other only when finished.
THEOREM ThreadsStartSafely == Spec => []StartsOnlyFinishedThreads
<1>1. IInv => StartsOnlyFinishedThreads
  BY DEF IInv, StartsOnlyFinishedThreads, ThreadsAlternate, Ending
<1> QED BY <1>1, Invariance, PTL

\* DebugServer implements BreakSession: one order per reported stop, and the
\* program leaves with the order that released it.
THEOREM Refinement == Spec => ImplementsBreakSession
<1>1. Init => Session!BSInit
  BY DEF Init, Session!BSInit, Product, Order, PendingOrder, InService
<1>2. IInv /\ [Next]_vars => [Session!BSNext]_<<Product, Order>>
  <2> SUFFICES ASSUME IInv, [Next]_vars PROVE [Session!BSNext]_<<Product, Order>>
    OBVIOUS
  <2>1. CASE PeerNext \/ UNCHANGED vars
    <3>1. UNCHANGED <<vmVars, cmmd, dbgPc, request, insideBreakPoint>>
      BY <2>1 DEF PeerNext, PeerConnect, PeerDetach, PeerPost, vars, vmThread,
                  tracerVars, server, dbgVars, serverVars
    <3> QED BY <3>1 DEF Product, Order, PendingOrder, InService, vmVars
  <2> QED BY <2>1, VmRefines, DbgRefines, ConRefines DEF Next
<1> QED BY <1>1, <1>2, Invariance, PTL DEF Spec, ImplementsBreakSession, Session!BSSpec
=============================================================================
