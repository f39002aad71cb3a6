-------------------------- MODULE WireServer_proofs --------------------------
(***************************************************************************)
(* Proofs about WireServer, for every finite set of client sockets and     *)
(* every pool capacity.                                                    *)
(*                                                                         *)
(* The safety invariants of the module are not inductive one by one.  What *)
(* makes them so: Counts ties the tracker, the map and the pool to where   *)
(* the connections are; Phases ties the flags to the drainer's progress;   *)
(* Forcing says which reads the drainer still has to cut; Accepting says   *)
(* what the accept loop can still bring in.                                *)
(***************************************************************************)
EXTENDS WireServer, FiniteSetTheorems, TLAPS

\* The two counters and the map agree with where the connections are.
Counts ==
  /\ slots = Cardinality(At(SlotStages))
  /\ slots <= MaxConnections
  /\ active = Cardinality(At(CountedStages))
  /\ conns = At(MappedStages)

Closing   == {"idle", "close", "begin"}
BeforeCut == Closing \cup {"await"}

\* The flags follow the drainer.
Phases ==
  /\ draining = (drainPc \notin Closing)
  /\ closed = (drainPc # "idle")
  /\ lnField => drainPc = "idle"
  /\ lnOpen => lnField \/ drainPc = "close"
  /\ ctxDone /\ ~SlowServe => drainPc \notin BeforeCut
  /\ clean => drainPc = "done"

\* A blocked read that is not cut yet is one the drainer will still come to.
Forcing ==
  /\ \A c \in Conn : deadline[c] = "past" \/ stage[c] = "unblock" \/ c \in sockClosed => draining
  /\ \A c \in Conn :
       stage[c] = "rdBlock" /\ draining /\ deadline[c] # "past" =>
         drainPc \in {"await", "snapshot"} \/ (drainPc = "force" /\ c \in todo)
  /\ \A c \in cut : stage[c] = "failed" \/ c \in noticed
  /\ \A c \in cut : draining

\* The accept loop registers one connection at a time, and only while it runs.
Accepting ==
  /\ \A c \in Conn : stage[c] \in AcceptStages => srv = "hold"
  /\ \A c, d \in Conn : stage[c] \in AcceptStages /\ stage[d] \in AcceptStages => c = d
  /\ \A c \in Conn : stage[c] = "backlog" => lnOpen
  /\ ~SlowServe /\ drainPc \notin BeforeCut => ~AcceptLoopRuns
  /\ clean /\ ~SlowServe => At(CountedStages) = {}

IInv == TypeOK /\ Counts /\ Phases /\ Forcing /\ Accepting

-----------------------------------------------------------------------------
(* Counting connections by stage.                                          *)

LEMMA AtFinite ==
  ASSUME NEW S
  PROVE  IsFiniteSet(At(S)) /\ Cardinality(At(S)) \in Nat
<1>1. At(S) \in SUBSET Conn
  BY DEF At
<1> QED
  BY <1>1, ConnFinite, FS_Subset, FS_CardinalityType

\* What one connection's move does to the connections standing in S.
LEMMA AtMove ==
  ASSUME stage \in [Conn -> Stages], NEW c \in Conn, NEW to \in Stages,
         stage' = [stage EXCEPT ![c] = to], NEW S
  PROVE  /\ (stage[c] \in S <=> to \in S) => At(S)' = At(S)
         /\ stage[c] \notin S /\ to \in S =>
              At(S)' = At(S) \cup {c} /\ Cardinality(At(S)') = Cardinality(At(S)) + 1
         /\ stage[c] \in S /\ to \notin S =>
              At(S)' = At(S) \ {c} /\ Cardinality(At(S)') = Cardinality(At(S)) - 1
<1>1. (stage[c] \in S <=> to \in S) => At(S)' = At(S)
  BY DEF At
<1>2. stage[c] \notin S /\ to \in S => At(S)' = At(S) \cup {c} /\ c \notin At(S)
  BY DEF At
<1>3. stage[c] \in S /\ to \notin S => At(S)' = At(S) \ {c} /\ c \in At(S)
  BY DEF At
<1>4. IsFiniteSet(At(S))
  BY AtFinite
<1> QED
  BY <1>1, <1>2, <1>3, <1>4, FS_AddElement, FS_RemoveElement

\* A move of a tracked connection's handler leaves every count alone.
LEMMA MappedMove ==
  ASSUME TypeOK, Counts, NEW c \in Conn, stage[c] \in MappedStages, NEW to \in MappedStages,
         stage' = [stage EXCEPT ![c] = to], UNCHANGED countVars
  PROVE  Counts'
<1>1. to \in Stages /\ stage \in [Conn -> Stages]
  BY DEF TypeOK, MappedStages, Stages, HandlerStages, AcceptStages, DeferStages
<1>2. /\ stage[c] \in CountedStages /\ to \in CountedStages
      /\ stage[c] \in SlotStages /\ to \in SlotStages
  BY DEF CountedStages, SlotStages
<1>3. At(MappedStages)' = At(MappedStages) /\ At(CountedStages)' = At(CountedStages)
        /\ At(SlotStages)' = At(SlotStages)
  BY ZenonT(60), <1>1, <1>2, AtMove
<1> QED
  BY <1>3 DEF Counts, countVars

\* A counted connection makes its count positive.
LEMMA AtPositive ==
  ASSUME NEW S, NEW c \in Conn, stage[c] \in S
  PROVE  Cardinality(At(S)) \in Nat \ {0}
<1>1. c \in At(S)
  BY DEF At
<1> QED
  BY <1>1, AtFinite, FS_EmptySet

\* Every step keeps the types.
LEMMA TypeStep ==
  ASSUME IInv, Next
  PROVE  TypeOK'
<1> USE DEF IInv, TypeOK, srvVars, drainVars, countVars, handlerVars, Stages, AcceptStages,
            HandlerStages, DeferStages
<1>1. CASE Listen
  BY ZenonT(60), <1>1 DEF Listen
<1>2. CASE ListenFails
  BY <1>2 DEF ListenFails
<1>3. CASE ServeEnter
  BY <1>3 DEF ServeEnter
<1>4. CASE AcceptError
  BY <1>4 DEF AcceptError
<1>5. CASE DrainShutdown
  BY ZenonT(60), <1>5 DEF DrainShutdown, DrainStep
<1>6. CASE DrainCloseListener
  BY ZenonT(60), <1>6 DEF DrainCloseListener, DrainStep
<1>7. CASE DrainBegin
  BY <1>7 DEF DrainBegin, DrainStep
<1>8. CASE DrainAwaitServeExit
  BY <1>8 DEF DrainAwaitServeExit, DrainStep
<1>9. CASE DrainSnapshot
  BY <1>9 DEF DrainSnapshot, DrainStep
<1>10. CASE DrainForced
  BY <1>10 DEF DrainForced, DrainStep
<1>11. CASE DrainWaitZero
  BY <1>11 DEF DrainWaitZero, DrainStep
<1>12. CASE DrainWaitExpired
  BY <1>12 DEF DrainWaitExpired, DrainStep
<1>13. CASE DrainKillSnapshot
  BY <1>13 DEF DrainKillSnapshot, DrainStep
<1>14. CASE DrainKilled
  BY <1>14 DEF DrainKilled, DrainStep
<1>15. CASE CtxExpires
  BY <1>15 DEF CtxExpires
<1>16. ASSUME NEW c \in Conn, Connect(c)  PROVE  TypeOK'
  BY <1>16 DEF Connect, Move
<1>17. ASSUME NEW c \in Conn, Accept(c)  PROVE  TypeOK'
  BY <1>17 DEF Accept, Move
<1>18. ASSUME NEW c \in Conn, AcquireConnection(c)  PROVE  TypeOK'
  BY <1>18 DEF AcquireConnection, Move
<1>19. ASSUME NEW c \in Conn, TrackAdd(c)  PROVE  TypeOK'
  BY <1>19 DEF TrackAdd, Move
<1>20. ASSUME NEW c \in Conn, TrackInsert(c)  PROVE  TypeOK'
  BY <1>20 DEF TrackInsert, Move
<1>21. ASSUME NEW c \in Conn, TrackUnblock(c)  PROVE  TypeOK'
  BY <1>21 DEF TrackUnblock, Move
<1>22. ASSUME NEW c \in Conn, Spawn(c)  PROVE  TypeOK'
  BY <1>22 DEF Spawn, Move
<1>23. ASSUME NEW c \in Conn, HandshakeArm(c)  PROVE  TypeOK'
  BY <1>23 DEF HandshakeArm, HandlerStep, Move
<1>24. ASSUME NEW c \in Conn, HandshakeRead(c)  PROVE  TypeOK'
  BY <1>24 DEF HandshakeRead, HandlerStep, Move
<1>25. ASSUME NEW c \in Conn, HandshakeFails(c)  PROVE  TypeOK'
  BY <1>25 DEF HandshakeFails, HandlerStep, Move
<1>26. ASSUME NEW c \in Conn, HandshakeClear(c)  PROVE  TypeOK'
  BY <1>26 DEF HandshakeClear, HandlerStep, Move
<1>27. ASSUME NEW c \in Conn, OpenTarget(c)  PROVE  TypeOK'
  BY <1>27 DEF OpenTarget, HandlerStep, Move
<1>28. ASSUME NEW c \in Conn, ReadCheck(c)  PROVE  TypeOK'
  BY <1>28 DEF ReadCheck, HandlerStep, Move
<1>29. ASSUME NEW c \in Conn, ReadArm(c)  PROVE  TypeOK'
  BY <1>29 DEF ReadArm, HandlerStep, Move
<1>30. ASSUME NEW c \in Conn, ReadRecheck(c)  PROVE  TypeOK'
  BY <1>30 DEF ReadRecheck, HandlerStep, Move
<1>31. ASSUME NEW c \in Conn, Command(c)  PROVE  TypeOK'
  BY <1>31 DEF Command, HandlerStep, Move
<1>32. ASSUME NEW c \in Conn, ReadCut(c)  PROVE  TypeOK'
  BY <1>32 DEF ReadCut, HandlerStep, Move
<1>33. ASSUME NEW c \in Conn, ReadFails(c)  PROVE  TypeOK'
  BY <1>33 DEF ReadFails, HandlerStep, Move
<1>34. ASSUME NEW c \in Conn, ServeStatement(c)  PROVE  TypeOK'
  BY <1>34 DEF ServeStatement, HandlerStep, Move
<1>35. ASSUME NEW c \in Conn, ReadFailed(c)  PROVE  TypeOK'
  BY <1>35 DEF ReadFailed, HandlerStep, Move
<1>36. ASSUME NEW c \in Conn, Panic(c)  PROVE  TypeOK'
  BY <1>36 DEF Panic, HandlerStep
<1>37. ASSUME NEW c \in Conn, HandlerClose(c)  PROVE  TypeOK'
  BY <1>37 DEF HandlerClose, HandlerStep, Move
<1>38. ASSUME NEW c \in Conn, UntrackDelete(c)  PROVE  TypeOK'
  BY <1>38 DEF UntrackDelete, Move
<1>39. ASSUME NEW c \in Conn, UntrackDone(c)  PROVE  TypeOK'
  <2>1. active \in Nat \ {0}
    BY <1>39, AtPositive DEF UntrackDone, Move, Counts, CountedStages
  <2> QED
    BY <1>39, <2>1 DEF UntrackDone, Move, TypeOK, Stages, DeferStages, srvVars, drainVars
<1>40. ASSUME NEW c \in Conn, ReleaseConnection(c)  PROVE  TypeOK'
  <2>1. slots \in Nat \ {0}
    BY <1>40, AtPositive DEF ReleaseConnection, Move, Counts, SlotStages
  <2> QED
    BY <1>40, <2>1 DEF ReleaseConnection, Move, TypeOK, Stages, DeferStages, srvVars, drainVars
<1>41. ASSUME NEW c \in Conn, DrainForce(c)  PROVE  TypeOK'
  BY <1>41 DEF DrainForce
<1>42. ASSUME NEW c \in Conn, DrainKill(c)  PROVE  TypeOK'
  BY <1>42 DEF DrainKill
<1> QED
  BY ZenonT(60), <1>1, <1>2, <1>3, <1>4, <1>5, <1>6, <1>7, <1>8, <1>9, <1>10, <1>11, <1>12, <1>13, <1>14,
     <1>15, <1>16, <1>17, <1>18, <1>19, <1>20, <1>21, <1>22, <1>23, <1>24, <1>25, <1>26, <1>27,
     <1>28, <1>29, <1>30, <1>31, <1>32, <1>33, <1>34, <1>35, <1>36, <1>37, <1>38, <1>39, <1>40,
     <1>41, <1>42 DEF Next, AcceptLoop, Handler, Drainer

\* Every step keeps the flags in line with the drainer.
LEMMA PhasesStep ==
  ASSUME IInv, Next
  PROVE  Phases'
<1> USE DEF IInv, TypeOK, Phases, Closing, BeforeCut, srvVars, drainVars, countVars, handlerVars
<1>1. CASE Listen
  BY ZenonT(60), <1>1 DEF Listen
<1>2. CASE ListenFails
  BY <1>2 DEF ListenFails
<1>3. CASE ServeEnter
  BY <1>3 DEF ServeEnter
<1>4. CASE AcceptError
  BY <1>4 DEF AcceptError
<1>5. CASE DrainShutdown
  BY ZenonT(60), <1>5 DEF DrainShutdown, DrainStep
<1>6. CASE DrainCloseListener
  BY <1>6 DEF DrainCloseListener, DrainStep
<1>7. CASE DrainBegin
  BY ZenonT(60), <1>7 DEF DrainBegin, DrainStep
<1>8. CASE DrainAwaitServeExit
  BY <1>8 DEF DrainAwaitServeExit, DrainStep
<1>9. CASE DrainSnapshot
  BY <1>9 DEF DrainSnapshot, DrainStep
<1>10. CASE DrainForced
  BY <1>10 DEF DrainForced, DrainStep
<1>11. CASE DrainWaitZero
  BY <1>11 DEF DrainWaitZero, DrainStep
<1>12. CASE DrainWaitExpired
  BY <1>12 DEF DrainWaitExpired, DrainStep
<1>13. CASE DrainKillSnapshot
  BY <1>13 DEF DrainKillSnapshot, DrainStep
<1>14. CASE DrainKilled
  BY <1>14 DEF DrainKilled, DrainStep
<1>15. CASE CtxExpires
  BY <1>15 DEF CtxExpires
<1>16. ASSUME NEW c \in Conn, Connect(c)  PROVE  Phases'
  BY <1>16 DEF Connect, Move
<1>17. ASSUME NEW c \in Conn, Accept(c)  PROVE  Phases'
  BY <1>17 DEF Accept, Move
<1>18. ASSUME NEW c \in Conn, AcquireConnection(c)  PROVE  Phases'
  BY <1>18 DEF AcquireConnection, Move
<1>19. ASSUME NEW c \in Conn, TrackAdd(c)  PROVE  Phases'
  BY <1>19 DEF TrackAdd, Move
<1>20. ASSUME NEW c \in Conn, TrackInsert(c)  PROVE  Phases'
  BY <1>20 DEF TrackInsert, Move
<1>21. ASSUME NEW c \in Conn, TrackUnblock(c)  PROVE  Phases'
  BY <1>21 DEF TrackUnblock, Move
<1>22. ASSUME NEW c \in Conn, Spawn(c)  PROVE  Phases'
  BY <1>22 DEF Spawn, Move
<1>23. ASSUME NEW c \in Conn, HandshakeArm(c)  PROVE  Phases'
  BY <1>23 DEF HandshakeArm, HandlerStep, Move
<1>24. ASSUME NEW c \in Conn, HandshakeRead(c)  PROVE  Phases'
  BY <1>24 DEF HandshakeRead, HandlerStep, Move
<1>25. ASSUME NEW c \in Conn, HandshakeFails(c)  PROVE  Phases'
  BY <1>25 DEF HandshakeFails, HandlerStep, Move
<1>26. ASSUME NEW c \in Conn, HandshakeClear(c)  PROVE  Phases'
  BY <1>26 DEF HandshakeClear, HandlerStep, Move
<1>27. ASSUME NEW c \in Conn, OpenTarget(c)  PROVE  Phases'
  BY <1>27 DEF OpenTarget, HandlerStep, Move
<1>28. ASSUME NEW c \in Conn, ReadCheck(c)  PROVE  Phases'
  BY <1>28 DEF ReadCheck, HandlerStep, Move
<1>29. ASSUME NEW c \in Conn, ReadArm(c)  PROVE  Phases'
  BY <1>29 DEF ReadArm, HandlerStep, Move
<1>30. ASSUME NEW c \in Conn, ReadRecheck(c)  PROVE  Phases'
  BY <1>30 DEF ReadRecheck, HandlerStep, Move
<1>31. ASSUME NEW c \in Conn, Command(c)  PROVE  Phases'
  BY <1>31 DEF Command, HandlerStep, Move
<1>32. ASSUME NEW c \in Conn, ReadCut(c)  PROVE  Phases'
  BY <1>32 DEF ReadCut, HandlerStep, Move
<1>33. ASSUME NEW c \in Conn, ReadFails(c)  PROVE  Phases'
  BY <1>33 DEF ReadFails, HandlerStep, Move
<1>34. ASSUME NEW c \in Conn, ServeStatement(c)  PROVE  Phases'
  BY <1>34 DEF ServeStatement, HandlerStep, Move
<1>35. ASSUME NEW c \in Conn, ReadFailed(c)  PROVE  Phases'
  BY <1>35 DEF ReadFailed, HandlerStep, Move
<1>36. ASSUME NEW c \in Conn, Panic(c)  PROVE  Phases'
  BY <1>36 DEF Panic, HandlerStep
<1>37. ASSUME NEW c \in Conn, HandlerClose(c)  PROVE  Phases'
  BY <1>37 DEF HandlerClose, HandlerStep, Move
<1>38. ASSUME NEW c \in Conn, UntrackDelete(c)  PROVE  Phases'
  BY <1>38 DEF UntrackDelete, Move
<1>39. ASSUME NEW c \in Conn, UntrackDone(c)  PROVE  Phases'
  BY <1>39 DEF UntrackDone, Move
<1>40. ASSUME NEW c \in Conn, ReleaseConnection(c)  PROVE  Phases'
  BY <1>40 DEF ReleaseConnection, Move
<1>41. ASSUME NEW c \in Conn, DrainForce(c)  PROVE  Phases'
  BY <1>41 DEF DrainForce
<1>42. ASSUME NEW c \in Conn, DrainKill(c)  PROVE  Phases'
  BY <1>42 DEF DrainKill
<1> QED
  BY ZenonT(60), <1>1, <1>2, <1>3, <1>4, <1>5, <1>6, <1>7, <1>8, <1>9, <1>10, <1>11, <1>12, <1>13, <1>14,
     <1>15, <1>16, <1>17, <1>18, <1>19, <1>20, <1>21, <1>22, <1>23, <1>24, <1>25, <1>26, <1>27,
     <1>28, <1>29, <1>30, <1>31, <1>32, <1>33, <1>34, <1>35, <1>36, <1>37, <1>38, <1>39, <1>40,
     <1>41, <1>42 DEF Next, AcceptLoop, Handler, Drainer

\* Every step keeps the uncut reads within the drainer's reach.
LEMMA ForcingStep ==
  ASSUME IInv, Next
  PROVE  Forcing'
<1> USE DEF IInv, TypeOK, Phases, Forcing, Counts, At, MappedStages, HandlerStages, Closing,
            srvVars, drainVars, countVars, handlerVars
<1>1. CASE Listen
  BY <1>1 DEF Listen
<1>2. CASE ListenFails
  BY <1>2 DEF ListenFails
<1>3. CASE ServeEnter
  BY <1>3 DEF ServeEnter
<1>4. CASE AcceptError
  BY <1>4 DEF AcceptError
<1>5. CASE DrainShutdown
  BY <1>5 DEF DrainShutdown, DrainStep
<1>6. CASE DrainCloseListener
  BY <1>6 DEF DrainCloseListener, DrainStep
<1>7. CASE DrainBegin
  BY <1>7 DEF DrainBegin, DrainStep
<1>8. CASE DrainAwaitServeExit
  BY <1>8 DEF DrainAwaitServeExit, DrainStep
<1>9. CASE DrainSnapshot
  BY <1>9 DEF DrainSnapshot, DrainStep
<1>10. CASE DrainForced
  BY <1>10 DEF DrainForced, DrainStep
<1>11. CASE DrainWaitZero
  BY <1>11 DEF DrainWaitZero, DrainStep
<1>12. CASE DrainWaitExpired
  BY <1>12 DEF DrainWaitExpired, DrainStep
<1>13. CASE DrainKillSnapshot
  BY <1>13 DEF DrainKillSnapshot, DrainStep
<1>14. CASE DrainKilled
  BY <1>14 DEF DrainKilled, DrainStep
<1>15. CASE CtxExpires
  BY <1>15 DEF CtxExpires
<1>16. ASSUME NEW c \in Conn, Connect(c)  PROVE  Forcing'
  BY <1>16 DEF Connect, Move
<1>17. ASSUME NEW c \in Conn, Accept(c)  PROVE  Forcing'
  BY <1>17 DEF Accept, Move
<1>18. ASSUME NEW c \in Conn, AcquireConnection(c)  PROVE  Forcing'
  BY <1>18 DEF AcquireConnection, Move
<1>19. ASSUME NEW c \in Conn, TrackAdd(c)  PROVE  Forcing'
  BY <1>19 DEF TrackAdd, Move
<1>20. ASSUME NEW c \in Conn, TrackInsert(c)  PROVE  Forcing'
  BY <1>20 DEF TrackInsert, Move
<1>21. ASSUME NEW c \in Conn, TrackUnblock(c)  PROVE  Forcing'
  BY <1>21 DEF TrackUnblock, Move
<1>22. ASSUME NEW c \in Conn, Spawn(c)  PROVE  Forcing'
  BY <1>22 DEF Spawn, Move
<1>23. ASSUME NEW c \in Conn, HandshakeArm(c)  PROVE  Forcing'
  BY <1>23 DEF HandshakeArm, HandlerStep, Move
<1>24. ASSUME NEW c \in Conn, HandshakeRead(c)  PROVE  Forcing'
  BY <1>24 DEF HandshakeRead, HandlerStep, Move
<1>25. ASSUME NEW c \in Conn, HandshakeFails(c)  PROVE  Forcing'
  BY <1>25 DEF HandshakeFails, HandlerStep, Move
<1>26. ASSUME NEW c \in Conn, HandshakeClear(c)  PROVE  Forcing'
  BY <1>26 DEF HandshakeClear, HandlerStep, Move
<1>27. ASSUME NEW c \in Conn, OpenTarget(c)  PROVE  Forcing'
  BY <1>27 DEF OpenTarget, HandlerStep, Move
<1>28. ASSUME NEW c \in Conn, ReadCheck(c)  PROVE  Forcing'
  BY <1>28 DEF ReadCheck, HandlerStep, Move
<1>29. ASSUME NEW c \in Conn, ReadArm(c)  PROVE  Forcing'
  BY <1>29 DEF ReadArm, HandlerStep, Move
<1>30. ASSUME NEW c \in Conn, ReadRecheck(c)  PROVE  Forcing'
  BY <1>30 DEF ReadRecheck, HandlerStep, Move
<1>31. ASSUME NEW c \in Conn, Command(c)  PROVE  Forcing'
  BY <1>31 DEF Command, HandlerStep, Move
<1>32. ASSUME NEW c \in Conn, ReadCut(c)  PROVE  Forcing'
  BY <1>32 DEF ReadCut, HandlerStep, Move
<1>33. ASSUME NEW c \in Conn, ReadFails(c)  PROVE  Forcing'
  BY <1>33 DEF ReadFails, HandlerStep, Move
<1>34. ASSUME NEW c \in Conn, ServeStatement(c)  PROVE  Forcing'
  BY <1>34 DEF ServeStatement, HandlerStep, Move
<1>35. ASSUME NEW c \in Conn, ReadFailed(c)  PROVE  Forcing'
  BY <1>35 DEF ReadFailed, HandlerStep, Move
<1>36. ASSUME NEW c \in Conn, Panic(c)  PROVE  Forcing'
  BY <1>36 DEF Panic, HandlerStep
<1>37. ASSUME NEW c \in Conn, HandlerClose(c)  PROVE  Forcing'
  BY <1>37 DEF HandlerClose, HandlerStep, Move
<1>38. ASSUME NEW c \in Conn, UntrackDelete(c)  PROVE  Forcing'
  BY <1>38 DEF UntrackDelete, Move
<1>39. ASSUME NEW c \in Conn, UntrackDone(c)  PROVE  Forcing'
  BY <1>39 DEF UntrackDone, Move
<1>40. ASSUME NEW c \in Conn, ReleaseConnection(c)  PROVE  Forcing'
  BY <1>40 DEF ReleaseConnection, Move
<1>41. ASSUME NEW c \in Conn, DrainForce(c)  PROVE  Forcing'
  BY ZenonT(60), <1>41 DEF DrainForce
<1>42. ASSUME NEW c \in Conn, DrainKill(c)  PROVE  Forcing'
  BY ZenonT(60), <1>42 DEF DrainKill
<1> QED
  BY ZenonT(60), <1>1, <1>2, <1>3, <1>4, <1>5, <1>6, <1>7, <1>8, <1>9, <1>10, <1>11, <1>12, <1>13, <1>14,
     <1>15, <1>16, <1>17, <1>18, <1>19, <1>20, <1>21, <1>22, <1>23, <1>24, <1>25, <1>26, <1>27,
     <1>28, <1>29, <1>30, <1>31, <1>32, <1>33, <1>34, <1>35, <1>36, <1>37, <1>38, <1>39, <1>40,
     <1>41, <1>42 DEF Next, AcceptLoop, Handler, Drainer

\* Every step keeps the counters and the map in line with the connections.
LEMMA CountsStep ==
  ASSUME IInv, Next
  PROVE  Counts'
<1> USE DEF IInv
<1>1. CASE Listen
  BY <1>1 DEF Listen, Counts, At, srvVars, drainVars, countVars, handlerVars
<1>2. CASE ListenFails
  BY <1>2 DEF ListenFails, Counts, At, srvVars, drainVars, countVars, handlerVars
<1>3. CASE ServeEnter
  BY <1>3 DEF ServeEnter, Counts, At, srvVars, drainVars, countVars, handlerVars
<1>4. CASE AcceptError
  BY <1>4 DEF AcceptError, Counts, At, srvVars, drainVars, countVars, handlerVars
<1>5. CASE DrainShutdown
  BY <1>5 DEF DrainShutdown, DrainStep, Counts, At, srvVars, drainVars, countVars, handlerVars
<1>6. CASE DrainCloseListener
  <2>1. /\ At(SlotStages)' = At(SlotStages)
        /\ At(CountedStages)' = At(CountedStages)
        /\ At(MappedStages)' = At(MappedStages)
    BY <1>6 DEF DrainCloseListener, At, SlotStages, CountedStages, MappedStages, HandlerStages
  <2> QED
    BY <1>6, <2>1 DEF DrainCloseListener, Counts, countVars
<1>7. CASE DrainBegin
  BY <1>7 DEF DrainBegin, DrainStep, Counts, At, srvVars, drainVars, countVars, handlerVars
<1>8. CASE DrainAwaitServeExit
  BY <1>8 DEF DrainAwaitServeExit, DrainStep, Counts, At, srvVars, drainVars, countVars, handlerVars
<1>9. CASE DrainSnapshot
  BY <1>9 DEF DrainSnapshot, DrainStep, Counts, At, srvVars, drainVars, countVars, handlerVars
<1>10. CASE DrainForced
  BY <1>10 DEF DrainForced, DrainStep, Counts, At, srvVars, drainVars, countVars, handlerVars
<1>11. CASE DrainWaitZero
  BY <1>11 DEF DrainWaitZero, DrainStep, Counts, At, srvVars, drainVars, countVars, handlerVars
<1>12. CASE DrainWaitExpired
  BY <1>12 DEF DrainWaitExpired, DrainStep, Counts, At, srvVars, drainVars, countVars, handlerVars
<1>13. CASE DrainKillSnapshot
  BY <1>13 DEF DrainKillSnapshot, DrainStep, Counts, At, srvVars, drainVars, countVars, handlerVars
<1>14. CASE DrainKilled
  BY <1>14 DEF DrainKilled, DrainStep, Counts, At, srvVars, drainVars, countVars, handlerVars
<1>15. CASE CtxExpires
  BY <1>15 DEF CtxExpires, Counts, At, srvVars, drainVars, countVars, handlerVars
<1>16. ASSUME NEW c \in Conn, Connect(c)  PROVE  Counts'
  <2>1. /\ stage \in [Conn -> Stages] /\ stage[c] = "none" /\ "backlog" \in Stages
        /\ stage' = [stage EXCEPT ![c] = "backlog"]
    BY <1>16 DEF Connect, Move, TypeOK, Stages, AcceptStages, HandlerStages, DeferStages
  <2>2. /\ stage[c] \notin MappedStages /\ "backlog" \notin MappedStages
        /\ stage[c] \notin CountedStages /\ "backlog" \notin CountedStages
        /\ stage[c] \notin SlotStages /\ "backlog" \notin SlotStages
    BY <2>1 DEF SlotStages, CountedStages, MappedStages, HandlerStages
  <2>3. /\ At(MappedStages)' = At(MappedStages)
        /\ At(CountedStages)' = At(CountedStages)
        /\ At(SlotStages)' = At(SlotStages)
    BY ZenonT(60), <2>1, <2>2, AtMove
  <2> QED
    BY <1>16, <2>3, AtFinite DEF Connect, Counts, countVars
<1>17. ASSUME NEW c \in Conn, Accept(c)  PROVE  Counts'
  <2>1. /\ stage \in [Conn -> Stages] /\ stage[c] = "backlog" /\ "accepted" \in Stages
        /\ stage' = [stage EXCEPT ![c] = "accepted"]
    BY <1>17 DEF Accept, Move, TypeOK, Stages, AcceptStages, HandlerStages, DeferStages
  <2>2. /\ stage[c] \notin MappedStages /\ "accepted" \notin MappedStages
        /\ stage[c] \notin CountedStages /\ "accepted" \notin CountedStages
        /\ stage[c] \notin SlotStages /\ "accepted" \notin SlotStages
    BY <2>1 DEF SlotStages, CountedStages, MappedStages, HandlerStages
  <2>3. /\ At(MappedStages)' = At(MappedStages)
        /\ At(CountedStages)' = At(CountedStages)
        /\ At(SlotStages)' = At(SlotStages)
    BY ZenonT(60), <2>1, <2>2, AtMove
  <2> QED
    BY <1>17, <2>3, AtFinite DEF Accept, Counts, countVars
<1>18. ASSUME NEW c \in Conn, AcquireConnection(c)  PROVE  Counts'
  <2>1. CASE slots < MaxConnections
    <3>1. /\ stage \in [Conn -> Stages] /\ stage[c] = "accepted" /\ "slotted" \in Stages
          /\ stage' = [stage EXCEPT ![c] = "slotted"]
      BY <1>18, <2>1 DEF AcquireConnection, Move, TypeOK, Stages, AcceptStages, HandlerStages, DeferStages
    <3>2. /\ stage[c] \notin MappedStages /\ "slotted" \notin MappedStages
          /\ stage[c] \notin CountedStages /\ "slotted" \notin CountedStages
          /\ stage[c] \notin SlotStages /\ "slotted" \in SlotStages
      BY <3>1 DEF SlotStages, CountedStages, MappedStages, HandlerStages
    <3>3. /\ At(MappedStages)' = At(MappedStages)
          /\ At(CountedStages)' = At(CountedStages)
          /\ Cardinality(At(SlotStages)') = Cardinality(At(SlotStages)) + 1
      BY ZenonT(60), <3>1, <3>2, AtMove
    <3> QED
      BY <1>18, <2>1, <3>3, AtFinite, SlotsPositive DEF AcquireConnection, Counts, countVars
  <2>2. CASE ~(slots < MaxConnections)
    <3>1. /\ stage \in [Conn -> Stages] /\ stage[c] = "accepted" /\ "gone" \in Stages
          /\ stage' = [stage EXCEPT ![c] = "gone"]
      BY <1>18, <2>2 DEF AcquireConnection, Move, TypeOK, Stages, AcceptStages, HandlerStages, DeferStages
    <3>2. /\ stage[c] \notin MappedStages /\ "gone" \notin MappedStages
          /\ stage[c] \notin CountedStages /\ "gone" \notin CountedStages
          /\ stage[c] \notin SlotStages /\ "gone" \notin SlotStages
      BY <3>1 DEF SlotStages, CountedStages, MappedStages, HandlerStages
    <3>3. /\ At(MappedStages)' = At(MappedStages)
          /\ At(CountedStages)' = At(CountedStages)
          /\ At(SlotStages)' = At(SlotStages)
      BY ZenonT(60), <3>1, <3>2, AtMove
    <3> QED
      BY <1>18, <2>2, <3>3, AtFinite DEF AcquireConnection, Counts, countVars
  <2> QED
    BY <2>1, <2>2
<1>19. ASSUME NEW c \in Conn, TrackAdd(c)  PROVE  Counts'
  <2>1. /\ stage \in [Conn -> Stages] /\ stage[c] = "slotted" /\ "counted" \in Stages
        /\ stage' = [stage EXCEPT ![c] = "counted"]
    BY <1>19 DEF TrackAdd, Move, TypeOK, Stages, AcceptStages, HandlerStages, DeferStages
  <2>2. /\ stage[c] \notin MappedStages /\ "counted" \notin MappedStages
        /\ stage[c] \notin CountedStages /\ "counted" \in CountedStages
        /\ stage[c] \in SlotStages /\ "counted" \in SlotStages
    BY <2>1 DEF SlotStages, CountedStages, MappedStages, HandlerStages
  <2>3. /\ At(MappedStages)' = At(MappedStages)
        /\ Cardinality(At(CountedStages)') = Cardinality(At(CountedStages)) + 1
        /\ At(SlotStages)' = At(SlotStages)
    BY ZenonT(60), <2>1, <2>2, AtMove
  <2> QED
    BY <1>19, <2>3, AtFinite DEF TrackAdd, Counts, countVars
<1>20. ASSUME NEW c \in Conn, TrackInsert(c)  PROVE  Counts'
  <2>0. PICK to \in {"unblock", "tracked"} : stage' = [stage EXCEPT ![c] = to]
    BY ZenonT(60), <1>20 DEF TrackInsert, Move
  <2>1. /\ stage \in [Conn -> Stages] /\ stage[c] = "counted" /\ to \in Stages
        /\ stage' = [stage EXCEPT ![c] = to]
    BY ZenonT(60), <1>20, <2>0 DEF TrackInsert, Move, TypeOK, Stages, AcceptStages, HandlerStages, DeferStages
  <2>2. /\ stage[c] \notin MappedStages /\ to \in MappedStages
        /\ stage[c] \in CountedStages /\ to \in CountedStages
        /\ stage[c] \in SlotStages /\ to \in SlotStages
    BY <2>0, <2>1 DEF SlotStages, CountedStages, MappedStages, HandlerStages
  <2>3. /\ At(MappedStages)' = At(MappedStages) \cup {c}
        /\ At(CountedStages)' = At(CountedStages)
        /\ At(SlotStages)' = At(SlotStages)
    BY ZenonT(60), <2>1, <2>2, AtMove
  <2> QED
    BY <1>20, <2>0, <2>3, AtFinite DEF TrackInsert, Counts, countVars
<1>21. ASSUME NEW c \in Conn, TrackUnblock(c)  PROVE  Counts'
  BY ZenonT(60), <1>21, MappedMove DEF TrackUnblock, Move, MappedStages, HandlerStages, countVars
<1>22. ASSUME NEW c \in Conn, Spawn(c)  PROVE  Counts'
  BY ZenonT(60), <1>22, MappedMove DEF Spawn, Move, MappedStages, HandlerStages, countVars
<1>23. ASSUME NEW c \in Conn, HandshakeArm(c)  PROVE  Counts'
  BY <1>23, MappedMove DEF HandshakeArm, HandlerStep, Move, MappedStages, HandlerStages
<1>24. ASSUME NEW c \in Conn, HandshakeRead(c)  PROVE  Counts'
  BY <1>24, MappedMove DEF HandshakeRead, HandlerStep, Move, MappedStages, HandlerStages
<1>25. ASSUME NEW c \in Conn, HandshakeFails(c)  PROVE  Counts'
  BY ZenonT(60), <1>25, MappedMove DEF HandshakeFails, HandlerStep, Move, MappedStages, HandlerStages
<1>26. ASSUME NEW c \in Conn, HandshakeClear(c)  PROVE  Counts'
  BY <1>26, MappedMove DEF HandshakeClear, HandlerStep, Move, MappedStages, HandlerStages
<1>27. ASSUME NEW c \in Conn, OpenTarget(c)  PROVE  Counts'
  BY <1>27, MappedMove DEF OpenTarget, HandlerStep, Move, MappedStages, HandlerStages
<1>28. ASSUME NEW c \in Conn, ReadCheck(c)  PROVE  Counts'
  BY <1>28, MappedMove DEF ReadCheck, HandlerStep, Move, MappedStages, HandlerStages
<1>29. ASSUME NEW c \in Conn, ReadArm(c)  PROVE  Counts'
  BY <1>29, MappedMove DEF ReadArm, HandlerStep, Move, MappedStages, HandlerStages
<1>30. ASSUME NEW c \in Conn, ReadRecheck(c)  PROVE  Counts'
  BY ZenonT(60), <1>30, MappedMove DEF ReadRecheck, HandlerStep, Move, MappedStages, HandlerStages
<1>31. ASSUME NEW c \in Conn, Command(c)  PROVE  Counts'
  BY <1>31, MappedMove DEF Command, HandlerStep, Move, MappedStages, HandlerStages
<1>32. ASSUME NEW c \in Conn, ReadCut(c)  PROVE  Counts'
  BY ZenonT(60), <1>32, MappedMove DEF ReadCut, HandlerStep, Move, MappedStages, HandlerStages
<1>33. ASSUME NEW c \in Conn, ReadFails(c)  PROVE  Counts'
  BY ZenonT(60), <1>33, MappedMove DEF ReadFails, HandlerStep, Move, MappedStages, HandlerStages
<1>34. ASSUME NEW c \in Conn, ServeStatement(c)  PROVE  Counts'
  BY <1>34, MappedMove DEF ServeStatement, HandlerStep, Move, MappedStages, HandlerStages
<1>35. ASSUME NEW c \in Conn, ReadFailed(c)  PROVE  Counts'
  BY ZenonT(60), <1>35, MappedMove DEF ReadFailed, HandlerStep, Move, MappedStages, HandlerStages
<1>36. ASSUME NEW c \in Conn, Panic(c)  PROVE  Counts'
  BY ZenonT(60), <1>36, MappedMove DEF Panic, HandlerStep, MappedStages, HandlerStages
<1>37. ASSUME NEW c \in Conn, HandlerClose(c)  PROVE  Counts'
  BY ZenonT(60), <1>37, MappedMove DEF HandlerClose, HandlerStep, Move, MappedStages, HandlerStages
<1>38. ASSUME NEW c \in Conn, UntrackDelete(c)  PROVE  Counts'
  <2>1. /\ stage \in [Conn -> Stages] /\ stage[c] = "untrack" /\ "uncount" \in Stages
        /\ stage' = [stage EXCEPT ![c] = "uncount"]
    BY <1>38 DEF UntrackDelete, Move, TypeOK, Stages, AcceptStages, HandlerStages, DeferStages
  <2>2. /\ stage[c] \in MappedStages /\ "uncount" \notin MappedStages
        /\ stage[c] \in CountedStages /\ "uncount" \in CountedStages
        /\ stage[c] \in SlotStages /\ "uncount" \in SlotStages
    BY <2>1 DEF SlotStages, CountedStages, MappedStages, HandlerStages
  <2>3. /\ At(MappedStages)' = At(MappedStages) \ {c}
        /\ At(CountedStages)' = At(CountedStages)
        /\ At(SlotStages)' = At(SlotStages)
    BY ZenonT(60), <2>1, <2>2, AtMove
  <2> QED
    BY <1>38, <2>3, AtFinite DEF UntrackDelete, Counts, countVars
<1>39. ASSUME NEW c \in Conn, UntrackDone(c)  PROVE  Counts'
  <2>1. /\ stage \in [Conn -> Stages] /\ stage[c] = "uncount" /\ "release" \in Stages
        /\ stage' = [stage EXCEPT ![c] = "release"]
    BY <1>39 DEF UntrackDone, Move, TypeOK, Stages, AcceptStages, HandlerStages, DeferStages
  <2>2. /\ stage[c] \notin MappedStages /\ "release" \notin MappedStages
        /\ stage[c] \in CountedStages /\ "release" \notin CountedStages
        /\ stage[c] \in SlotStages /\ "release" \in SlotStages
    BY <2>1 DEF SlotStages, CountedStages, MappedStages, HandlerStages
  <2>3. /\ At(MappedStages)' = At(MappedStages)
        /\ Cardinality(At(CountedStages)') = Cardinality(At(CountedStages)) - 1
        /\ At(SlotStages)' = At(SlotStages)
    BY ZenonT(60), <2>1, <2>2, AtMove
  <2> QED
    BY <1>39, <2>3, AtFinite DEF UntrackDone, Counts, countVars
<1>40. ASSUME NEW c \in Conn, ReleaseConnection(c)  PROVE  Counts'
  <2>1. /\ stage \in [Conn -> Stages] /\ stage[c] = "release" /\ "gone" \in Stages
        /\ stage' = [stage EXCEPT ![c] = "gone"]
    BY <1>40 DEF ReleaseConnection, Move, TypeOK, Stages, AcceptStages, HandlerStages, DeferStages
  <2>2. /\ stage[c] \notin MappedStages /\ "gone" \notin MappedStages
        /\ stage[c] \notin CountedStages /\ "gone" \notin CountedStages
        /\ stage[c] \in SlotStages /\ "gone" \notin SlotStages
    BY <2>1 DEF SlotStages, CountedStages, MappedStages, HandlerStages
  <2>3. /\ At(MappedStages)' = At(MappedStages)
        /\ At(CountedStages)' = At(CountedStages)
        /\ Cardinality(At(SlotStages)') = Cardinality(At(SlotStages)) - 1
    BY ZenonT(60), <2>1, <2>2, AtMove
  <2> QED
    BY <1>40, <2>3, AtFinite, SlotsPositive DEF ReleaseConnection, Counts, countVars
<1>41. ASSUME NEW c \in Conn, DrainForce(c)  PROVE  Counts'
  BY <1>41 DEF DrainForce, Counts, At, srvVars, drainVars, countVars, handlerVars
<1>42. ASSUME NEW c \in Conn, DrainKill(c)  PROVE  Counts'
  BY <1>42 DEF DrainKill, Counts, At, srvVars, drainVars, countVars, handlerVars
<1> QED
  BY <1>1, <1>2, <1>3, <1>4, <1>5, <1>6, <1>7, <1>8, <1>9, <1>10, <1>11, <1>12, <1>13, <1>14,
     <1>15, <1>16, <1>17, <1>18, <1>19, <1>20, <1>21, <1>22, <1>23, <1>24, <1>25, <1>26, <1>27,
     <1>28, <1>29, <1>30, <1>31, <1>32, <1>33, <1>34, <1>35, <1>36, <1>37, <1>38, <1>39, <1>40,
     <1>41, <1>42 DEF Next, AcceptLoop, Handler, Drainer

\* Every step keeps what the accept loop can still bring in within bounds.
LEMMA AcceptingStep ==
  ASSUME IInv, Next
  PROVE  Accepting'
<1> USE DEF IInv, TypeOK, Phases, Accepting, AcceptLoopRuns, At, CountedStages, MappedStages,
            HandlerStages, AcceptStages, Closing, BeforeCut, srvVars, drainVars, countVars,
            handlerVars
<1>1. CASE Listen
  BY <1>1 DEF Listen
<1>2. CASE ListenFails
  BY <1>2 DEF ListenFails
<1>3. CASE ServeEnter
  BY <1>3 DEF ServeEnter
<1>4. CASE AcceptError
  BY <1>4 DEF AcceptError
<1>5. CASE DrainShutdown
  BY <1>5 DEF DrainShutdown, DrainStep
<1>6. CASE DrainCloseListener
  BY <1>6 DEF DrainCloseListener, DrainStep
<1>7. CASE DrainBegin
  BY <1>7 DEF DrainBegin, DrainStep
<1>8. CASE DrainAwaitServeExit
  BY <1>8 DEF DrainAwaitServeExit, DrainStep
<1>9. CASE DrainSnapshot
  BY <1>9 DEF DrainSnapshot, DrainStep
<1>10. CASE DrainForced
  BY <1>10 DEF DrainForced, DrainStep
<1>11. CASE DrainWaitZero
  <2>1. At(CountedStages) = {}
    BY ZenonT(60), <1>11, AtFinite, FS_EmptySet DEF DrainWaitZero, Counts
  <2> QED
    BY <1>11, <2>1 DEF DrainWaitZero, DrainStep, Accepting, AcceptLoopRuns, BeforeCut, Closing, At,
                    srvVars, countVars, handlerVars
<1>12. CASE DrainWaitExpired
  BY <1>12 DEF DrainWaitExpired, DrainStep
<1>13. CASE DrainKillSnapshot
  BY <1>13 DEF DrainKillSnapshot, DrainStep
<1>14. CASE DrainKilled
  BY <1>14 DEF DrainKilled, DrainStep
<1>15. CASE CtxExpires
  BY <1>15 DEF CtxExpires
<1>16. ASSUME NEW c \in Conn, Connect(c)  PROVE  Accepting'
  BY <1>16 DEF Connect, Move
<1>17. ASSUME NEW c \in Conn, Accept(c)  PROVE  Accepting'
  BY <1>17 DEF Accept, Move
<1>18. ASSUME NEW c \in Conn, AcquireConnection(c)  PROVE  Accepting'
  BY <1>18 DEF AcquireConnection, Move
<1>19. ASSUME NEW c \in Conn, TrackAdd(c)  PROVE  Accepting'
  BY <1>19 DEF TrackAdd, Move
<1>20. ASSUME NEW c \in Conn, TrackInsert(c)  PROVE  Accepting'
  BY <1>20 DEF TrackInsert, Move
<1>21. ASSUME NEW c \in Conn, TrackUnblock(c)  PROVE  Accepting'
  BY <1>21 DEF TrackUnblock, Move
<1>22. ASSUME NEW c \in Conn, Spawn(c)  PROVE  Accepting'
  BY <1>22 DEF Spawn, Move
<1>23. ASSUME NEW c \in Conn, HandshakeArm(c)  PROVE  Accepting'
  BY <1>23 DEF HandshakeArm, HandlerStep, Move
<1>24. ASSUME NEW c \in Conn, HandshakeRead(c)  PROVE  Accepting'
  BY <1>24 DEF HandshakeRead, HandlerStep, Move
<1>25. ASSUME NEW c \in Conn, HandshakeFails(c)  PROVE  Accepting'
  BY <1>25 DEF HandshakeFails, HandlerStep, Move
<1>26. ASSUME NEW c \in Conn, HandshakeClear(c)  PROVE  Accepting'
  BY <1>26 DEF HandshakeClear, HandlerStep, Move
<1>27. ASSUME NEW c \in Conn, OpenTarget(c)  PROVE  Accepting'
  BY <1>27 DEF OpenTarget, HandlerStep, Move
<1>28. ASSUME NEW c \in Conn, ReadCheck(c)  PROVE  Accepting'
  BY <1>28 DEF ReadCheck, HandlerStep, Move
<1>29. ASSUME NEW c \in Conn, ReadArm(c)  PROVE  Accepting'
  BY <1>29 DEF ReadArm, HandlerStep, Move
<1>30. ASSUME NEW c \in Conn, ReadRecheck(c)  PROVE  Accepting'
  BY <1>30 DEF ReadRecheck, HandlerStep, Move
<1>31. ASSUME NEW c \in Conn, Command(c)  PROVE  Accepting'
  BY <1>31 DEF Command, HandlerStep, Move
<1>32. ASSUME NEW c \in Conn, ReadCut(c)  PROVE  Accepting'
  BY <1>32 DEF ReadCut, HandlerStep, Move
<1>33. ASSUME NEW c \in Conn, ReadFails(c)  PROVE  Accepting'
  BY <1>33 DEF ReadFails, HandlerStep, Move
<1>34. ASSUME NEW c \in Conn, ServeStatement(c)  PROVE  Accepting'
  BY <1>34 DEF ServeStatement, HandlerStep, Move
<1>35. ASSUME NEW c \in Conn, ReadFailed(c)  PROVE  Accepting'
  BY <1>35 DEF ReadFailed, HandlerStep, Move
<1>36. ASSUME NEW c \in Conn, Panic(c)  PROVE  Accepting'
  BY <1>36 DEF Panic, HandlerStep
<1>37. ASSUME NEW c \in Conn, HandlerClose(c)  PROVE  Accepting'
  BY <1>37 DEF HandlerClose, HandlerStep, Move
<1>38. ASSUME NEW c \in Conn, UntrackDelete(c)  PROVE  Accepting'
  BY <1>38 DEF UntrackDelete, Move
<1>39. ASSUME NEW c \in Conn, UntrackDone(c)  PROVE  Accepting'
  BY <1>39 DEF UntrackDone, Move
<1>40. ASSUME NEW c \in Conn, ReleaseConnection(c)  PROVE  Accepting'
  BY <1>40 DEF ReleaseConnection, Move
<1>41. ASSUME NEW c \in Conn, DrainForce(c)  PROVE  Accepting'
  BY <1>41 DEF DrainForce
<1>42. ASSUME NEW c \in Conn, DrainKill(c)  PROVE  Accepting'
  BY <1>42 DEF DrainKill
<1> QED
  BY ZenonT(60), <1>1, <1>2, <1>3, <1>4, <1>5, <1>6, <1>7, <1>8, <1>9, <1>10, <1>11, <1>12, <1>13, <1>14,
     <1>15, <1>16, <1>17, <1>18, <1>19, <1>20, <1>21, <1>22, <1>23, <1>24, <1>25, <1>26, <1>27,
     <1>28, <1>29, <1>30, <1>31, <1>32, <1>33, <1>34, <1>35, <1>36, <1>37, <1>38, <1>39, <1>40,
     <1>41, <1>42 DEF Next, AcceptLoop, Handler, Drainer

-----------------------------------------------------------------------------
LEMMA InitIInv == Init => IInv
<1> SUFFICES ASSUME Init PROVE IInv
  OBVIOUS
<1>1. TypeOK
  BY ZenonT(60) DEF Init, TypeOK, Stages
<1>2. At(SlotStages) = {} /\ At(CountedStages) = {} /\ At(MappedStages) = {}
  BY DEF Init, At, SlotStages, CountedStages, MappedStages, HandlerStages
<1>3. Counts
  BY <1>2, FS_EmptySet, SlotsPositive DEF Init, Counts
<1>4. Phases /\ Forcing
  BY ZenonT(60) DEF Init, Phases, Forcing, Closing
<1>5. Accepting
  BY <1>2 DEF Init, Accepting, AcceptStages, AcceptLoopRuns, Closing, BeforeCut
<1> QED
  BY <1>1, <1>3, <1>4, <1>5 DEF IInv

LEMMA StutterIInv == IInv /\ UNCHANGED vars => IInv'
  BY DEF IInv, vars, srvVars, drainVars, countVars, handlerVars, TypeOK, Counts, Phases, Forcing,
         Accepting, AcceptLoopRuns, At

\* The inductive invariant holds throughout.
THEOREM InductiveInvariant == Spec => []IInv
<1>1. IInv /\ [Next]_vars => IInv'
  BY TypeStep, CountsStep, PhasesStep, ForcingStep, AcceptingStep, StutterIInv DEF IInv
<1> QED
  BY <1>1, InitIInv, PTL DEF Spec

\* Type correctness of the broker's state.
THEOREM TypeCorrect == Spec => []TypeOK
  BY InductiveInvariant, PTL DEF IInv

\* trackConn/untrackConn: the tracker counts exactly the connections between Add and Done and
\* never fewer than the map holds, for any number of clients.
THEOREM TrackerCovers == Spec => []TrackerCoversConns
<1>1. IInv => TrackerCoversConns
  <2>1. At(MappedStages) \in SUBSET At(CountedStages)
    BY DEF At, CountedStages
  <2>2. Cardinality(At(MappedStages)) <= Cardinality(At(CountedStages))
    BY <2>1, AtFinite, FS_Subset
  <2> QED
    BY <2>2 DEF IInv, Counts, TrackerCoversConns
<1> QED
  BY <1>1, InductiveInvariant, PTL

\* connSlots: tokens and handled connections agree, within any capacity.
THEOREM SlotsAreAccounted == Spec => []SlotsAccounted
<1>1. IInv => SlotsAccounted
  BY DEF IInv, Counts, SlotsAccounted
<1> QED
  BY <1>1, InductiveInvariant, PTL

\* deadlineConn.Read and trackConn against Drain: no read outlives the forced deadlines.
THEOREM ReadsAreCut == Spec => []NoStrandedRead
<1>1. IInv => NoStrandedRead
  BY ZenonT(60) DEF IInv, Phases, Forcing, NoStrandedRead, Closing
<1> QED
  BY <1>1, InductiveInvariant, PTL

\* A client whose read the drain cut is told before the socket closes.
THEOREM CutsAreNoticed == Spec => []CutIsNoticed
<1>1. IInv => CutIsNoticed
  BY DEF IInv, Forcing, CutIsNoticed
<1> QED
  BY <1>1, InductiveInvariant, PTL

\* A Drain that reports a clean finish has left nobody behind.
THEOREM CleanDrainComplete == Spec => []CleanDrainIsComplete
<1>1. IInv => CleanDrainIsComplete
  BY DEF IInv, Phases, Accepting, CleanDrainIsComplete, AcceptLoopRuns, At, Closing, BeforeCut
<1> QED
  BY <1>1, InductiveInvariant, PTL

=============================================================================
