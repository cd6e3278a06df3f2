------------------------- MODULE NodeWorkersProofs -------------------------
(***************************************************************************)
(* Theorems about NodeWorkers, for every set of clients, every number of   *)
(* connections, every buffer size and both values of the flag.             *)
(***************************************************************************)
EXTENDS NodeWorkers, FiniteSetTheorems, TLAPS

-----------------------------------------------------------------------------
(* The number of connections, which bounds disc, is a positive integer. *)
LEMMA ConnectionsCounted == NumConnectionsPerNode \in Nat \ {0}
  <1>1. NumConnectionsPerNode \in Nat
    BY WorkersAssumption, FS_CardinalityType DEF NumConnectionsPerNode
  <1>2. NumConnectionsPerNode # 0
    BY WorkersAssumption, FS_EmptySet DEF NumConnectionsPerNode
  <1> QED
    BY <1>1, <1>2

(* Every outcome of sendAndReadResponse is a response. *)
LEMMA OutcomesAreResponses ==
    /\ QuietOutcomes \subseteq Responses
    /\ ReportedOutcomes \subseteq Responses
    /\ FailedOutcomes \subseteq Responses
    /\ "ok" \in Responses
  BY DEF QuietOutcomes, ReportedOutcomes, FailedOutcomes, Responses

-----------------------------------------------------------------------------
(* Type correctness is preserved by every step. *)
LEMMA TypingStep == TypeOK /\ [Next]_vars => TypeOK'
  <1> SUFFICES ASSUME TypeOK, [Next]_vars PROVE TypeOK'
    OBVIOUS
  <1> USE DEF TypeOK, chanVars, poolVars, envVars
  <1>1. ASSUME NEW w \in Workers, Dial(w) PROVE TypeOK'
    BY <1>1 DEF Dial, WorkerStates
  <1>2. CASE DialFails
    BY <1>2 DEF DialFails, terminate
  <1>3. CASE StartServing
    BY <1>3 DEF StartServing
  <1>4. ASSUME NEW c \in Clients, ClientRouted(c) PROVE TypeOK'
    BY <1>4 DEF ClientRouted
  <1>5. ASSUME NEW c \in Clients, ClientSends(c) PROVE TypeOK'
    <2>1. jobs' \in Seq(Clients) /\ Len(jobs') <= CommandExecutionBufferSize
      BY <1>5, BufferAssumption DEF ClientSends
    <2> QED
      BY <1>5, <2>1 DEF ClientSends
  <1>6. ASSUME NEW c \in Clients, ClientPanics(c) PROVE TypeOK'
    BY <1>6 DEF ClientPanics
  <1>7. ASSUME NEW w \in Workers, WorkerReceives(w) PROVE TypeOK'
    <2>1. jobs' \in Seq(Clients) /\ Len(jobs') <= CommandExecutionBufferSize
      BY <1>7, BufferAssumption DEF WorkerReceives
    <2>2. Head(jobs) \in Clients
      BY <1>7 DEF WorkerReceives
    <2> QED
      BY <1>7, <2>1, <2>2 DEF WorkerReceives, WorkerStates
  <1>8. ASSUME NEW w \in Workers, WorkerDrained(w) PROVE TypeOK'
    BY <1>8 DEF WorkerDrained, WorkerStates
  <1>9. ASSUME NEW w \in Workers, WorkerExecutes(w) PROVE TypeOK'
    <2>1. response' \in [Workers -> Responses]
      BY <1>9, OutcomesAreResponses DEF WorkerExecutes, ExecuteHealthy, ExecuteFailed
    <2>2. worker' \in [Workers -> WorkerStates] /\ onFailure' \in [Workers -> BOOLEAN]
      BY <1>9 DEF WorkerExecutes, ExecuteHealthy, ExecuteFailed, WorkerStates
    <2> QED
      BY <1>9, <2>1, <2>2 DEF WorkerExecutes
  <1>10. ASSUME NEW w \in Workers, WorkerReports(w) PROVE TypeOK'
    BY <1>10, ConnectionsCounted DEF WorkerReports, SendDisconnection, WorkerStates
  <1>11. ASSUME NEW w \in Workers, WorkerReplies(w) PROVE TypeOK'
    <2>1. worker' \in [Workers -> WorkerStates]
      BY <1>11 DEF WorkerReplies, WorkerStates
    <2>2. /\ client' \in [Clients -> {"idle", "sending", "waiting"}]
          /\ job' \in [Workers -> Clients \cup {NoJob}]
          /\ response' \in [Workers -> Responses]
      BY <1>11, OutcomesAreResponses DEF WorkerReplies
    <2> QED
      BY <1>11, <2>1, <2>2 DEF WorkerReplies
  <1>12. ASSUME NEW w \in Workers, WorkerSignals(w) PROVE TypeOK'
    BY <1>12 DEF WorkerSignals, SendRebalance, WorkerStates
  <1>13. ASSUME NEW w \in Workers, WorkerExits(w) PROVE TypeOK'
    <2>1. worker' \in [Workers -> WorkerStates]
      BY <1>13 DEF WorkerExits, WorkerStates
    <2>2. checker' \in [Workers -> {"off", "running", "reporting", "stopped"}]
      BY <1>13 DEF WorkerExits
    <2>3. connected' \in BOOLEAN
      BY <1>13 DEF WorkerExits
    <2>4. /\ UNCHANGED <<creation, client, panicked, jobs, jobsClosed, disc, discClosed, rebal>>
          /\ UNCHANGED <<rebalClosed, job, response, onFailure, listener, rebalancing, shutdown>>
      BY <1>13 DEF WorkerExits
    <2> QED
      BY <2>1, <2>2, <2>3, <2>4
  <1>14. ASSUME NEW w \in Workers, CheckerFinds(w) PROVE TypeOK'
    BY <1>14 DEF CheckerFinds
  <1>15. ASSUME NEW w \in Workers, CheckerReports(w) PROVE TypeOK'
    BY <1>15, ConnectionsCounted DEF CheckerReports, SendDisconnection
  <1>16. CASE ListenerReceives
    <2>1. disc' \in 0 .. NumConnectionsPerNode
      BY <1>16, ConnectionsCounted DEF ListenerReceives
    <2>2. listener' \in {"off", "receive", "signal", "done"}
      BY <1>16 DEF ListenerReceives
    <2> QED
      BY <1>16, <2>1, <2>2 DEF ListenerReceives
  <1>17. CASE ListenerSignals
    BY <1>17 DEF ListenerSignals, SendRebalance
  <1>18. CASE ListenerEnds
    BY <1>18 DEF ListenerEnds
  <1>19. CASE SignalPanics
    BY <1>19 DEF SignalPanics
  <1>20. CASE RequestReceived
    BY <1>20 DEF RequestReceived
  <1>21. CASE RebalanceVisits
    <2>1. /\ connected' \in BOOLEAN /\ discClosed' \in BOOLEAN /\ jobsClosed' \in BOOLEAN
          /\ rebalancing' = "no"
      BY <1>21 DEF RebalanceVisits, VisitPool, PassOver, terminate
    <2> QED
      BY <1>21, <2>1 DEF RebalanceVisits
  <1>22. CASE OtherRebalanceVisits
    BY <1>22 DEF OtherRebalanceVisits, VisitPool, PassOver, terminate
  <1>23. CASE ShutdownTerminates
    BY <1>23 DEF ShutdownTerminates, terminate
  <1>24. CASE ShutdownClosesRebalanceChannel
    BY <1>24 DEF ShutdownClosesRebalanceChannel
  <1>25. CASE UNCHANGED vars
    BY <1>25 DEF vars
  <1>26. CASE OtherPoolSignals
    BY <1>26 DEF OtherPoolSignals, SendRebalance
  <1>27. CASE OtherLocks
    BY <1>27 DEF OtherLocks
  <1>28. CASE OtherUnlocks
    BY <1>28 DEF OtherUnlocks
  <1> QED
    BY <1>1, <1>2, <1>3, <1>4, <1>5, <1>6, <1>7, <1>8, <1>9, <1>10, <1>11, <1>12, <1>13,
       <1>14, <1>15, <1>16, <1>17, <1>18, <1>19, <1>20, <1>21, <1>22, <1>23, <1>24, <1>25, <1>26,
       <1>27, <1>28
    DEF Next, Create, ClientStep, WorkerStep, CheckerStep, ListenerStep, RebalanceStep,
        ShutdownStep

(* Every variable keeps its type, the buffers their capacities. *)
THEOREM TypeCorrect == Spec => []TypeOK
  <1>1. Init => TypeOK
    <2> SUFFICES ASSUME Init PROVE TypeOK
      OBVIOUS
    <2>1. jobs \in Seq(Clients) /\ Len(jobs) <= CommandExecutionBufferSize
      BY BufferAssumption DEF Init
    <2>2. worker \in [Workers -> WorkerStates]
      BY DEF Init, WorkerStates
    <2>3. response \in [Workers -> Responses]
      BY OutcomesAreResponses DEF Init
    <2>4. disc \in 0 .. NumConnectionsPerNode
      BY ConnectionsCounted DEF Init
    <2>5. /\ client \in [Clients -> {"idle", "sending", "waiting"}]
          /\ job \in [Workers -> Clients \cup {NoJob}]
          /\ onFailure \in [Workers -> BOOLEAN]
          /\ checker \in [Workers -> {"off", "running", "reporting", "stopped"}]
      BY DEF Init
    <2>6. rebal \in 0 .. 1
      BY DEF Init
    <2> QED
      BY <2>1, <2>2, <2>3, <2>4, <2>5, <2>6 DEF Init, TypeOK
  <1> QED
    BY <1>1, TypingStep, PTL DEF Spec

-----------------------------------------------------------------------------
(***************************************************************************)
(* No job is lost or duplicated.  JobConservation is inductive once the    *)
(* workers that serve are known to serve a client.                         *)
(***************************************************************************)
JobInv ==
    /\ JobConservation
    /\ \A w \in Workers : Serving(w) => job[w] \in Clients

(* Steps that leave the jobs, their clients and who serves them alone. *)
LEMMA JobsUntouched ==
    ASSUME JobInv, UNCHANGED <<jobs, client, job>>,
           \A w \in Workers : Serving(w)' <=> Serving(w)
    PROVE  JobInv'
  BY DEF JobInv, JobConservation, Queued

(* What the buffer holds after a send ... *)
LEMMA QueuedAfterSend ==
    ASSUME TypeOK, NEW c \in Clients, ~Queued(c), jobs' = Append(jobs, c),
           \A i, k \in 1 .. Len(jobs) : jobs[i] = jobs[k] => i = k
    PROVE  /\ \A d \in Clients : Queued(d)' <=> Queued(d) \/ d = c
           /\ (\A i, k \in 1 .. Len(jobs) : jobs[i] = jobs[k] => i = k)'
  <1>1. Len(jobs') = Len(jobs) + 1 /\ Len(jobs) \in Nat
    BY DEF TypeOK
  <1>2. \A i \in 1 .. Len(jobs') : jobs'[i] = IF i = Len(jobs) + 1 THEN c ELSE jobs[i]
    BY <1>1 DEF TypeOK
  <1>3. \A d \in Clients : Queued(d)' <=> Queued(d) \/ d = c
    BY <1>1, <1>2 DEF Queued
  <1>4. \A i, k \in 1 .. Len(jobs') : jobs'[i] = jobs'[k] => i = k
    BY <1>1, <1>2 DEF Queued
  <1> QED
    BY <1>3, <1>4

(* ... and after a receive. *)
LEMMA QueuedAfterReceive ==
    ASSUME TypeOK, jobs # <<>>, jobs' = Tail(jobs),
           \A i, k \in 1 .. Len(jobs) : jobs[i] = jobs[k] => i = k
    PROVE  /\ Head(jobs) \in Clients
           /\ Queued(Head(jobs))
           /\ \A d \in Clients : Queued(d)' <=> Queued(d) /\ d # Head(jobs)
           /\ (\A i, k \in 1 .. Len(jobs) : jobs[i] = jobs[k] => i = k)'
  <1>1. /\ Len(jobs) \in Nat \ {0}
        /\ Len(jobs') = Len(jobs) - 1
        /\ Head(jobs) = jobs[1]
        /\ Head(jobs) \in Clients
    BY DEF TypeOK
  <1>2. \A i \in 1 .. Len(jobs') : i + 1 \in 1 .. Len(jobs) /\ jobs'[i] = jobs[i + 1]
    BY <1>1 DEF TypeOK
  <1>3. Queued(Head(jobs))
    BY <1>1 DEF Queued
  <1>4. ASSUME NEW d \in Clients
        PROVE  Queued(d)' <=> Queued(d) /\ d # Head(jobs)
    <2>1. ASSUME Queued(d)' PROVE Queued(d) /\ d # Head(jobs)
      <3>1. PICK i \in 1 .. Len(jobs') : jobs'[i] = d
        BY <2>1 DEF Queued
      <3>2. i + 1 \in 1 .. Len(jobs) /\ jobs[i + 1] = d /\ i + 1 # 1
        BY <3>1, <1>1, <1>2
      <3> QED
        BY <3>2, <1>1 DEF Queued
    <2>2. ASSUME Queued(d), d # Head(jobs) PROVE Queued(d)'
      <3>1. PICK i \in 1 .. Len(jobs) : jobs[i] = d
        BY <2>2 DEF Queued
      <3>2. i - 1 \in 1 .. Len(jobs')
        BY <3>1, <2>2, <1>1
      <3>3. jobs'[i - 1] = d
        BY <3>1, <3>2, <1>1, <1>2
      <3> QED
        BY <3>2, <3>3 DEF Queued
    <2> QED
      BY <2>1, <2>2
  <1>5. \A i, k \in 1 .. Len(jobs') : jobs'[i] = jobs'[k] => i = k
    BY <1>1, <1>2
  <1> QED
    BY <1>1, <1>3, <1>4, <1>5

(* Every step preserves it. *)
LEMMA JobsStep == TypeOK /\ JobInv /\ [Next]_vars => JobInv'
  <1> SUFFICES ASSUME TypeOK, JobInv, [Next]_vars PROVE JobInv'
    OBVIOUS
  <1> USE DEF chanVars, poolVars, envVars
  <1>0. /\ worker \in [Workers -> WorkerStates]
        /\ job \in [Workers -> Clients \cup {NoJob}]
        /\ client \in [Clients -> {"idle", "sending", "waiting"}]
    BY DEF TypeOK
  <1>1. ASSUME NEW w \in Workers, Dial(w) PROVE JobInv'
    <2>1. \A v \in Workers : Serving(v)' <=> Serving(v)
      BY <1>0, <1>1 DEF Dial, Serving
    <2> QED
      BY <1>1, <2>1, JobsUntouched DEF Dial
  <1>2. CASE DialFails
    BY <1>2, JobsUntouched DEF DialFails, Serving
  <1>3. CASE StartServing
    BY <1>3, JobsUntouched DEF StartServing, Serving
  <1>4. ASSUME NEW c \in Clients, ClientRouted(c) PROVE JobInv'
    <2>1. \A d \in Clients : client'[d] = "waiting" <=> client[d] = "waiting"
      BY <1>0, <1>4 DEF ClientRouted
    <2> QED
      BY <1>4, <2>1 DEF ClientRouted, JobInv, JobConservation, Queued, Serving
  <1>5. ASSUME NEW c \in Clients, ClientSends(c) PROVE JobInv'
    <2>1. ~Queued(c) /\ \A w \in Workers : Serving(w) => job[w] # c
      BY <1>5 DEF ClientSends, JobInv, JobConservation
    <2>2. /\ \A d \in Clients : Queued(d)' <=> Queued(d) \/ d = c
          /\ (\A i, k \in 1 .. Len(jobs) : jobs[i] = jobs[k] => i = k)'
      BY <1>5, <2>1, QueuedAfterSend DEF ClientSends, JobInv, JobConservation
    <2>3. /\ UNCHANGED job
          /\ \A w \in Workers : Serving(w)' <=> Serving(w)
          /\ \A d \in Clients : client'[d] = "waiting" <=> client[d] = "waiting" \/ d = c
      BY <1>0, <1>5 DEF ClientSends, Serving
    <2> QED
      BY <2>1, <2>2, <2>3 DEF JobInv, JobConservation
  <1>6. ASSUME NEW c \in Clients, ClientPanics(c) PROVE JobInv'
    BY <1>6, JobsUntouched DEF ClientPanics, Serving
  <1>7. ASSUME NEW w \in Workers, WorkerReceives(w) PROVE JobInv'
    <2>1. /\ Head(jobs) \in Clients
          /\ Queued(Head(jobs))
          /\ \A d \in Clients : Queued(d)' <=> Queued(d) /\ d # Head(jobs)
          /\ (\A i, k \in 1 .. Len(jobs) : jobs[i] = jobs[k] => i = k)'
      BY <1>7, QueuedAfterReceive DEF WorkerReceives, JobInv, JobConservation
    <2>2. /\ UNCHANGED client
          /\ \A v \in Workers : Serving(v)' <=> Serving(v) \/ v = w
          /\ \A v \in Workers : job'[v] = IF v = w THEN Head(jobs) ELSE job[v]
      BY <1>0, <1>7 DEF WorkerReceives, Serving
    <2>3. ~Serving(w)
      BY <1>7 DEF WorkerReceives, Serving
    <2> QED
      BY <2>1, <2>2, <2>3 DEF JobInv, JobConservation
  <1>8. ASSUME NEW w \in Workers, WorkerDrained(w) PROVE JobInv'
    <2>1. \A v \in Workers : Serving(v)' <=> Serving(v)
      BY <1>0, <1>8 DEF WorkerDrained, Serving
    <2> QED
      BY <1>8, <2>1, JobsUntouched DEF WorkerDrained
  <1>9. ASSUME NEW w \in Workers, WorkerExecutes(w) PROVE JobInv'
    <2>1. \A v \in Workers : Serving(v)' <=> Serving(v)
      BY <1>0, <1>9 DEF WorkerExecutes, ExecuteHealthy, ExecuteFailed, Serving
    <2> QED
      BY <1>9, <2>1, JobsUntouched DEF WorkerExecutes
  <1>10. ASSUME NEW w \in Workers, WorkerReports(w) PROVE JobInv'
    <2>1. \A v \in Workers : Serving(v)' <=> Serving(v)
      BY <1>0, <1>10 DEF WorkerReports, Serving
    <2> QED
      BY <1>10, <2>1, JobsUntouched DEF WorkerReports
  <1>11. ASSUME NEW w \in Workers, WorkerReplies(w) PROVE JobInv'
    <2>1. Serving(w) /\ job[w] \in Clients
      BY <1>11 DEF WorkerReplies, Serving, JobInv
    <2>2. /\ UNCHANGED jobs
          /\ \A v \in Workers : Serving(v)' <=> Serving(v) /\ v # w
          /\ \A v \in Workers : v # w => job'[v] = job[v]
          /\ \A d \in Clients : client'[d] = "waiting" <=> client[d] = "waiting" /\ d # job[w]
      BY <1>0, <1>11 DEF WorkerReplies, Serving
    <2> QED
      BY <2>1, <2>2 DEF JobInv, JobConservation, Queued
  <1>12. ASSUME NEW w \in Workers, WorkerSignals(w) PROVE JobInv'
    <2>1. \A v \in Workers : Serving(v)' <=> Serving(v)
      BY <1>0, <1>12 DEF WorkerSignals, Serving
    <2> QED
      BY <1>12, <2>1, JobsUntouched DEF WorkerSignals
  <1>13. ASSUME NEW w \in Workers, WorkerExits(w) PROVE JobInv'
    <2>1. \A v \in Workers : Serving(v)' <=> Serving(v)
      BY <1>0, <1>13 DEF WorkerExits, Serving
    <2> QED
      BY <1>13, <2>1, JobsUntouched DEF WorkerExits
  <1>14. ASSUME NEW w \in Workers, CheckerFinds(w) PROVE JobInv'
    BY <1>14, JobsUntouched DEF CheckerFinds, Serving
  <1>15. ASSUME NEW w \in Workers, CheckerReports(w) PROVE JobInv'
    BY <1>15, JobsUntouched DEF CheckerReports, Serving
  <1>16. CASE ListenerReceives
    BY <1>16, JobsUntouched DEF ListenerReceives, Serving
  <1>17. CASE ListenerSignals
    BY <1>17, JobsUntouched DEF ListenerSignals, Serving
  <1>18. CASE ListenerEnds
    BY <1>18, JobsUntouched DEF ListenerEnds, Serving
  <1>19. CASE SignalPanics
    BY <1>19, JobsUntouched DEF SignalPanics, Serving
  <1>20. CASE RequestReceived
    BY <1>20, JobsUntouched DEF RequestReceived, Serving
  <1>21. CASE RebalanceVisits
    BY <1>21, JobsUntouched DEF RebalanceVisits, Serving
  <1>22. CASE OtherRebalanceVisits
    BY <1>22, JobsUntouched DEF OtherRebalanceVisits, Serving
  <1>23. CASE ShutdownTerminates
    BY <1>23, JobsUntouched DEF ShutdownTerminates, Serving
  <1>24. CASE ShutdownClosesRebalanceChannel
    BY <1>24, JobsUntouched DEF ShutdownClosesRebalanceChannel, Serving
  <1>25. CASE UNCHANGED vars
    BY <1>25, JobsUntouched DEF vars, Serving
  <1>26. CASE OtherPoolSignals
    BY <1>26, JobsUntouched DEF OtherPoolSignals, SendRebalance, Serving
  <1>27. CASE OtherLocks
    BY <1>27, JobsUntouched DEF OtherLocks, Serving
  <1>28. CASE OtherUnlocks
    BY <1>28, JobsUntouched DEF OtherUnlocks, Serving
  <1> QED
    BY <1>1, <1>2, <1>3, <1>4, <1>5, <1>6, <1>7, <1>8, <1>9, <1>10, <1>11, <1>12, <1>13,
       <1>14, <1>15, <1>16, <1>17, <1>18, <1>19, <1>20, <1>21, <1>22, <1>23, <1>24, <1>25, <1>26,
       <1>27, <1>28
    DEF Next, Create, ClientStep, WorkerStep, CheckerStep, ListenerStep, RebalanceStep,
        ShutdownStep

(* A client that waits has its job in exactly one place, and no other job   *)
(* exists: work and addJobAndWait neither lose nor duplicate a command.     *)
THEOREM JobsConserved == Spec => []JobConservation
  <1>1. Init => JobInv
    BY DEF Init, JobInv, JobConservation, Queued, Serving
  <1>2. JobInv => JobConservation
    BY DEF JobInv
  <1> QED
    BY <1>1, <1>2, TypeCorrect, JobsStep, PTL DEF Spec

-----------------------------------------------------------------------------
(***************************************************************************)
(* The life of a pool: what the marks connected and closed mean together   *)
(* with the failures of its connections.                                   *)
(***************************************************************************)
(* Whoever reports has won onFailure, so worker and checker never both do. *)
SoleReporter ==
    \A w \in Workers :
        /\ Reporting(w) => onFailure[w]
        /\ ~ (worker[w] = "report" /\ checker[w] = "reporting")

SignalsHaveCause == disc > 0 => \E w \in Workers : onFailure[w]

(* The two channels of a pool are closed together, by terminate. *)
ClosedIsDown ==
    /\ jobsClosed <=> discClosed
    /\ jobsClosed => ~connected /\ creation # "dialing"

(* A pool under construction is known to nobody. *)
DialingIsQuiet ==
    creation = "dialing" =>
        /\ jobs = <<>>
        /\ listener = "off"
        /\ rebal = 0
        /\ rebalancing \in {"no", "leaving"}
        /\ \A c \in Clients : client[c] = "idle"
        /\ \A w \in Workers :
             /\ worker[w] \in {"unborn", "receive"}
             /\ worker[w] = "unborn" => checker[w] = "off"

ConnectedIsUp == connected => creation = "up"

(* FailureIsNoticed, from the first connection on. *)
NoticedInTime ==
    (creation = "dialing" \/ connected) /\ (\E w \in Workers : onFailure[w]) =>
        disc > 0 \/ \E w \in Workers : Reporting(w)

PoolInv ==
    /\ SoleReporter
    /\ SignalsHaveCause
    /\ ClosedIsDown
    /\ DialingIsQuiet
    /\ ConnectedIsUp
    /\ NoticedInTime
    /\ DownForAReason

(* Every step preserves it. *)
LEMMA PoolStep == TypeOK /\ PoolInv /\ [Next]_vars => PoolInv'
  <1> SUFFICES ASSUME TypeOK, PoolInv, [Next]_vars PROVE PoolInv'
    OBVIOUS
  <1> USE DEF chanVars, poolVars, envVars, PoolInv, SoleReporter, SignalsHaveCause, ClosedIsDown,
          DialingIsQuiet, ConnectedIsUp, NoticedInTime, DownForAReason,
          Reporting
  <1>0. /\ worker \in [Workers -> WorkerStates]
        /\ client \in [Clients -> {"idle", "sending", "waiting"}]
        /\ onFailure \in [Workers -> BOOLEAN]
        /\ checker \in [Workers -> {"off", "running", "reporting", "stopped"}]
        /\ disc \in Nat /\ rebal \in Nat /\ connected \in BOOLEAN
        /\ jobsClosed \in BOOLEAN /\ discClosed \in BOOLEAN
    BY ConnectionsCounted DEF TypeOK
  <1>1. ASSUME NEW w \in Workers, Dial(w) PROVE PoolInv'
    BY <1>1, <1>0 DEF Dial
  <1>2. CASE DialFails
    BY <1>2, <1>0 DEF DialFails, terminate
  <1>3. CASE StartServing
    BY <1>3, <1>0 DEF StartServing
  <1>4. ASSUME NEW c \in Clients, ClientRouted(c) PROVE PoolInv'
    BY <1>4, <1>0 DEF ClientRouted
  <1>5. ASSUME NEW c \in Clients, ClientSends(c) PROVE PoolInv'
    BY <1>5, <1>0 DEF ClientSends
  <1>6. ASSUME NEW c \in Clients, ClientPanics(c) PROVE PoolInv'
    BY <1>6, <1>0 DEF ClientPanics
  <1>7. ASSUME NEW w \in Workers, WorkerReceives(w) PROVE PoolInv'
    BY <1>7, <1>0 DEF WorkerReceives
  <1>8. ASSUME NEW w \in Workers, WorkerDrained(w) PROVE PoolInv'
    BY <1>8, <1>0 DEF WorkerDrained
  <1>9. ASSUME NEW w \in Workers, WorkerExecutes(w) PROVE PoolInv'
    <2>1. CASE ExecuteHealthy(w) /\ onFailure' = onFailure
      BY <1>9, <2>1, <1>0 DEF WorkerExecutes, ExecuteHealthy
    <2>2. CASE ExecuteHealthy(w) /\ onFailure' # onFailure
      <3>1. /\ worker' = [worker EXCEPT ![w] = "report"]
            /\ onFailure' = [onFailure EXCEPT ![w] = TRUE]
        BY <2>2 DEF ExecuteHealthy
      <3> QED
        BY <1>9, <2>2, <3>1, <1>0 DEF WorkerExecutes, ExecuteHealthy
    <2>3. CASE ExecuteFailed(w)
      BY <1>9, <2>3, <1>0 DEF WorkerExecutes, ExecuteFailed
    <2> QED
      BY <1>9, <2>1, <2>2, <2>3 DEF WorkerExecutes
  <1>10. ASSUME NEW w \in Workers, WorkerReports(w) PROVE PoolInv'
    BY <1>10, <1>0 DEF WorkerReports, SendDisconnection
  <1>11. ASSUME NEW w \in Workers, WorkerReplies(w) PROVE PoolInv'
    BY <1>11, <1>0 DEF WorkerReplies
  <1>12. ASSUME NEW w \in Workers, WorkerSignals(w) PROVE PoolInv'
    BY <1>12, <1>0 DEF WorkerSignals, SendRebalance
  <1>13. ASSUME NEW w \in Workers, WorkerExits(w) PROVE PoolInv'
    BY <1>13, <1>0 DEF WorkerExits
  <1>14. ASSUME NEW w \in Workers, CheckerFinds(w) PROVE PoolInv'
    BY <1>14, <1>0 DEF CheckerFinds
  <1>15. ASSUME NEW w \in Workers, CheckerReports(w) PROVE PoolInv'
    BY <1>15, <1>0 DEF CheckerReports, SendDisconnection
  <1>16. CASE ListenerReceives
    BY <1>16, <1>0 DEF ListenerReceives
  <1>17. CASE ListenerSignals
    BY <1>17, <1>0 DEF ListenerSignals, SendRebalance
  <1>18. CASE ListenerEnds
    BY <1>18, <1>0 DEF ListenerEnds
  <1>19. CASE SignalPanics
    BY <1>19, <1>0 DEF SignalPanics
  <1>20. CASE RequestReceived
    BY <1>20, <1>0 DEF RequestReceived
  <1>21. CASE RebalanceVisits
    BY <1>21, <1>0 DEF RebalanceVisits, VisitPool, PassOver, terminate
  <1>22. CASE OtherRebalanceVisits
    BY <1>22, <1>0 DEF OtherRebalanceVisits, VisitPool, PassOver, terminate
  <1>23. CASE ShutdownTerminates
    BY <1>23, <1>0 DEF ShutdownTerminates, terminate
  <1>24. CASE ShutdownClosesRebalanceChannel
    BY <1>24, <1>0 DEF ShutdownClosesRebalanceChannel
  <1>25. CASE UNCHANGED vars
    BY <1>25, <1>0 DEF vars
  <1>26. CASE OtherPoolSignals
    BY <1>26, <1>0 DEF OtherPoolSignals, SendRebalance
  <1>27. CASE OtherLocks
    BY <1>27, <1>0 DEF OtherLocks
  <1>28. CASE OtherUnlocks
    BY <1>28, <1>0 DEF OtherUnlocks
  <1> QED
    BY <1>1, <1>2, <1>3, <1>4, <1>5, <1>6, <1>7, <1>8, <1>9, <1>10, <1>11, <1>12, <1>13,
       <1>14, <1>15, <1>16, <1>17, <1>18, <1>19, <1>20, <1>21, <1>22, <1>23, <1>24, <1>25, <1>26,
       <1>27, <1>28
    DEF Next, Create, ClientStep, WorkerStep, CheckerStep, ListenerStep, RebalanceStep,
        ShutdownStep

(* FailureIsNoticed and DownForAReason are parts of it. *)
LEMMA PoolInvariant == Spec => []PoolInv
  <1>1. Init => PoolInv
    BY DEF Init, PoolInv, SoleReporter, SignalsHaveCause, ClosedIsDown, DialingIsQuiet,
           ConnectedIsUp, NoticedInTime, DownForAReason, Reporting
  <1> QED
    BY <1>1, TypeCorrect, PoolStep, PTL DEF Spec

(* A pool is not routed to for longer than the failure of a connection      *)
(* takes to reach listenForDisconnections.                                  *)
THEOREM FailuresAreNoticed == Spec => []FailureIsNoticed
  <1>1. PoolInv => FailureIsNoticed
    BY DEF PoolInv, NoticedInTime, FailureIsNoticed
  <1> QED
    BY <1>1, PoolInvariant, PTL

(* Rebalance never meets a pool marked down whose connections all work.     *)
THEOREM DownPoolsHaveAReason == Spec => []DownForAReason
  <1>1. PoolInv => DownForAReason
    BY DEF PoolInv
  <1> QED
    BY <1>1, PoolInvariant, PTL

-----------------------------------------------------------------------------
(***************************************************************************)
(* Why reportDisconnection never blocks: every signal in the buffer was    *)
(* paid for by a connection that has none left to send.                    *)
(***************************************************************************)
Unsent == {w \in Workers : ~onFailure[w] \/ Reporting(w)}

Budget == disc + Cardinality(Unsent) <= NumConnectionsPerNode

(* There are at most as many signals to come as there are connections. *)
LEMMA UnsentCounted ==
    /\ IsFiniteSet(Unsent)
    /\ Cardinality(Unsent) \in Nat
    /\ Cardinality(Unsent) <= NumConnectionsPerNode
  BY WorkersAssumption, FS_Subset, FS_CardinalityType, Unsent \subseteq Workers
  DEF Unsent, NumConnectionsPerNode

(* A connection that delivers its signal keeps the budget. *)
LEMMA BudgetSpent ==
    ASSUME TypeOK, Budget, NEW w \in Unsent, Unsent' = Unsent \ {w}, SendDisconnection
    PROVE  Budget'
  <1>1. Cardinality(Unsent') = Cardinality(Unsent) - 1
    BY UnsentCounted, FS_RemoveElement
  <1>2. disc \in Nat /\ (disc' = disc \/ disc' = disc + 1)
    BY ConnectionsCounted DEF TypeOK, SendDisconnection
  <1> QED
    BY <1>1, <1>2, UnsentCounted, ConnectionsCounted DEF Budget

(* A step that changes neither the buffer nor the signals to come keeps it. *)
LEMMA BudgetUntouched ==
    ASSUME Budget, disc' = disc, Unsent' = Unsent
    PROVE  Budget'
  BY DEF Budget

(* Every step preserves it. *)
LEMMA BudgetStep == TypeOK /\ PoolInv /\ Budget /\ [Next]_vars => Budget'
  <1> SUFFICES ASSUME TypeOK, PoolInv, Budget, [Next]_vars PROVE Budget'
    OBVIOUS
  <1> USE DEF chanVars, poolVars, envVars
  <1>0. /\ worker \in [Workers -> WorkerStates]
        /\ onFailure \in [Workers -> BOOLEAN]
        /\ checker \in [Workers -> {"off", "running", "reporting", "stopped"}]
        /\ disc \in Nat
        /\ SoleReporter
        /\ DialingIsQuiet
    BY ConnectionsCounted DEF TypeOK, PoolInv
  <1>1. ASSUME NEW w \in Workers, Dial(w) PROVE Budget'
    BY <1>1, <1>0, BudgetUntouched DEF Dial, DialingIsQuiet, Unsent, Reporting
  <1>2. CASE DialFails
    BY <1>2, <1>0, BudgetUntouched DEF DialFails, terminate, Unsent, Reporting
  <1>3. CASE StartServing
    BY <1>3, <1>0, BudgetUntouched DEF StartServing, Unsent, Reporting
  <1>4. ASSUME NEW c \in Clients, ClientRouted(c) PROVE Budget'
    BY <1>4, <1>0, BudgetUntouched DEF ClientRouted, Unsent, Reporting
  <1>5. ASSUME NEW c \in Clients, ClientSends(c) PROVE Budget'
    BY <1>5, <1>0, BudgetUntouched DEF ClientSends, Unsent, Reporting
  <1>6. ASSUME NEW c \in Clients, ClientPanics(c) PROVE Budget'
    BY <1>6, <1>0, BudgetUntouched DEF ClientPanics, Unsent, Reporting
  <1>7. ASSUME NEW w \in Workers, WorkerReceives(w) PROVE Budget'
    BY <1>7, <1>0, BudgetUntouched DEF WorkerReceives, Unsent, Reporting
  <1>8. ASSUME NEW w \in Workers, WorkerDrained(w) PROVE Budget'
    BY <1>8, <1>0, BudgetUntouched DEF WorkerDrained, Unsent, Reporting
  <1>9. ASSUME NEW w \in Workers, WorkerExecutes(w) PROVE Budget'
    BY <1>9, <1>0, BudgetUntouched DEF WorkerExecutes, ExecuteHealthy, ExecuteFailed, Unsent, Reporting
  <1>10. ASSUME NEW w \in Workers, WorkerReports(w) PROVE Budget'
    <2>1. w \in Unsent /\ Unsent' = Unsent \ {w}
      BY <1>10, <1>0 DEF WorkerReports, SoleReporter, Unsent, Reporting
    <2> QED
      BY <1>10, <2>1, BudgetSpent DEF WorkerReports
  <1>11. ASSUME NEW w \in Workers, WorkerReplies(w) PROVE Budget'
    BY <1>11, <1>0, BudgetUntouched DEF WorkerReplies, Unsent, Reporting
  <1>12. ASSUME NEW w \in Workers, WorkerSignals(w) PROVE Budget'
    BY <1>12, <1>0, BudgetUntouched DEF WorkerSignals, SendRebalance, Unsent, Reporting
  <1>13. ASSUME NEW w \in Workers, WorkerExits(w) PROVE Budget'
    BY <1>13, <1>0, BudgetUntouched DEF WorkerExits, Unsent, Reporting
  <1>14. ASSUME NEW w \in Workers, CheckerFinds(w) PROVE Budget'
    BY <1>14, <1>0, BudgetUntouched DEF CheckerFinds, Unsent, Reporting
  <1>15. ASSUME NEW w \in Workers, CheckerReports(w) PROVE Budget'
    <2>1. w \in Unsent /\ Unsent' = Unsent \ {w}
      BY <1>15, <1>0 DEF CheckerReports, SoleReporter, Unsent, Reporting
    <2> QED
      BY <1>15, <2>1, BudgetSpent DEF CheckerReports
  <1>16. CASE ListenerReceives
    <2>1. Unsent' = Unsent /\ disc' = disc - 1
      BY <1>16 DEF ListenerReceives, Unsent, Reporting
    <2> QED
      BY <2>1, <1>0, UnsentCounted, ConnectionsCounted DEF Budget
  <1>17. CASE ListenerSignals
    BY <1>17, <1>0, BudgetUntouched DEF ListenerSignals, SendRebalance, Unsent, Reporting
  <1>18. CASE ListenerEnds
    BY <1>18, <1>0, BudgetUntouched DEF ListenerEnds, Unsent, Reporting
  <1>19. CASE SignalPanics
    BY <1>19, <1>0, BudgetUntouched DEF SignalPanics, Unsent, Reporting
  <1>20. CASE RequestReceived
    BY <1>20, <1>0, BudgetUntouched DEF RequestReceived, Unsent, Reporting
  <1>21. CASE RebalanceVisits
    BY <1>21, <1>0, BudgetUntouched DEF RebalanceVisits, VisitPool, PassOver, terminate, Unsent, Reporting
  <1>22. CASE OtherRebalanceVisits
    BY <1>22, <1>0, BudgetUntouched DEF OtherRebalanceVisits, VisitPool, PassOver, terminate, Unsent, Reporting
  <1>23. CASE ShutdownTerminates
    BY <1>23, <1>0, BudgetUntouched DEF ShutdownTerminates, terminate, Unsent, Reporting
  <1>24. CASE ShutdownClosesRebalanceChannel
    BY <1>24, <1>0, BudgetUntouched DEF ShutdownClosesRebalanceChannel, Unsent, Reporting
  <1>25. CASE UNCHANGED vars
    BY <1>25, <1>0, BudgetUntouched DEF vars, Unsent, Reporting
  <1>26. CASE OtherPoolSignals
    BY <1>26, <1>0, BudgetUntouched DEF OtherPoolSignals, SendRebalance, Unsent, Reporting
  <1>27. CASE OtherLocks
    BY <1>27, <1>0, BudgetUntouched DEF OtherLocks, Unsent, Reporting
  <1>28. CASE OtherUnlocks
    BY <1>28, <1>0, BudgetUntouched DEF OtherUnlocks, Unsent, Reporting
  <1> QED
    BY <1>1, <1>2, <1>3, <1>4, <1>5, <1>6, <1>7, <1>8, <1>9, <1>10, <1>11, <1>12, <1>13,
       <1>14, <1>15, <1>16, <1>17, <1>18, <1>19, <1>20, <1>21, <1>22, <1>23, <1>24, <1>25, <1>26,
       <1>27, <1>28
    DEF Next, Create, ClientStep, WorkerStep, CheckerStep, ListenerStep, RebalanceStep,
        ShutdownStep

(* TestConcurrentDisconnectionDoesNotBlock for every number of connections: *)
(* reportDisconnection always finds room in nw.disconnectionChannel.        *)
THEOREM ReportsNeverBlock == Spec => []ReportNeverBlocks
  <1>1. Init => Budget
    <2>1. Init => disc = 0
      BY DEF Init
    <2> QED
      BY <2>1, UnsentCounted, ConnectionsCounted DEF Budget
  <1>2. TypeOK /\ Budget => ReportNeverBlocks
    <2> SUFFICES ASSUME TypeOK, Budget, NEW w \in Workers, Reporting(w)
                 PROVE  disc < NumConnectionsPerNode
      BY DEF ReportNeverBlocks
    <2>1. w \in Unsent
      BY DEF Unsent
    <2>2. Cardinality(Unsent) # 0
      BY <2>1, UnsentCounted, FS_EmptySet
    <2> QED
      BY <2>2, UnsentCounted, ConnectionsCounted DEF Budget, TypeOK
  <1> QED
    BY <1>1, <1>2, TypeCorrect, PoolInvariant, BudgetStep, PTL DEF Spec

-----------------------------------------------------------------------------
(***************************************************************************)
(* The pool implements CallService.                                        *)
(***************************************************************************)
callMap == [c \in Clients |-> CallStage(c)]
alive == panicked = "no"

(* What a simulated step has to be. *)
Simulated == Service!Next \/ UNCHANGED <<callMap, alive>>

LEMMA SimulatedIsEnough == Simulated => [Service!Next]_(Service!vars)
  BY DEF Simulated, Service!vars, callMap, alive

(* A step that neither starts nor ends a call, nor serves one, is a stutter. *)
LEMMA CallsUntouched ==
    ASSUME UNCHANGED panicked,
           \A c \in Clients : client'[c] = "idle" <=> client[c] = "idle",
           \A c \in Clients : Served(c)' <=> Served(c)
    PROVE  Simulated
  <1>1. \A c \in Clients : CallStage(c)' = CallStage(c)
    BY DEF CallStage
  <1> QED
    BY <1>1 DEF Simulated, callMap, alive

(* A step that moves one call of a living process from one stage to the next. *)
LEMMA CallMoved ==
    ASSUME NEW c \in Clients, panicked = "no", UNCHANGED panicked,
           \A d \in Clients : d # c => CallStage(d)' = CallStage(d),
           \/ CallStage(c) = "idle" /\ CallStage(c)' = "pending"
           \/ CallStage(c) = "pending" /\ CallStage(c)' = "served"
           \/ CallStage(c) = "served" /\ CallStage(c)' = "idle"
    PROVE  Simulated
  <1>1. callMap' = [callMap EXCEPT ![c] = CallStage(c)']
    BY DEF callMap
  <1>2. callMap[c] = CallStage(c)
    BY DEF callMap
  <1> QED
    BY <1>1, <1>2 DEF Simulated, Service!Next, Service!Call, Service!Serve, Service!Return,
       Service!Move, callMap, alive

(* Every step of the pool is a step of the service or a stutter. *)
LEMMA SimulationStep ==
    TypeOK /\ JobInv /\ [Next]_vars => [Service!Next]_(Service!vars)
  <1> SUFFICES ASSUME TypeOK, JobInv, [Next]_vars PROVE Simulated
    BY SimulatedIsEnough
  <1> USE DEF chanVars, poolVars, envVars
  <1>0. /\ worker \in [Workers -> WorkerStates]
        /\ job \in [Workers -> Clients \cup {NoJob}]
        /\ client \in [Clients -> {"idle", "sending", "waiting"}]
    BY DEF TypeOK
  <1>00. panicked = "no" \/ UNCHANGED vars
    BY DEF Next
  <1>1. ASSUME NEW w \in Workers, Dial(w) PROVE Simulated
    BY <1>1, <1>0, CallsUntouched DEF Dial, Served
  <1>2. CASE DialFails
    BY <1>2, <1>0, CallsUntouched DEF DialFails, terminate, Served
  <1>3. CASE StartServing
    BY <1>3, <1>0, CallsUntouched DEF StartServing, Served
  <1>4. ASSUME NEW c \in Clients, ClientRouted(c) PROVE Simulated
    <2>1. ~Served(c) /\ ~Served(c)'
      BY <1>4 DEF ClientRouted, JobInv, JobConservation, Served, Serving
    <2>2. /\ client[c] = "idle" /\ client'[c] # "idle"
          /\ \A d \in Clients : d # c => client'[d] = client[d]
          /\ \A d \in Clients : Served(d)' <=> Served(d)
          /\ UNCHANGED panicked
      BY <1>0, <1>4 DEF ClientRouted, Served
    <2>3. \A d \in Clients : d # c => CallStage(d)' = CallStage(d)
      BY <2>2 DEF CallStage
    <2>4. CallStage(c) = "idle" /\ CallStage(c)' = "pending"
      BY <2>1, <2>2 DEF CallStage
    <2> QED
      BY <1>00, <2>2, <2>3, <2>4, CallMoved DEF vars
  <1>5. ASSUME NEW c \in Clients, ClientSends(c) PROVE Simulated
    BY <1>5, <1>0, CallsUntouched DEF ClientSends, Served
  <1>6. ASSUME NEW c \in Clients, ClientPanics(c) PROVE Simulated
    <2>1. UNCHANGED callMap
      BY <1>6 DEF ClientPanics, callMap, CallStage, Served
    <2> QED
      BY <1>6, <1>00, <2>1 DEF ClientPanics, Simulated, Service!Next, Service!Die,
         callMap, alive, vars
  <1>7. ASSUME NEW w \in Workers, WorkerReceives(w) PROVE Simulated
    BY <1>7, <1>0, CallsUntouched DEF WorkerReceives, Served
  <1>8. ASSUME NEW w \in Workers, WorkerDrained(w) PROVE Simulated
    BY <1>8, <1>0, CallsUntouched DEF WorkerDrained, Served
  <1>9. ASSUME NEW w \in Workers, WorkerExecutes(w) PROVE Simulated
    <2>0. PICK c \in Clients : c = job[w]
      BY <1>9 DEF WorkerExecutes, JobInv, Serving
    <2>1. client[c] = "waiting" /\ ~Served(c)
      BY <1>9, <2>0 DEF WorkerExecutes, JobInv, JobConservation, Served, Serving
    <2>2. /\ UNCHANGED <<client, job, panicked>>
          /\ worker'[w] \in {"report", "reply"} /\ worker[w] = "execute"
          /\ \A v \in Workers : v # w => worker'[v] = worker[v]
      BY <1>0, <1>9 DEF WorkerExecutes, ExecuteHealthy, ExecuteFailed
    <2>3. Served(c)' /\ \A d \in Clients : d # c => (Served(d)' <=> Served(d))
      BY <2>0, <2>2 DEF Served
    <2>4. \A d \in Clients : d # c => CallStage(d)' = CallStage(d)
      BY <2>2, <2>3 DEF CallStage
    <2>5. CallStage(c) = "pending" /\ CallStage(c)' = "served"
      BY <2>1, <2>2, <2>3 DEF CallStage
    <2> QED
      BY <1>00, <1>9, <2>1, <2>2, <2>4, <2>5, CallMoved DEF vars
  <1>10. ASSUME NEW w \in Workers, WorkerReports(w) PROVE Simulated
    BY <1>10, <1>0, CallsUntouched DEF WorkerReports, SendDisconnection, Served
  <1>11. ASSUME NEW w \in Workers, WorkerReplies(w) PROVE Simulated
    <2>0. PICK c \in Clients : c = job[w]
      BY <1>11 DEF WorkerReplies, JobInv, Serving
    <2>1. client[c] = "waiting" /\ Served(c)
      BY <1>11, <2>0 DEF WorkerReplies, Served
    <2>2. /\ UNCHANGED panicked
          /\ client'[c] = "idle"
          /\ \A d \in Clients : d # c => client'[d] = client[d]
          /\ worker[w] = "reply" /\ worker'[w] \notin {"report", "reply"}
          /\ \A v \in Workers : v # w => worker'[v] = worker[v] /\ job'[v] = job[v]
      BY <1>0, <1>11, <2>0 DEF WorkerReplies
    <2>3. \A d \in Clients : d # c => (Served(d)' <=> Served(d))
      BY <2>0, <2>2 DEF Served
    <2>4. \A d \in Clients : d # c => CallStage(d)' = CallStage(d)
      BY <2>2, <2>3 DEF CallStage
    <2>5. CallStage(c) = "served" /\ CallStage(c)' = "idle"
      BY <2>1, <2>2 DEF CallStage
    <2> QED
      BY <1>00, <1>11, <2>1, <2>2, <2>4, <2>5, CallMoved DEF vars
  <1>12. ASSUME NEW w \in Workers, WorkerSignals(w) PROVE Simulated
    BY <1>12, <1>0, CallsUntouched DEF WorkerSignals, SendRebalance, Served
  <1>13. ASSUME NEW w \in Workers, WorkerExits(w) PROVE Simulated
    BY <1>13, <1>0, CallsUntouched DEF WorkerExits, Served
  <1>14. ASSUME NEW w \in Workers, CheckerFinds(w) PROVE Simulated
    BY <1>14, <1>0, CallsUntouched DEF CheckerFinds, Served
  <1>15. ASSUME NEW w \in Workers, CheckerReports(w) PROVE Simulated
    BY <1>15, <1>0, CallsUntouched DEF CheckerReports, SendDisconnection, Served
  <1>16. CASE ListenerReceives
    BY <1>16, <1>0, CallsUntouched DEF ListenerReceives, Served
  <1>17. CASE ListenerSignals
    BY <1>17, <1>0, CallsUntouched DEF ListenerSignals, SendRebalance, Served
  <1>18. CASE ListenerEnds
    BY <1>18, <1>0, CallsUntouched DEF ListenerEnds, Served
  <1>19. CASE SignalPanics
    <2>1. UNCHANGED callMap
      BY <1>19 DEF SignalPanics, callMap, CallStage, Served
    <2> QED
      BY <1>19, <1>00, <2>1 DEF SignalPanics, Simulated, Service!Next, Service!Die,
         callMap, alive, vars
  <1>20. CASE RequestReceived
    BY <1>20, <1>0, CallsUntouched DEF RequestReceived, Served
  <1>21. CASE RebalanceVisits
    BY <1>21, <1>0, CallsUntouched DEF RebalanceVisits, VisitPool, PassOver, terminate, Served
  <1>22. CASE OtherRebalanceVisits
    BY <1>22, <1>0, CallsUntouched DEF OtherRebalanceVisits, VisitPool, PassOver, terminate, Served
  <1>23. CASE ShutdownTerminates
    BY <1>23, <1>0, CallsUntouched DEF ShutdownTerminates, terminate, Served
  <1>24. CASE ShutdownClosesRebalanceChannel
    BY <1>24, <1>0, CallsUntouched DEF ShutdownClosesRebalanceChannel, Served
  <1>25. CASE UNCHANGED vars
    BY <1>25, <1>0, CallsUntouched DEF vars, Served
  <1>26. CASE OtherPoolSignals
    BY <1>26, <1>0, CallsUntouched DEF OtherPoolSignals, SendRebalance, Served
  <1>27. CASE OtherLocks
    BY <1>27, <1>0, CallsUntouched DEF OtherLocks, Served
  <1>28. CASE OtherUnlocks
    BY <1>28, <1>0, CallsUntouched DEF OtherUnlocks, Served
  <1> QED
    BY <1>1, <1>2, <1>3, <1>4, <1>5, <1>6, <1>7, <1>8, <1>9, <1>10, <1>11, <1>12, <1>13,
       <1>14, <1>15, <1>16, <1>17, <1>18, <1>19, <1>20, <1>21, <1>22, <1>23, <1>24, <1>25, <1>26,
       <1>27, <1>28
    DEF Next, Create, ClientStep, WorkerStep, CheckerStep, ListenerStep, RebalanceStep,
        ShutdownStep

(* Every call is executed at most once, and returns only after it was, with *)
(* its own response: the pool implements CallService.                       *)
THEOREM PoolServesCallsOnce == Spec => ServesCallsOnce
  <1>1. Init => Service!Init
    BY DEF Init, Service!Init, CallStage
  <1>2. Init => JobInv
    BY DEF Init, JobInv, JobConservation, Queued, Serving
  <1> QED
    BY <1>1, <1>2, TypeCorrect, JobsStep, SimulationStep, PTL
    DEF Spec, ServesCallsOnce, Service!Spec
=============================================================================
