------------------------ MODULE EngineServiceProofs ------------------------
(***************************************************************************)
(* Proofs about the engine service, for any runs, commands, settings, bars *)
(* and number of queued runs: how the reader's and the worker's sections   *)
(* keep the queue, the kill switch and the answers consistent.             *)
(***************************************************************************)
EXTENDS EngineService, WellFoundedInduction, SequenceTheorems, FiniteSetTheorems, TLAPS

States == {"none", "queued", "running"} \cup Finished

(* A run in the queue is queued, waits once, and the worker has not got    *)
(* it; a queued run is in the queue, or the worker has it and has not      *)
(* begun it.                                                               *)
Waiting ==
    /\ queue \in Seq(Runs)
    /\ \A i \in DOMAIN queue : runState[queue[i]] = "queued" /\ queue[i] # current
    /\ \A i, j \in DOMAIN queue : queue[i] = queue[j] => i = j
    /\ \A r \in Runs : runState[r] = "queued" =>
          (r = current /\ worker \in {"setup", "close"}) \/ PlacesOf(r) # {}

(* The worker runs at most its current run, and knows how it ended before  *)
(* it closes it.                                                           *)
Executing ==
    /\ runState \in [Runs -> States]
    /\ current \in Runs \cup {None}
    /\ current # None => runState[current] # "none"
    /\ current = None <=> worker \in {"idle", "exited"}
    /\ worker \in {"take_back", "close"} => outcome \in Finished
    /\ \A r \in Runs : runState[r] = "running" =>
          r = current /\ worker \in {"replay", "instant", "take_back", "close"}

(* Room for the run being executed is counted from the day it is queued.   *)
Room == Len(queue) + (IF current # None THEN 1 ELSE 0) <= MaxQueued

Switched ==
    /\ lent \in Runs \cup {None}
    /\ kill = [r \in Runs |-> kill[r]]
    /\ KillSwitchObeyed

(* A stop that nothing has answered is the one its running run remembers.  *)
Owed ==
    /\ asked = [r \in Runs |-> asked[r]]
    /\ stopCommand = [r \in Runs |-> stopCommand[r]]
    /\ \A r \in Runs : asked[r] \notin answered \cup {None} =>
          runState[r] = "running" /\ stopCommand[r] = asked[r]

ServiceInv == Waiting /\ Executing /\ Room /\ Switched /\ Owed

(* What the invariant speaks of.                                           *)
serviceVars == <<runState, stopCommand, kill, lent, riskKill, queue, current, worker, outcome,
                 answered, asked>>

LEMMA Unchanged ==
  ASSUME ServiceInv, UNCHANGED serviceVars
  PROVE  ServiceInv'
BY DEF ServiceInv, Waiting, Executing, Room, Switched, KillSwitchObeyed, Owed, PlacesOf,
       serviceVars

(* Taking one element out of a sequence.                                   *)
LEMMA RemoveAtShifts ==
  ASSUME NEW S, NEW s \in Seq(S), NEW i \in DOMAIN s
  PROVE  /\ RemoveAt(s, i) \in Seq(S)
         /\ Len(RemoveAt(s, i)) = Len(s) - 1
         /\ \A j \in 1 .. Len(s) - 1 :
               RemoveAt(s, i)[j] = s[IF j < i THEN j ELSE j + 1]
<1> DEFINE front == SubSeq(s, 1, i - 1)
           back == SubSeq(s, i + 1, Len(s))
<1>1. i \in 1 .. Len(s) /\ Len(s) \in Nat
  OBVIOUS
<1>2. /\ front \in Seq(S) /\ Len(front) = i - 1
      /\ \A j \in 1 .. i - 1 : front[j] = s[j]
  BY <1>1, SubSeqProperties, Z3
<1>3. /\ back \in Seq(S) /\ Len(back) = Len(s) - i
      /\ \A j \in 1 .. Len(s) - i : back[j] = s[i + j]
  BY <1>1, SubSeqProperties, Z3
<1>4. RemoveAt(s, i) = front \o back
  BY DEF RemoveAt
<1> DEFINE joined == front \o back
<1>5. /\ joined \in Seq(S)
      /\ Len(joined) = Len(front) + Len(back)
      /\ \A j \in 1 .. Len(front) + Len(back) :
            joined[j] = IF j <= Len(front) THEN front[j] ELSE back[j - Len(front)]
  BY <1>2, <1>3, ConcatProperties
<1> HIDE DEF front, back, joined
<1>6. Len(joined) = Len(s) - 1
  BY <1>1, <1>2, <1>3, <1>5
<1>7. ASSUME NEW j \in 1 .. Len(s) - 1
      PROVE  joined[j] = s[IF j < i THEN j ELSE j + 1]
  <2>0. j \in 1 .. Len(front) + Len(back)
    BY <1>1, <1>2, <1>3
  <2>1. CASE j < i
    <3>1. j <= Len(front) /\ j \in 1 .. i - 1
      BY <1>1, <1>2, <2>1
    <3>2. joined[j] = front[j]
      BY <1>5, <2>0, <3>1
    <3>3. QED
      BY <1>2, <2>1, <3>1, <3>2
  <2>2. CASE ~(j < i)
    <3>1. /\ ~(j <= Len(front)) /\ j - Len(front) \in 1 .. Len(s) - i
          /\ i + (j - Len(front)) = j + 1
      BY <1>1, <1>2, <2>2
    <3>2. joined[j] = back[j - Len(front)]
      BY <1>5, <2>0, <3>1
    <3>3. QED
      BY <1>3, <2>2, <3>1, <3>2
  <2>3. QED
    BY <2>1, <2>2
<1>8. RemoveAt(s, i) = joined
  BY <1>4 DEF joined
<1>9. QED
  BY <1>5, <1>6, <1>7, <1>8

(* Nothing is queued, running or asked for at first.                       *)
LEMMA InitHolds ==
  ASSUME Init
  PROVE  ServiceInv
<1>1. Waiting
  BY DEF Init, Waiting, PlacesOf
<1>2. Executing
  BY DEF Init, Executing, States, Finished
<1>3. Room
  BY ServiceAssumption DEF Init, Room
<1>4. Switched /\ Owed
  BY DEF Init, Switched, KillSwitchObeyed, Owed
<1>5. QED
  BY <1>1, <1>2, <1>3, <1>4 DEF ServiceInv

-----------------------------------------------------------------------------
(* The reader: handle(), branch by branch.                                 *)

LEMMA StartKeeps ==
  ASSUME ServiceInv, NEW c, RefuseStart(c) \/ QueueRun(c), UNCHANGED <<current, worker, outcome>>
  PROVE  ServiceInv'
<1> USE DEF ServiceInv
<1>1. /\ c.run \in Runs /\ runState[c.run] = "none"
      /\ UNCHANGED <<stopCommand, kill, lent, riskKill, asked, current, worker, outcome>>
      /\ answered' = answered \cup {c.id}
  BY DEF RefuseStart, QueueRun, NewRun, StateOf, riskVars, Answer
<1>2. \/ /\ runState' = [runState EXCEPT ![c.run] = "failed"] /\ queue' = queue
      \/ /\ runState' = [runState EXCEPT ![c.run] = "queued"]
         /\ queue' = Append(queue, c.run) /\ ~QueueFull
  <2>1. Refusal(c) = None => ~QueueFull
    BY ServiceAssumption DEF Refusal
  <2>2. QED
    BY <2>1 DEF RefuseStart, QueueRun
<1>3. Executing'
  BY <1>1, <1>2 DEF Executing, States, Finished
<1>4. Switched'
  BY <1>1 DEF Switched, KillSwitchObeyed
<1>5. Owed'
  BY <1>1, <1>2 DEF Owed, Executing
<1>6. \A i \in DOMAIN queue : queue[i] \in Runs /\ queue[i] # c.run
  BY <1>1 DEF Waiting
<1>7. CASE queue' = queue
  <2>1. runState' = [runState EXCEPT ![c.run] = "failed"] \/ PlacesOf(c.run)' # {}
    BY <1>2, <1>7, AppendProperties DEF Waiting
  <2>2. Waiting'
    BY <1>1, <1>2, <1>6, <1>7 DEF Waiting, Executing, PlacesOf
  <2>3. QED
    BY <1>1, <1>3, <1>4, <1>5, <1>7, <2>2 DEF Room
<1>8. CASE /\ runState' = [runState EXCEPT ![c.run] = "queued"]
           /\ queue' = Append(queue, c.run) /\ ~QueueFull
  <2>1. /\ queue' \in Seq(Runs) /\ Len(queue') = Len(queue) + 1
        /\ \A i \in 1 .. Len(queue) : queue'[i] = queue[i]
        /\ queue'[Len(queue) + 1] = c.run
        /\ DOMAIN queue = 1 .. Len(queue) /\ DOMAIN queue' = 1 .. Len(queue) + 1
        /\ Len(queue) \in Nat
    BY <1>1, <1>8, AppendProperties DEF Waiting
  <2>2. \A i \in DOMAIN queue' : runState'[queue'[i]] = "queued"
    BY <1>1, <1>6, <1>8, <2>1 DEF Waiting, Executing
  <2>3. \A i, j \in DOMAIN queue' : queue'[i] = queue'[j] => i = j
    BY <1>1, <1>6, <2>1 DEF Waiting
  <2>4. \A r \in Runs : PlacesOf(r) # {} => PlacesOf(r)' # {}
    BY <2>1 DEF PlacesOf
  <2>5. PlacesOf(c.run)' # {}
    BY <2>1 DEF PlacesOf
  <2>6. Waiting'
    <3>1. \A i \in DOMAIN queue' : queue'[i] # current'
      BY <1>1, <2>1, ServiceAssumption DEF Waiting, Executing
    <3>2. ASSUME NEW r \in Runs, runState'[r] = "queued"
          PROVE  (r = current' /\ worker' \in {"setup", "close"}) \/ PlacesOf(r)' # {}
      BY <1>1, <1>8, <2>4, <2>5, <3>2 DEF Waiting, Executing
    <3>3. QED
      BY <2>1, <2>2, <2>3, <3>1, <3>2 DEF Waiting
  <2>7. Room'
    BY <1>1, <1>8, <2>1, ServiceAssumption DEF Room, QueueFull
  <2>8. QED
    BY <1>3, <1>4, <1>5, <2>6, <2>7
<1>9. QED
  BY <1>2, <1>7, <1>8

LEMMA StopQueuedKeeps ==
  ASSUME ServiceInv, NEW c, StopQueued(c), UNCHANGED <<current, worker, outcome>>
  PROVE  ServiceInv'
<1> USE DEF ServiceInv
<1>1. /\ c.run \in Runs /\ runState[c.run] = "queued"
      /\ runState' = [runState EXCEPT ![c.run] = "stopped"]
      /\ asked' = [asked EXCEPT ![c.run] = c.id] /\ answered' = answered \cup {c.id}
      /\ UNCHANGED <<stopCommand, kill, lent, riskKill, current, worker, outcome>>
  BY DEF StopQueued, StateOf, riskVars, Answer
<1>2. Executing'
  BY <1>1 DEF Executing, States, Finished
<1>3. Switched'
  BY <1>1 DEF Switched, KillSwitchObeyed
<1>4. Owed'
  BY <1>1 DEF Owed, Executing
<1>5. CASE PlacesOf(c.run) = {}
  <2>1. queue' = queue
    BY <1>5 DEF StopQueued
  <2>2. Waiting'
    BY <1>1, <1>5, <2>1 DEF Waiting, Executing, PlacesOf
  <2>3. QED
    BY <1>1, <1>2, <1>3, <1>4, <2>1, <2>2 DEF Room
<1>6. CASE PlacesOf(c.run) # {}
  <2>1. PICK i \in DOMAIN queue : queue[i] = c.run /\ queue' = RemoveAt(queue, i)
    BY <1>6 DEF StopQueued, PlacesOf
  <2>2. /\ queue' \in Seq(Runs) /\ Len(queue') = Len(queue) - 1
        /\ \A j \in 1 .. Len(queue) - 1 : queue'[j] = queue[IF j < i THEN j ELSE j + 1]
    BY <2>1, RemoveAtShifts DEF Waiting
  <2>3. /\ DOMAIN queue = 1 .. Len(queue) /\ DOMAIN queue' = 1 .. Len(queue) - 1
        /\ Len(queue) \in Nat /\ i \in 1 .. Len(queue)
    BY <2>1, <2>2 DEF Waiting
  <2>4. \A j \in DOMAIN queue' :
           /\ (IF j < i THEN j ELSE j + 1) \in DOMAIN queue
           /\ (IF j < i THEN j ELSE j + 1) # i
    BY <2>3
  <2>5. \A j \in DOMAIN queue' : queue'[j] \in Runs /\ queue'[j] # c.run
    BY <2>1, <2>2, <2>3, <2>4 DEF Waiting
  <2>6. \A j \in DOMAIN queue' : runState'[queue'[j]] = "queued"
    BY <1>1, <2>2, <2>3, <2>4, <2>5 DEF Waiting, Executing
  <2>7. \A j, k \in DOMAIN queue' : queue'[j] = queue'[k] => j = k
    BY <2>2, <2>3, <2>4 DEF Waiting
  <2>8. ASSUME NEW r \in Runs, r # c.run, PlacesOf(r) # {}
        PROVE  PlacesOf(r)' # {}
    <3>1. PICK j \in DOMAIN queue : queue[j] = r /\ j # i
      BY <2>1, <2>8 DEF PlacesOf
    <3>2. PICK k \in DOMAIN queue' : (IF k < i THEN k ELSE k + 1) = j
      <4>1. CASE j < i
        BY <2>3, <3>1, <4>1
      <4>2. CASE ~(j < i)
        <5>1. j - 1 \in DOMAIN queue' /\ ~(j - 1 < i) /\ (j - 1) + 1 = j
          BY <2>3, <3>1, <4>2
        <5>2. QED
          BY <5>1
      <4>3. QED
        BY <4>1, <4>2
    <3>3. queue'[k] = r
      BY <2>2, <2>3, <3>1, <3>2
    <3>4. QED
      BY <3>3 DEF PlacesOf
  <2>9. Waiting'
    <3>1. \A j \in DOMAIN queue' : queue'[j] # current'
      BY <1>1, <2>2, <2>3, <2>4 DEF Waiting
    <3>2. ASSUME NEW r \in Runs, runState'[r] = "queued"
          PROVE  (r = current' /\ worker' \in {"setup", "close"}) \/ PlacesOf(r)' # {}
      <4>1. r # c.run /\ runState[r] = "queued"
        BY <1>1, <3>2 DEF Executing
      <4>2. QED
        BY <1>1, <2>8, <4>1 DEF Waiting
    <3>3. QED
      BY <2>2, <2>6, <2>7, <3>1, <3>2 DEF Waiting
  <2>10. Room'
    BY <1>1, <2>2, <2>3, ServiceAssumption DEF Room
  <2>11. QED
    BY <1>2, <1>3, <1>4, <2>9, <2>10
<1>7. QED
  BY <1>5, <1>6

LEMMA StopRunningKeeps ==
  ASSUME ServiceInv, NEW c, StopRunning(c), UNCHANGED <<current, worker, outcome>>
  PROVE  ServiceInv'
<1> USE DEF ServiceInv
<1>1. /\ c.run \in Runs /\ runState[c.run] = "running"
      /\ asked' = [asked EXCEPT ![c.run] = c.id]
      /\ stopCommand' = [stopCommand EXCEPT ![c.run] = c.id]
      /\ UNCHANGED <<runState, kill, lent, riskKill, queue, current, worker, outcome, answered>>
  BY DEF StopRunning, StateOf, riskVars
<1>2. Waiting' /\ Executing' /\ Room' /\ Switched'
  BY <1>1 DEF Waiting, Executing, Room, Switched, KillSwitchObeyed, PlacesOf
<1>3. Owed'
  BY <1>1 DEF Owed
<1>4. QED
  BY <1>2, <1>3

LEMMA SetKillSwitchKeeps ==
  ASSUME ServiceInv, NEW c, SetKillSwitch(c),
         UNCHANGED <<current, worker, outcome>>
  PROVE  ServiceInv'
<1> USE DEF ServiceInv
<1>1. /\ c.run \in Runs
      /\ kill' = [kill EXCEPT ![c.run] = c.engaged]
      /\ riskKill' = IF lent = c.run THEN c.engaged ELSE riskKill
      /\ answered' = answered \cup {c.id}
      /\ UNCHANGED <<runState, stopCommand, lent, queue, current, worker, outcome, asked>>
  BY DEF SetKillSwitch, StateOf, Answer
<1>2. Waiting' /\ Executing' /\ Room'
  BY <1>1 DEF Waiting, Executing, Room, PlacesOf
<1>3. Owed'
  BY <1>1 DEF Owed
<1>4. Switched'
  BY <1>1 DEF Switched, KillSwitchObeyed
<1>5. QED
  BY <1>2, <1>3, <1>4

LEMMA HandleKeeps ==
  ASSUME ServiceInv, NEW c, Handle(c)
  PROVE  ServiceInv'
<1>1. UNCHANGED <<current, worker, outcome>>
  BY DEF Handle, workerVars
<1>2. CASE IgnoreStart(c) \/ IgnoreUnknown(c)
  BY <1>1, <1>2, Unchanged
  DEF IgnoreStart, IgnoreUnknown, runVars, riskVars, histories, serviceVars
<1>3. CASE RefuseFinished(c)
  <2>1. /\ answered' = answered \cup {c.id}
        /\ UNCHANGED <<runState, stopCommand, kill, lent, riskKill, queue, asked>>
    BY <1>3 DEF RefuseFinished, Answer, runVars, riskVars
  <2>2. Waiting' /\ Executing' /\ Room' /\ Switched'
    BY <1>1, <2>1
    DEF ServiceInv, Waiting, Executing, Room, Switched, KillSwitchObeyed, PlacesOf
  <2>3. Owed'
    BY <2>1 DEF ServiceInv, Owed
  <2>4. QED
    BY <2>2, <2>3 DEF ServiceInv
<1>4. QED
  BY <1>1, <1>2, <1>3, StartKeeps, StopQueuedKeeps, StopRunningKeeps, SetKillSwitchKeeps
  DEF Handle

-----------------------------------------------------------------------------
(* The worker, and what is left of stop().                                 *)

LEMMA TakeRunKeeps ==
  ASSUME ServiceInv, TakeRun
  PROVE  ServiceInv'
<1> USE DEF ServiceInv
<1>1. /\ worker = "idle" /\ current = None /\ queue # <<>>
      /\ current' = Head(queue) /\ queue' = Tail(queue) /\ worker' = "setup"
      /\ UNCHANGED <<runState, stopCommand, kill, lent, riskKill, outcome, answered, asked>>
  BY DEF TakeRun, Executing, runVars, riskVars, histories
<1>2. /\ Len(queue) \in Nat \ {0} /\ DOMAIN queue = 1 .. Len(queue)
      /\ current' = queue[1] /\ current' \in Runs
      /\ queue' \in Seq(Runs) /\ Len(queue') = Len(queue) - 1
      /\ DOMAIN queue' = 1 .. Len(queue) - 1
      /\ \A i \in 1 .. Len(queue) - 1 : queue'[i] = queue[i + 1]
  BY <1>1, HeadTailProperties DEF Waiting
<1>3. \A i \in DOMAIN queue' : i + 1 \in DOMAIN queue
  BY <1>2
<1>4. \A i \in DOMAIN queue' : runState'[queue'[i]] = "queued"
  BY <1>1, <1>2, <1>3 DEF Waiting
<1>5. \A i, j \in DOMAIN queue' : queue'[i] = queue'[j] => i = j
  BY <1>2, <1>3 DEF Waiting
<1>6. ASSUME NEW r \in Runs, runState[r] = "queued"
      PROVE  r = current' \/ PlacesOf(r)' # {}
  <2>1. PICK i \in DOMAIN queue : queue[i] = r
    BY <1>1, <1>6 DEF Waiting, PlacesOf
  <2>2. CASE i = 1
    BY <1>2, <2>1, <2>2
  <2>3. CASE i # 1
    <3>1. i - 1 \in DOMAIN queue' /\ (i - 1) + 1 = i
      BY <1>2, <2>1, <2>3
    <3>2. queue'[i - 1] = r
      BY <1>2, <2>1, <3>1
    <3>3. QED
      BY <3>1, <3>2 DEF PlacesOf
  <2>4. QED
    BY <2>2, <2>3
<1>7. Waiting'
  <2>1. \A i \in DOMAIN queue' : queue'[i] # current'
    BY <1>2, <1>3 DEF Waiting
  <2>2. \A r \in Runs : runState'[r] = "queued" =>
           (r = current' /\ worker' \in {"setup", "close"}) \/ PlacesOf(r)' # {}
    BY <1>1, <1>6
  <2>3. QED
    BY <1>2, <1>4, <1>5, <2>1, <2>2 DEF Waiting
<1>8. Executing'
  <2>1. runState[queue[1]] = "queued"
    BY <1>2 DEF Waiting
  <2>2. QED
    BY <1>1, <1>2, <2>1, ServiceAssumption DEF Executing
<1>9. Room'
  BY <1>1, <1>2, ServiceAssumption DEF Room
<1>10. Switched' /\ Owed'
  BY <1>1 DEF Switched, KillSwitchObeyed, Owed
<1>11. QED
  BY <1>7, <1>8, <1>9, <1>10

LEMMA BeginRunKeeps ==
  ASSUME ServiceInv, BeginRun
  PROVE  ServiceInv'
<1> USE DEF ServiceInv
<1>1. /\ worker = "setup" /\ current \in Runs
      /\ runState' = [runState EXCEPT ![current] = "running"]
      /\ lent' = current /\ riskKill' = kill[current] /\ worker' = "replay"
      /\ UNCHANGED <<stopCommand, kill, queue, current, outcome, answered, asked>>
  BY DEF BeginRun, Executing
<1>2. Waiting'
  BY <1>1 DEF Waiting, Executing, PlacesOf
<1>3. Executing'
  BY <1>1, ServiceAssumption DEF Executing, States, Finished
<1>4. Room' /\ Switched'
  BY <1>1, ServiceAssumption DEF Room, Switched, KillSwitchObeyed
<1>5. Owed'
  BY <1>1 DEF Owed, Executing
<1>6. QED
  BY <1>2, <1>3, <1>4, <1>5

(* The steps between the beginning of a run and its end.                   *)
LEMMA ReplayKeeps ==
  ASSUME ServiceInv,
         \/ SetupFails \/ ReplayInstant \/ ReplayContinues \/ ReplayEnds \/ ReplayFails
         \/ TakeBack \/ WorkerExits
  PROVE  ServiceInv'
<1> USE DEF ServiceInv
<1>1. UNCHANGED <<runState, stopCommand, kill, queue, current, answered, asked>>
  BY DEF SetupFails, ReplayInstant, ReplayContinues, ReplayEnds, ReplayFails, TakeBack,
         WorkerExits, runVars, histories
<1>2. \/ worker = "idle" /\ worker' = "exited" /\ outcome' = outcome
      \/ worker = "setup" /\ worker' = "close" /\ outcome' = "failed"
      \/ worker = "replay" /\ worker' = "instant" /\ outcome' = outcome
      \/ worker = "instant" /\ worker' = "replay" /\ outcome' = outcome
      \/ worker \in {"instant", "replay"} /\ worker' = "take_back" /\ outcome' \in Finished
      \/ worker = "take_back" /\ worker' = "close" /\ outcome' = outcome
  BY DEF SetupFails, ReplayInstant, ReplayContinues, ReplayEnds, ReplayFails, TakeBack,
         WorkerExits, Finished
<1>3. UNCHANGED <<lent, riskKill>> \/ lent' = None
  BY DEF SetupFails, ReplayInstant, ReplayContinues, ReplayEnds, ReplayFails, TakeBack,
         WorkerExits, riskVars
<1>4. Waiting'
  BY <1>1, <1>2, ServiceAssumption DEF Waiting, Executing, PlacesOf
<1>5. Executing'
  BY <1>1, <1>2 DEF Executing, Finished
<1>6. Room' /\ Owed'
  BY <1>1 DEF Room, Owed
<1>7. Switched'
  BY <1>1, <1>3 DEF Switched, KillSwitchObeyed
<1>8. QED
  BY <1>4, <1>5, <1>6, <1>7

LEMMA CloseRunKeeps ==
  ASSUME ServiceInv, CloseRun
  PROVE  ServiceInv'
<1> USE DEF ServiceInv
<1>1. /\ worker = "close" /\ current \in Runs /\ outcome \in Finished
      /\ runState' = [runState EXCEPT ![current] = outcome]
      /\ answered' = answered \cup ({stopCommand[current]} \ {None})
      /\ worker' = "release"
      /\ UNCHANGED <<stopCommand, kill, lent, riskKill, queue, current, asked>>
  BY DEF CloseRun, Executing, riskVars
<1>2. Waiting'
  <2>1. \A r \in Runs : runState'[r] = "queued" => runState[r] = "queued" /\ r # current
    BY <1>1 DEF Executing, Finished
  <2>2. \A i \in DOMAIN queue : runState'[queue[i]] = "queued"
    BY <1>1 DEF Waiting, Executing
  <2>3. QED
    BY <1>1, <2>1, <2>2 DEF Waiting, PlacesOf
<1>3. Executing'
  BY <1>1 DEF Executing, States, Finished
<1>4. Room' /\ Switched'
  BY <1>1 DEF Room, Switched, KillSwitchObeyed
<1>5. Owed'
  BY <1>1 DEF Owed, Executing
<1>6. QED
  BY <1>2, <1>3, <1>4, <1>5

LEMMA ReleaseRunKeeps ==
  ASSUME ServiceInv, ReleaseRun
  PROVE  ServiceInv'
<1> USE DEF ServiceInv
<1>1. /\ worker = "release" /\ worker' = "idle" /\ current \in Runs /\ current' = None
      /\ UNCHANGED <<runState, stopCommand, kill, lent, riskKill, queue, outcome, answered, asked>>
  BY DEF ReleaseRun, Executing, runVars, riskVars, histories
<1>2. Waiting'
  BY <1>1, ServiceAssumption DEF Waiting, PlacesOf
<1>3. Executing'
  BY <1>1 DEF Executing
<1>4. Room'
  BY <1>1, ServiceAssumption DEF Room, Waiting
<1>5. Switched' /\ Owed'
  BY <1>1 DEF Switched, KillSwitchObeyed, Owed
<1>6. QED
  BY <1>2, <1>3, <1>4, <1>5

LEMMA DropQueueKeeps ==
  ASSUME ServiceInv, DropQueue
  PROVE  ServiceInv'
<1> USE DEF ServiceInv
<1>1. /\ worker = "exited" /\ current = None
      /\ runState' = [r \in Runs |->
                        IF \E i \in 1..Len(queue) : queue[i] = r THEN "stopped" ELSE runState[r]]
      /\ queue' = <<>>
      /\ UNCHANGED <<stopCommand, kill, lent, riskKill, current, worker, outcome, answered, asked>>
  BY DEF DropQueue, Executing, riskVars, workerVars, histories
<1>2. Waiting'
  <2>1. \A r \in Runs : runState'[r] # "queued"
    BY <1>1, ServiceAssumption DEF Waiting, Executing, PlacesOf
  <2>2. QED
    BY <1>1, <2>1 DEF Waiting
<1>3. Executing'
  BY <1>1 DEF Executing, States, Finished
<1>4. Room' /\ Switched'
  BY <1>1, ServiceAssumption DEF Room, Switched, KillSwitchObeyed
<1>5. Owed'
  BY <1>1 DEF Owed, Executing
<1>6. QED
  BY <1>2, <1>3, <1>4, <1>5

-----------------------------------------------------------------------------
LEMMA NextKeeps ==
  ASSUME ServiceInv, [Next]_vars
  PROVE  ServiceInv'
<1>1. CASE \/ UNCHANGED vars \/ ReaderExits \/ Shutdown
           \/ \E message \in scenario[delivered + 1] : Receive(message)
  <2>1. UNCHANGED serviceVars
    BY <1>1 DEF vars, ReaderExits, Shutdown, Receive, runVars, riskVars, readerVars,
                workerVars, histories, serviceVars
  <2>2. QED
    BY <2>1, Unchanged
<1>2. CASE Reader
  BY <1>1, <1>2, HandleKeeps DEF Reader
<1>3. CASE Worker
  BY <1>3, TakeRunKeeps, BeginRunKeeps, ReplayKeeps, CloseRunKeeps, ReleaseRunKeeps DEF Worker
<1>4. QED
  BY <1>1, <1>2, <1>3, DropQueueKeeps DEF Next

(* The queue, the runs' states, the lent kill switch and the stops that    *)
(* are owed an answer hang together between any two sections of the        *)
(* reader, the worker and stop().                                          *)
THEOREM ServiceInvariant == Spec => []ServiceInv
<1>1. QED
  BY InitHolds, NextKeeps, PTL DEF Spec

(* A kill switch is obeyed by the RiskManager of the run that reports it.  *)
THEOREM KillSwitchIsObeyed == Spec => []KillSwitchObeyed
<1>1. ServiceInv => KillSwitchObeyed
  BY DEF ServiceInv, Switched
<1>2. QED
  BY <1>1, ServiceInvariant, PTL

(* A run that is over leaves no stop that was acted on last unanswered.    *)
THEOREM LastStopIsAnswered == Spec => []LastStopAnswered
<1>1. ServiceInv => LastStopAnswered
  BY DEF ServiceInv, Owed, LastStopAnswered, Finished
<1>2. QED
  BY <1>1, ServiceInvariant, PTL

(* Counting.                                                               *)
LEMMA UpTo ==
  ASSUME NEW n \in Nat
  PROVE  IsFiniteSet(1 .. n) /\ Cardinality(1 .. n) = n
<1>1. 1 \in Int /\ n \in Int
  OBVIOUS
<1>2. IsFiniteSet(1 .. n) /\ Cardinality(1 .. n) = IF 1 > n THEN 0 ELSE n - 1 + 1
  BY <1>1, FS_Interval, Zenon
<1>3. QED
  BY <1>2

LEMMA OneMore ==
  ASSUME NEW n \in Nat, NEW S, IsFiniteSet(S), Cardinality(S) \in Nat, Cardinality(S) <= n, NEW x
  PROVE  /\ IsFiniteSet(S \cup {x}) /\ Cardinality(S \cup {x}) \in Nat
         /\ Cardinality(S \cup {x}) <= n + 1
<1>1. /\ IsFiniteSet(S \cup {x})
      /\ Cardinality(S \cup {x}) = IF x \in S THEN Cardinality(S) ELSE Cardinality(S) + 1
  BY FS_AddElement, Zenon
<1>2. QED
  BY <1>1

(* However starts, stops and the worker interleave, no more runs are       *)
(* queued or running than the configuration allows.                        *)
THEOREM QueueIsBounded == Spec => []QueueBounded
<1>1. ASSUME ServiceInv
      PROVE  QueueBounded
  <2> DEFINE live == {r \in Runs : runState[r] \in {"queued", "running"}}
             places == 1 .. Len(queue)
             waiting == {queue[i] : i \in places}
             held == {current} \ {None}
  <2>1. Len(queue) \in Nat /\ DOMAIN queue = places
    BY <1>1 DEF ServiceInv, Waiting
  <2>2. ASSUME NEW r \in live
        PROVE  r \in waiting \cup held
    <3>1. CASE r = current
      BY <3>1, ServiceAssumption
    <3>2. CASE r # current
      <4>1. PlacesOf(r) # {}
        BY <1>1, <3>2 DEF ServiceInv, Waiting, Executing
      <4>2. QED
        BY <2>1, <4>1 DEF PlacesOf
    <3>3. QED
      BY <3>1, <3>2
  <2>3. IsFiniteSet(waiting) /\ Cardinality(waiting) <= Len(queue) /\ Cardinality(waiting) \in Nat
    <3>1. IsFiniteSet(places) /\ Cardinality(places) = Len(queue)
      BY <2>1, UpTo
    <3>2. [i \in places |-> queue[i]] \in Surjection(places, waiting)
      BY DEF Surjection
    <3> DEFINE f == [i \in places |-> queue[i]]
    <3> HIDE DEF places, waiting, f
    <3>3. f \in Surjection(places, waiting)
      BY <3>2 DEF f
    <3>4. IsFiniteSet(waiting) /\ Cardinality(waiting) <= Cardinality(places)
      BY <3>1, <3>3, FS_Surjection
    <3>5. QED
      BY <3>1, <3>4, FS_CardinalityType
  <2> HIDE DEF live, waiting
  <2>4. /\ IsFiniteSet(waiting \cup held)
        /\ Cardinality(waiting \cup held) \in Nat
        /\ Cardinality(waiting \cup held) <= Len(queue) + (IF current # None THEN 1 ELSE 0)
    <3>1. CASE current = None
      <4>1. waiting \cup held = waiting
        BY <3>1
      <4>2. Len(queue) + (IF current # None THEN 1 ELSE 0) = Len(queue)
        BY <2>1, <3>1
      <4>3. QED
        BY <2>3, <4>1, <4>2, Zenon
    <3>2. CASE current # None
      <4>1. waiting \cup held = waiting \cup {current}
        BY <3>2
      <4>2. Len(queue) + (IF current # None THEN 1 ELSE 0) = Len(queue) + 1
        BY <2>1, <3>2
      <4>3. /\ IsFiniteSet(waiting \cup {current})
            /\ Cardinality(waiting \cup {current}) \in Nat
            /\ Cardinality(waiting \cup {current}) <= Len(queue) + 1
        BY <2>1, <2>3, OneMore, Zenon
      <4>4. QED
        BY <4>1, <4>2, <4>3, Zenon
    <3>3. QED
      BY <3>1, <3>2
  <2>5. /\ IsFiniteSet(live) /\ Cardinality(live) \in Nat
        /\ Cardinality(live) <= Cardinality(waiting \cup held)
    BY <2>2, <2>4, FS_Subset, FS_CardinalityType
  <2>6. Cardinality(live) <= MaxQueued
    BY <1>1, <2>1, <2>4, <2>5, ServiceAssumption DEF ServiceInv, Room
  <2>7. QED
    BY <2>6 DEF live, QueueBounded
<1>2. QED
  BY <1>1, ServiceInvariant, PTL

-----------------------------------------------------------------------------
(* The order of the runs.                                                  *)

IsAccepted(r) == \E i \in DOMAIN accepted : accepted[i] = r

Before(r, q) ==
    \E i, j \in DOMAIN accepted : i < j /\ accepted[i] = r /\ accepted[j] = q

AcceptedOnce ==
    /\ accepted \in Seq(Runs) /\ begun \in Seq(Runs)
    /\ \A i, j \in DOMAIN accepted : accepted[i] = accepted[j] => i = j
    /\ \A i \in DOMAIN accepted : runState[accepted[i]] # "none"
    /\ \A i \in DOMAIN queue : IsAccepted(queue[i])
    /\ \A i \in DOMAIN begun : IsAccepted(begun[i])
    /\ current # None => IsAccepted(current)

(* What has begun, what the worker is about to begin, and the queue are    *)
(* one after the other as they were accepted.                              *)
InOrder ==
    /\ \A i, j \in DOMAIN queue : i < j => Before(queue[i], queue[j])
    /\ \A i \in DOMAIN begun, j \in DOMAIN queue : Before(begun[i], queue[j])
    /\ current # None => \A j \in DOMAIN queue : Before(current, queue[j])
    /\ worker = "setup" => \A i \in DOMAIN begun : Before(begun[i], current)
    /\ \A i, j \in DOMAIN begun : i < j => Before(begun[i], begun[j])

OrderInv == ServiceInv /\ AcceptedOnce /\ InOrder

LEMMA OrderAtFirst ==
  ASSUME Init
  PROVE  AcceptedOnce /\ InOrder
BY DEF Init, AcceptedOnce, InOrder

(* A run is accepted behind all others.                                    *)
LEMMA QueueRunInOrder ==
  ASSUME OrderInv, NEW c, QueueRun(c), UNCHANGED <<current, worker>>
  PROVE  (AcceptedOnce /\ InOrder)'
<1> USE DEF OrderInv
<1>1. /\ c.run \in Runs /\ runState[c.run] = "none"
      /\ runState' = [runState EXCEPT ![c.run] = "queued"]
      /\ queue' = Append(queue, c.run)
      /\ accepted' = Append(accepted, c.run)
      /\ begun' = begun
  BY DEF QueueRun, NewRun, StateOf
<1>2. /\ Len(queue) \in Nat
      /\ DOMAIN queue = 1 .. Len(queue) /\ DOMAIN queue' = 1 .. Len(queue) + 1
      /\ \A i \in 1 .. Len(queue) : queue'[i] = queue[i]
      /\ queue'[Len(queue) + 1] = c.run
  BY <1>1, AppendProperties DEF ServiceInv, Waiting
<1>3. /\ Len(accepted) \in Nat /\ accepted' \in Seq(Runs)
      /\ DOMAIN accepted = 1 .. Len(accepted) /\ DOMAIN accepted' = 1 .. Len(accepted) + 1
      /\ \A i \in 1 .. Len(accepted) : accepted'[i] = accepted[i]
      /\ accepted'[Len(accepted) + 1] = c.run
  BY <1>1, AppendProperties DEF AcceptedOnce
<1>4. \A r, q : Before(r, q) => Before(r, q)'
  BY <1>3 DEF Before
<1>5. \A r : IsAccepted(r) => IsAccepted(r)'
  BY <1>3 DEF IsAccepted
<1>6. IsAccepted(c.run)'
  BY <1>3 DEF IsAccepted
<1>7. ASSUME NEW r, IsAccepted(r)
      PROVE  Before(r, c.run)'
  <2>1. PICK i \in DOMAIN accepted : accepted[i] = r
    BY <1>7 DEF IsAccepted
  <2>2. /\ i \in DOMAIN accepted' /\ Len(accepted) + 1 \in DOMAIN accepted'
        /\ i < Len(accepted) + 1 /\ accepted'[i] = r
    BY <1>3, <2>1
  <2>3. QED
    BY <1>3, <2>2 DEF Before
<1>8. \A i \in DOMAIN accepted : accepted[i] # c.run /\ accepted[i] \in Runs
  BY <1>1 DEF AcceptedOnce
<1>9. AcceptedOnce'
  <2>1. \A i, j \in DOMAIN accepted' : accepted'[i] = accepted'[j] => i = j
    BY <1>3, <1>8 DEF AcceptedOnce
  <2>2. \A i \in DOMAIN accepted' : runState'[accepted'[i]] # "none"
    BY <1>1, <1>3, <1>8 DEF AcceptedOnce, ServiceInv, Executing
  <2>3. \A i \in DOMAIN queue' : IsAccepted(queue[i])'
    BY <1>2, <1>5, <1>6 DEF AcceptedOnce
  <2>4. /\ \A i \in DOMAIN begun' : IsAccepted(begun[i])'
        /\ current' # None => IsAccepted(current)'
    BY <1>1, <1>5 DEF AcceptedOnce
  <2>5. QED
    BY <1>1, <1>3, <2>1, <2>2, <2>3, <2>4 DEF AcceptedOnce
<1>10. InOrder'
  <2>1. \A i, j \in DOMAIN queue' : i < j => Before(queue[i], queue[j])'
    BY <1>2, <1>4, <1>7 DEF InOrder, AcceptedOnce
  <2>2. \A i \in DOMAIN begun', j \in DOMAIN queue' : Before(begun[i], queue[j])'
    BY <1>1, <1>2, <1>4, <1>7 DEF InOrder, AcceptedOnce
  <2>3. current' # None => \A j \in DOMAIN queue' : Before(current, queue[j])'
    BY <1>2, <1>4, <1>7 DEF InOrder, AcceptedOnce
  <2>4. /\ worker' = "setup" => \A i \in DOMAIN begun' : Before(begun[i], current)'
        /\ \A i, j \in DOMAIN begun' : i < j => Before(begun[i], begun[j])'
    BY <1>1, <1>4 DEF InOrder
  <2>5. QED
    BY <2>1, <2>2, <2>3, <2>4 DEF InOrder
<1>11. QED
  BY <1>9, <1>10

(* One run leaves the queue, and the others keep their order.              *)
LEMMA StopQueuedInOrder ==
  ASSUME OrderInv, NEW c, StopQueued(c), UNCHANGED <<current, worker>>
  PROVE  (AcceptedOnce /\ InOrder)'
<1> USE DEF OrderInv
<1> DEFINE Shift(i, j) == IF j < i THEN j ELSE j + 1
<1>1. /\ c.run \in Runs
      /\ runState' = [runState EXCEPT ![c.run] = "stopped"]
      /\ UNCHANGED <<accepted, begun>>
  BY DEF StopQueued, StateOf
<1>2. /\ \A r, q : Before(r, q)' <=> Before(r, q)
      /\ \A r : IsAccepted(r)' <=> IsAccepted(r)
  BY <1>1 DEF Before, IsAccepted
<1>3. \A i \in DOMAIN accepted : runState'[accepted[i]] # "none"
  BY <1>1 DEF AcceptedOnce, ServiceInv, Executing
<1>4. CASE queue' = queue
  BY <1>1, <1>2, <1>3, <1>4 DEF AcceptedOnce, InOrder
<1>5. CASE queue' # queue
  <2>1. PICK i \in DOMAIN queue : queue' = RemoveAt(queue, i)
    BY <1>5 DEF StopQueued, PlacesOf
  <2>2. /\ queue' \in Seq(Runs) /\ Len(queue') = Len(queue) - 1
        /\ \A j \in 1 .. Len(queue) - 1 : queue'[j] = queue[IF j < i THEN j ELSE j + 1]
    BY <2>1, RemoveAtShifts DEF ServiceInv, Waiting
  <2>3. /\ DOMAIN queue = 1 .. Len(queue) /\ DOMAIN queue' = 1 .. Len(queue) - 1
        /\ Len(queue) \in Nat /\ i \in 1 .. Len(queue)
    BY <2>1, <2>2 DEF ServiceInv, Waiting
  <2>4. /\ \A j \in DOMAIN queue' : Shift(i, j) \in DOMAIN queue /\ queue'[j] = queue[Shift(i, j)]
        /\ \A j, k \in DOMAIN queue' : j < k => Shift(i, j) < Shift(i, k)
    BY <2>2, <2>3
  <2> HIDE DEF Shift
  <2>5. AcceptedOnce'
    BY <1>1, <1>2, <1>3, <2>4 DEF AcceptedOnce
  <2>6. InOrder'
    BY <1>1, <1>2, <2>4 DEF InOrder
  <2>7. QED
    BY <2>5, <2>6
<1>6. QED
  BY <1>4, <1>5

(* The run that has waited longest is taken.                               *)
LEMMA TakeRunInOrder ==
  ASSUME OrderInv, TakeRun
  PROVE  (AcceptedOnce /\ InOrder)'
<1> USE DEF OrderInv
<1>1. /\ queue # <<>> /\ current' = Head(queue) /\ queue' = Tail(queue) /\ worker' = "setup"
      /\ UNCHANGED <<runState, accepted, begun>>
  BY DEF TakeRun, runVars, histories
<1>2. /\ Len(queue) \in Nat \ {0} /\ DOMAIN queue = 1 .. Len(queue)
      /\ current' = queue[1]
      /\ DOMAIN queue' = 1 .. Len(queue) - 1
      /\ \A i \in 1 .. Len(queue) - 1 : queue'[i] = queue[i + 1]
  BY <1>1, HeadTailProperties DEF ServiceInv, Waiting
<1>3. 1 \in DOMAIN queue /\ \A i \in DOMAIN queue' : i + 1 \in DOMAIN queue /\ 1 < i + 1
  BY <1>2
<1>4. /\ \A r, q : Before(r, q)' <=> Before(r, q)
      /\ \A r : IsAccepted(r)' <=> IsAccepted(r)
  BY <1>1 DEF Before, IsAccepted
<1>5. AcceptedOnce'
  BY <1>1, <1>2, <1>3, <1>4 DEF AcceptedOnce
<1>6. /\ \A i, j \in DOMAIN queue' : i < j => Before(queue'[i], queue'[j])
      /\ \A j \in DOMAIN queue' : Before(current', queue'[j])
  BY <1>2, <1>3 DEF InOrder
<1>7. /\ \A i \in DOMAIN begun, j \in DOMAIN queue' : Before(begun[i], queue'[j])
      /\ \A i \in DOMAIN begun : Before(begun[i], current')
  BY <1>2, <1>3 DEF InOrder
<1>8. InOrder'
  BY <1>1, <1>4, <1>6, <1>7 DEF InOrder
<1>9. QED
  BY <1>5, <1>8

LEMMA BeginRunInOrder ==
  ASSUME OrderInv, BeginRun
  PROVE  (AcceptedOnce /\ InOrder)'
<1> USE DEF OrderInv
<1>1. /\ worker = "setup" /\ worker' = "replay" /\ current \in Runs
      /\ runState' = [runState EXCEPT ![current] = "running"]
      /\ begun' = Append(begun, current)
      /\ UNCHANGED <<queue, current, accepted>>
  BY DEF BeginRun, ServiceInv, Executing
<1>2. /\ Len(begun) \in Nat /\ begun' \in Seq(Runs)
      /\ DOMAIN begun = 1 .. Len(begun) /\ DOMAIN begun' = 1 .. Len(begun) + 1
      /\ \A i \in 1 .. Len(begun) : begun'[i] = begun[i]
      /\ begun'[Len(begun) + 1] = current
  BY <1>1, AppendProperties DEF AcceptedOnce
<1>3. /\ \A r, q : Before(r, q)' <=> Before(r, q)
      /\ \A r : IsAccepted(r)' <=> IsAccepted(r)
  BY <1>1 DEF Before, IsAccepted
<1>4. \A i \in DOMAIN accepted : runState'[accepted[i]] # "none"
  BY <1>1 DEF AcceptedOnce, ServiceInv, Executing
<1>5. current # None
  BY <1>1, ServiceAssumption
<1>6. AcceptedOnce'
  BY <1>1, <1>2, <1>3, <1>4, <1>5 DEF AcceptedOnce
<1>7. \A i \in DOMAIN begun', j \in DOMAIN queue : Before(begun'[i], queue[j])
  BY <1>2, <1>5 DEF InOrder
<1>8. \A i, j \in DOMAIN begun' : i < j => Before(begun'[i], begun'[j])
  BY <1>1, <1>2 DEF InOrder
<1>9. InOrder'
  BY <1>1, <1>3, <1>5, <1>7, <1>8 DEF InOrder
<1>10. QED
  BY <1>6, <1>9

(* No other step accepts, begins or queues a run; a run that is over, or   *)
(* given back, changes nothing about the order of the others.              *)
LEMMA OthersInOrder ==
  ASSUME OrderInv, UNCHANGED <<accepted, begun>>,
         queue' = queue \/ queue' = <<>>,
         current' = current \/ current' = None,
         worker' # "setup" \/ UNCHANGED <<worker, current>>,
         \A r \in Runs : runState[r] # "none" => runState'[r] # "none"
  PROVE  (AcceptedOnce /\ InOrder)'
<1> USE DEF OrderInv
<1>1. /\ \A r, q : Before(r, q)' <=> Before(r, q)
      /\ \A r : IsAccepted(r)' <=> IsAccepted(r)
  BY DEF Before, IsAccepted
<1>2. \A i \in DOMAIN queue' : i \in DOMAIN queue /\ queue'[i] = queue[i]
  OBVIOUS
<1>3. worker' = "setup" => UNCHANGED <<worker, current>>
  OBVIOUS
<1>4. AcceptedOnce'
  <2>1. \A i \in DOMAIN accepted : runState'[accepted[i]] # "none"
    BY DEF AcceptedOnce
  <2>2. accepted' \in Seq(Runs) /\ begun' \in Seq(Runs)
    BY DEF AcceptedOnce
  <2>3. /\ \A i \in DOMAIN queue' : IsAccepted(queue[i])'
        /\ \A i \in DOMAIN begun' : IsAccepted(begun[i])'
        /\ current' # None => IsAccepted(current)'
    BY <1>1, <1>2 DEF AcceptedOnce
  <2>4. \A i, j \in DOMAIN accepted' : accepted'[i] = accepted'[j] => i = j
    BY DEF AcceptedOnce
  <2>5. QED
    BY <2>1, <2>2, <2>3, <2>4 DEF AcceptedOnce
<1>5. InOrder'
  BY <1>1, <1>2, <1>3 DEF InOrder
<1>6. QED
  BY <1>4, <1>5

LEMMA NextInOrder ==
  ASSUME OrderInv, [Next]_vars
  PROVE  OrderInv'
<1>1. ServiceInv'
  BY NextKeeps DEF OrderInv
<1>2. CASE \E c : Handle(c) /\ (StopQueued(c) \/ QueueRun(c))
  BY <1>1, <1>2, StopQueuedInOrder, QueueRunInOrder DEF OrderInv, Handle, workerVars
<1>3. CASE TakeRun \/ BeginRun
  BY <1>1, <1>3, TakeRunInOrder, BeginRunInOrder DEF OrderInv
<1>4. ASSUME UNCHANGED <<accepted, begun>>,
             queue' = queue \/ queue' = <<>>,
             current' = current \/ current' = None,
             worker' # "setup" \/ UNCHANGED <<worker, current>>,
             \A r \in Runs : runState[r] # "none" => runState'[r] # "none"
      PROVE  OrderInv'
  BY <1>1, <1>4, OthersInOrder DEF OrderInv
<1>5. CASE \/ UNCHANGED vars \/ ReaderExits \/ Shutdown
           \/ \E message \in scenario[delivered + 1] : Receive(message)
  BY <1>4, <1>5 DEF vars, ReaderExits, Shutdown, Receive, runVars, workerVars, histories
<1>6. ASSUME NEW c, Handle(c), ~StopQueued(c), ~QueueRun(c)
      PROVE  OrderInv'
  <2>1. UNCHANGED <<current, worker>>
    BY <1>6 DEF Handle, workerVars
  <2>2. CASE RefuseStart(c)
    <3>1. /\ runState' = [runState EXCEPT ![c.run] = "failed"]
          /\ UNCHANGED <<queue, accepted, begun>>
      BY <2>2 DEF RefuseStart, NewRun
    <3>2. QED
      BY <1>4, <2>1, <3>1 DEF OrderInv, ServiceInv, Executing
  <2>3. CASE IgnoreStart(c) \/ IgnoreUnknown(c) \/ RefuseFinished(c)
    BY <1>4, <2>1, <2>3 DEF IgnoreStart, IgnoreUnknown, RefuseFinished, runVars, histories
  <2>4. CASE StopRunning(c) \/ SetKillSwitch(c)
    BY <1>4, <2>1, <2>4 DEF StopRunning, SetKillSwitch
  <2>5. QED
    BY <1>6, <2>2, <2>3, <2>4 DEF Handle
<1>7. CASE ReplayInstant \/ ReplayContinues \/ ReplayEnds \/ ReplayFails \/ TakeBack
           \/ WorkerExits \/ SetupFails \/ ReleaseRun
  BY <1>4, <1>7 DEF ReplayInstant, ReplayContinues, ReplayEnds, ReplayFails, TakeBack,
                    WorkerExits, SetupFails, ReleaseRun, runVars, histories
<1>8. CASE CloseRun
  <2>1. outcome \in Finished /\ current \in Runs
    BY <1>8 DEF CloseRun, OrderInv, ServiceInv, Executing
  <2>2. /\ runState' = [runState EXCEPT ![current] = outcome] /\ worker' = "release"
        /\ UNCHANGED <<queue, current, accepted, begun>>
    BY <1>8 DEF CloseRun
  <2>3. QED
    BY <1>4, <2>1, <2>2 DEF OrderInv, ServiceInv, Executing, Finished
<1>9. CASE DropQueue
  <2>1. /\ runState' = [r \in Runs |->
                          IF \E i \in 1..Len(queue) : queue[i] = r THEN "stopped" ELSE runState[r]]
        /\ queue' = <<>> /\ UNCHANGED <<current, worker, accepted, begun>>
    BY <1>9 DEF DropQueue, workerVars, histories
  <2>2. QED
    BY <1>4, <2>1
<1>10. CASE Reader
  BY <1>2, <1>5, <1>6, <1>10 DEF Reader
<1>11. CASE Worker
  BY <1>3, <1>7, <1>8, <1>11 DEF Worker
<1>12. QED
  BY <1>5, <1>9, <1>10, <1>11 DEF Next

(* Runs begin in the order their starts were accepted, whichever of them   *)
(* are stopped while they wait.                                            *)
THEOREM RunsStartInOrder == Spec => []StartedInOrder
<1>1. Init => OrderInv
  BY InitHolds, OrderAtFirst DEF OrderInv
<1>2. OrderInv /\ [Next]_vars => OrderInv'
  BY NextInOrder
<1>3. ASSUME OrderInv
      PROVE  StartedInOrder
  <2>1. ASSUME NEW r, NEW q, Before(r, q)
        PROVE  PlaceOf(r) < PlaceOf(q)
    <3>1. PICK i, j \in DOMAIN accepted : i < j /\ accepted[i] = r /\ accepted[j] = q
      BY <2>1 DEF Before
    <3>2. DOMAIN accepted = 1 .. Len(accepted)
      BY <1>3 DEF OrderInv, AcceptedOnce
    <3>3. PlaceOf(r) = i /\ PlaceOf(q) = j
      BY <1>3, <3>1, <3>2 DEF OrderInv, AcceptedOnce, PlaceOf
    <3>4. QED
      BY <3>1, <3>3
  <2>2. DOMAIN begun = 1 .. Len(begun)
    BY <1>3 DEF OrderInv, AcceptedOnce
  <2>3. QED
    BY <1>3, <2>1, <2>2 DEF OrderInv, InOrder, StartedInOrder
<1>4. QED
  BY <1>1, <1>2, <1>3, PTL DEF Spec

-----------------------------------------------------------------------------
(* Sequences: the elements of what is joined, and the first of something.  *)

LEMMA Smallest ==
  ASSUME NEW T \in SUBSET Nat, T # {}
  PROVE  \E x \in T : \A y \in T : x <= y
<1>1. IsWellFoundedOn(OpToRel(<, Nat), Nat)
  BY NatLessThanWellFounded
<1>2. PICK x \in T : \A y \in T : <<y, x>> \notin OpToRel(<, Nat)
  BY <1>1, WFMin, Zenon
<1>3. \A y \in T : ~(y < x)
  BY <1>2 DEF OpToRel
<1>4. x \in Nat /\ \A y \in T : y \in Nat
  OBVIOUS
<1>5. \A y \in T : x <= y
  BY <1>3, <1>4
<1>6. x \in T
  BY <1>2
<1>7. QED
  BY <1>5, <1>6

(* A set of numbers that contains 1 and with each number up to n the next. *)
LEMMA Counting ==
  ASSUME NEW n \in Nat, NEW T, 1 \in T, \A i \in 1 .. n - 1 : i \in T => i + 1 \in T
  PROVE  \A i \in 1 .. n : i \in T
<1>1. SUFFICES ASSUME NEW m \in 1 .. n, m \notin T PROVE FALSE
  OBVIOUS
<1> DEFINE missing == {i \in 1 .. n : i \notin T}
<1>2. missing \in SUBSET Nat /\ missing # {}
  BY <1>1
<1> HIDE DEF missing
<1>3. PICK x \in missing : \A y \in missing : x <= y
  BY <1>2, Smallest, Zenon
<1>4. x \in 1 .. n /\ x \notin T /\ \A y \in 1 .. n : y \notin T => x <= y
  BY <1>3 DEF missing
<1>5. x - 1 \in 1 .. n - 1 /\ (x - 1) + 1 = x
  BY <1>4
<1>6. x - 1 \in T
  BY <1>4, <1>5
<1>7. QED
  BY <1>4, <1>5, <1>6

(* FlattenSeq's recursion, up to the n-th sequence.                        *)
JoinsUpTo(g, ss, n) ==
    g = [i \in 1 .. n |-> IF i = 1 THEN ss[i] ELSE g[i - 1] \o ss[i]]

LEMMA JoinExists ==
  ASSUME NEW ss, NEW n \in Nat \ {0}
  PROVE  \E g : JoinsUpTo(g, ss, n)
<1> DEFINE T == {i \in Nat : \E g : JoinsUpTo(g, ss, i)}
<1>1. 1 \in T
  <2> DEFINE g == [i \in 1 .. 1 |-> ss[i]]
  <2>1. JoinsUpTo(g, ss, 1)
    BY DEF JoinsUpTo
  <2>2. QED
    BY <2>1
<1>2. ASSUME NEW i \in 1 .. n - 1, i \in T
      PROVE  i + 1 \in T
  <2>1. PICK g : JoinsUpTo(g, ss, i)
    BY <1>2
  <2> DEFINE h == [j \in 1 .. i + 1 |-> IF j = 1 THEN ss[j] ELSE g[j - 1] \o ss[j]]
  <2>2. \A j \in 1 .. i : h[j] = g[j]
    <3>1. g = [j \in 1 .. i |-> IF j = 1 THEN ss[j] ELSE g[j - 1] \o ss[j]]
      BY <2>1 DEF JoinsUpTo
    <3>2. \A j \in 1 .. i : g[j] = IF j = 1 THEN ss[j] ELSE g[j - 1] \o ss[j]
      BY <3>1, Zenon
    <3>3. \A j \in 1 .. i : j \in 1 .. i + 1
      OBVIOUS
    <3>4. QED
      BY <3>2, <3>3, Zenon
  <2>3. \A j \in 1 .. i + 1 : j # 1 => j - 1 \in 1 .. i
    OBVIOUS
  <2>4. \A j \in 1 .. i + 1 :
           (IF j = 1 THEN ss[j] ELSE g[j - 1] \o ss[j])
              = (IF j = 1 THEN ss[j] ELSE h[j - 1] \o ss[j])
    BY <2>2, <2>3
  <2>5. JoinsUpTo(h, ss, i + 1)
    BY <2>4, Zenon DEF JoinsUpTo
  <2>6. i + 1 \in Nat
    OBVIOUS
  <2> HIDE DEF h
  <2>7. QED
    BY <2>5, <2>6
<1> HIDE DEF T
<1>3. n \in 1 .. n
  OBVIOUS
<1>4. n \in T
  BY <1>1, <1>2, <1>3, Counting
<1>5. QED
  BY <1>4 DEF T

LEMMA JoinedRange ==
  ASSUME NEW S, NEW s \in Seq(S), NEW t \in Seq(S)
  PROVE  s \o t \in Seq(S) /\ ToSet(s \o t) = ToSet(s) \cup ToSet(t)
<1>1. /\ s \o t \in Seq(S) /\ Len(s \o t) = Len(s) + Len(t)
      /\ \A i \in 1 .. Len(s) + Len(t) :
            (s \o t)[i] = IF i <= Len(s) THEN s[i] ELSE t[i - Len(s)]
  BY ConcatProperties
<1>2. DOMAIN (s \o t) = 1 .. Len(s) + Len(t) /\ DOMAIN s = 1 .. Len(s) /\ DOMAIN t = 1 .. Len(t)
      /\ Len(s) \in Nat /\ Len(t) \in Nat
  BY <1>1
<1>3. ASSUME NEW x \in ToSet(s \o t) PROVE x \in ToSet(s) \cup ToSet(t)
  <2>1. PICK i \in 1 .. Len(s) + Len(t) : x = (s \o t)[i]
    BY <1>2 DEF ToSet
  <2>2. i <= Len(s) \/ i - Len(s) \in 1 .. Len(t)
    BY <1>2
  <2>3. QED
    BY <1>1, <1>2, <2>1, <2>2 DEF ToSet
<1>4. ASSUME NEW x \in ToSet(s) PROVE x \in ToSet(s \o t)
  <2>1. PICK i \in 1 .. Len(s) : x = s[i]
    BY <1>2 DEF ToSet
  <2>2. i \in 1 .. Len(s) + Len(t) /\ i <= Len(s)
    BY <1>2
  <2>3. QED
    BY <1>1, <1>2, <2>1, <2>2 DEF ToSet
<1>5. ASSUME NEW x \in ToSet(t) PROVE x \in ToSet(s \o t)
  <2>1. PICK i \in 1 .. Len(t) : x = t[i]
    BY <1>2 DEF ToSet
  <2>2. /\ i + Len(s) \in 1 .. Len(s) + Len(t) /\ ~(i + Len(s) <= Len(s))
        /\ (i + Len(s)) - Len(s) = i
    BY <1>2
  <2>3. QED
    BY <1>1, <1>2, <2>1, <2>2 DEF ToSet
<1>6. QED
  BY <1>1, <1>3, <1>4, <1>5

(* FlattenSeq has the elements of all its sequences.                       *)
LEMMA FlattenedRange ==
  ASSUME NEW S, NEW n \in Nat, NEW ss \in [1 .. n -> Seq(S)]
  PROVE  FlattenSeq(ss) \in Seq(S) /\ ToSet(FlattenSeq(ss)) = UNION {ToSet(ss[i]) : i \in 1 .. n}
<1>1. ss \in Seq(Seq(S)) /\ Len(ss) = n
  OBVIOUS
<1>2. CASE n = 0
  <2>1. FlattenSeq(ss) = ss /\ ss = <<>>
    BY <1>1, <1>2 DEF FlattenSeq
  <2>2. QED
    BY <1>2, <2>1 DEF ToSet
<1>3. CASE n # 0
  <2> DEFINE f == CHOOSE g : JoinsUpTo(g, ss, n)
  <2>1. FlattenSeq(ss) = f[n]
    BY <1>1, <1>3 DEF FlattenSeq, JoinsUpTo
  <2>2. JoinsUpTo(f, ss, n)
    BY <1>3, JoinExists
  <2> HIDE DEF f
  <2> DEFINE T == {i \in Nat : f[i] \in Seq(S) /\ ToSet(f[i]) = UNION {ToSet(ss[j]) : j \in 1 .. i}}
  <2>3. \A i \in 1 .. n : f[i] = IF i = 1 THEN ss[i] ELSE f[i - 1] \o ss[i]
    BY <2>2, Zenon DEF JoinsUpTo
  <2>4. 1 \in T
    <3>1. 1 \in 1 .. n /\ f[1] = ss[1]
      BY <1>3, <2>3
    <3>2. UNION {ToSet(ss[j]) : j \in 1 .. 1} = ToSet(ss[1])
      OBVIOUS
    <3>3. QED
      BY <3>1, <3>2
  <2>5. ASSUME NEW i \in 1 .. n - 1, i \in T
        PROVE  i + 1 \in T
    <3>1. i + 1 \in 1 .. n /\ i + 1 # 1 /\ (i + 1) - 1 = i
      OBVIOUS
    <3>2. f[i + 1] = f[i] \o ss[i + 1]
      BY <2>3, <3>1
    <3>3. ss[i + 1] \in Seq(S)
      BY <3>1
    <3>4. /\ f[i] \o ss[i + 1] \in Seq(S)
          /\ ToSet(f[i] \o ss[i + 1]) = ToSet(f[i]) \cup ToSet(ss[i + 1])
      BY <2>5, <3>3, JoinedRange
    <3>5. 1 .. i + 1 = 1 .. i \cup {i + 1}
      OBVIOUS
    <3>6. UNION {ToSet(ss[j]) : j \in 1 .. i + 1}
            = (UNION {ToSet(ss[j]) : j \in 1 .. i}) \cup ToSet(ss[i + 1])
      BY <3>5, Zenon
    <3>7. /\ f[i] \in Seq(S) /\ i + 1 \in Nat
          /\ ToSet(f[i]) = UNION {ToSet(ss[j]) : j \in 1 .. i}
      BY <2>5
    <3>8. ToSet(f[i + 1]) = UNION {ToSet(ss[j]) : j \in 1 .. i + 1}
      BY <3>2, <3>4, <3>6, <3>7, Zenon
    <3>9. QED
      BY <3>2, <3>4, <3>7, <3>8, Zenon
  <2> HIDE DEF T
  <2>6. n \in T
    <3>1. \A i \in 1 .. n - 1 : i \in T => i + 1 \in T
      BY <2>5
    <3>2. n \in 1 .. n
      BY <1>3
    <3>3. \A i \in 1 .. n : i \in T
      BY <2>4, <3>1, Counting, Zenon
    <3>4. QED
      BY <3>2, <3>3
  <2>7. QED
    BY <2>1, <2>6 DEF T
<1>4. QED
  BY <1>2, <1>3

LEMMA FirstOnes ==
  ASSUME NEW S, NEW s \in Seq(S)
  PROVE  /\ Len(s) >= 1 => SubSeq(s, 1, 1) = <<s[1]>>
         /\ Len(s) >= 2 => SubSeq(s, 1, 2) = <<s[1], s[2]>>
<1>1. ASSUME Len(s) >= 1 PROVE SubSeq(s, 1, 1) = <<s[1]>>
  <2> DEFINE one == SubSeq(s, 1, 1)
             t == <<s[1]>>
  <2>1. \A i \in 1 .. 1 : s[i] \in S
    BY <1>1
  <2>2. one \in Seq(S) /\ Len(one) = 1 /\ \A i \in 1 .. 1 : one[i] = s[1 + i - 1]
    BY <2>1, SubSeqProperties, Z3
  <2>3. t \in Seq(S) /\ Len(t) = 1 /\ t[1] = s[1]
    BY <2>1
  <2> HIDE DEF one, t
  <2>4. \A i \in 1 .. 1 : one[i] = t[i]
    BY <2>2, <2>3
  <2>5. one = t
    BY <2>2, <2>3, <2>4, SeqEqual, Z3
  <2>6. QED
    BY <2>5 DEF one, t
<1>2. ASSUME Len(s) >= 2 PROVE SubSeq(s, 1, 2) = <<s[1], s[2]>>
  <2> DEFINE two == SubSeq(s, 1, 2)
             t == <<s[1], s[2]>>
  <2>1. \A i \in 1 .. 2 : s[i] \in S
    BY <1>2
  <2>2. two \in Seq(S) /\ Len(two) = 2 /\ \A i \in 1 .. 2 : two[i] = s[1 + i - 1]
    BY <2>1, SubSeqProperties, Z3
  <2>3. t \in Seq(S) /\ Len(t) = 2 /\ t[1] = s[1] /\ t[2] = s[2]
    BY <2>1
  <2> HIDE DEF two, t
  <2>4. \A i \in 1 .. 2 : two[i] = t[i]
    BY <2>2, <2>3
  <2>5. two = t
    BY <2>2, <2>3, <2>4, SeqEqual, Z3
  <2>6. QED
    BY <2>5 DEF two, t
<1>3. QED
  BY <1>1, <1>2

(* Paths are short.                                                        *)
LEMMA PathLength ==
  ASSUME NEW a, NEW b, NEW c
  PROVE  /\ Len(<<a>>) = 1 /\ Len(<<a, b>>) = 2 /\ Len(<<a, b, c>>) = 3
OBVIOUS

LEMMA PathLast ==
  ASSUME NEW a, NEW b, NEW c
  PROVE  Last(<<a>>) = a /\ Last(<<a, b>>) = b /\ Last(<<a, b, c>>) = c
BY PathLength DEF Last

LEMMA PathStart ==
  ASSUME NEW a, NEW b, NEW c
  PROVE  /\ SubSeq(<<a>>, 1, 1) = <<a>> /\ SubSeq(<<a, b>>, 1, 1) = <<a>>
         /\ SubSeq(<<a, b, c>>, 1, 1) = <<a>>
           /\ SubSeq(<<a, b>>, 1, 2) = <<a, b>> /\ SubSeq(<<a, b, c>>, 1, 2) = <<a, b>>
<1> DEFINE S == {a, b, c}
           one == <<a>>
           two == <<a, b>>
           three == <<a, b, c>>
<1>1. one \in Seq(S) /\ two \in Seq(S) /\ three \in Seq(S)
  OBVIOUS
<1>2. Len(one) = 1 /\ Len(two) = 2 /\ Len(three) = 3
  OBVIOUS
<1>3. one[1] = a /\ two[1] = a /\ three[1] = a /\ two[2] = b /\ three[2] = b
  OBVIOUS
<1> HIDE DEF S, one, two, three
<1>2a. Len(one) >= 1 /\ Len(two) >= 1 /\ Len(three) >= 1 /\ Len(two) >= 2 /\ Len(three) >= 2
  BY <1>2
<1>4. /\ SubSeq(one, 1, 1) = <<one[1]>> /\ SubSeq(two, 1, 1) = <<two[1]>>
      /\ SubSeq(three, 1, 1) = <<three[1]>>
      /\ SubSeq(two, 1, 2) = <<two[1], two[2]>> /\ SubSeq(three, 1, 2) = <<three[1], three[2]>>
  <2>1. SubSeq(one, 1, 1) = <<one[1]>>
    BY <1>1, <1>2a, FirstOnes, SMT
  <2>2. SubSeq(two, 1, 1) = <<two[1]>>
    BY <1>1, <1>2a, FirstOnes, SMT
  <2>3. SubSeq(three, 1, 1) = <<three[1]>>
    BY <1>1, <1>2a, FirstOnes, SMT
  <2>4. SubSeq(two, 1, 2) = <<two[1], two[2]>>
    BY <1>1, <1>2a, FirstOnes, SMT
  <2>5. SubSeq(three, 1, 2) = <<three[1], three[2]>>
    BY <1>1, <1>2a, FirstOnes, SMT
  <2>6. QED
    BY <2>1, <2>2, <2>3, <2>4, <2>5, Zenon
<1>5. /\ SubSeq(one, 1, 1) = <<a>> /\ SubSeq(two, 1, 1) = <<a>>
      /\ SubSeq(three, 1, 1) = <<a>>
      /\ SubSeq(two, 1, 2) = <<a, b>> /\ SubSeq(three, 1, 2) = <<a, b>>
  BY <1>3, <1>4, SMT
<1>6. QED
  BY <1>5 DEF one, two, three

LEMMA PathFront ==
  ASSUME NEW a, NEW b, NEW c
  PROVE  Front(<<a, b>>) = <<a>> /\ Front(<<a, b, c>>) = <<a, b>>
<1>1. Len(<<a, b>>) - 1 = 1 /\ Len(<<a, b, c>>) - 1 = 2
  OBVIOUS
<1>2. SubSeq(<<a, b>>, 1, 1) = <<a>> /\ SubSeq(<<a, b, c>>, 1, 2) = <<a, b>>
  BY PathStart
<1>3. QED
  BY <1>1, <1>2 DEF Front

LEMMA PathPrefix ==
  ASSUME NEW a, NEW b, NEW c
  PROVE  /\ IsPrefix(<<a>>, <<a>>) /\ IsPrefix(<<a>>, <<a, b>>) /\ IsPrefix(<<a>>, <<a, b, c>>)
         /\ IsPrefix(<<a, b>>, <<a, b>>) /\ IsPrefix(<<a, b>>, <<a, b, c>>)
         /\ IsPrefix(<<a, b, c>>, <<a, b, c>>)
BY PathLength, PathStart DEF IsPrefix

LEMMA Elements ==
  ASSUME NEW S, NEW s \in Seq(S)
  PROVE  /\ DOMAIN s \in SUBSET Nat
         /\ \A x \in ToSet(s) : \E k \in DOMAIN s : x = s[k]
         /\ \A k \in DOMAIN s : s[k] \in ToSet(s)
  BY DEF ToSet

LEMMA MinIn ==
  ASSUME NEW T \in SUBSET Nat, T # {}
  PROVE  Min(T) \in T
<1>1. \E x \in T : \A y \in T : x <= y
  BY Smallest
<1>2. QED
  BY <1>1, Zenon DEF Min

LEMMA UnreadIsAtFault ==
  ASSUME NEW S, NEW members \in Seq(S), NEW object, FirstUnread(members, object) # None
  PROVE  \E m \in ToSet(members) : m.path = FirstUnread(members, object) /\ Unread(m, object)
<1> DEFINE unread == {k \in DOMAIN members : Unread(members[k], object)}
<1>1. unread # {} /\ FirstUnread(members, object) = members[Min(unread)].path
  BY DEF FirstUnread
<1>2. unread \in SUBSET Nat
  BY Elements
<1>3. Min(unread) \in unread
  BY <1>1, <1>2, MinIn
<1>4. QED
  BY <1>1, <1>3 DEF ToSet

LEMMA NoneUnread ==
  ASSUME NEW S, NEW members \in Seq(S), NEW object, FirstUnread(members, object) = None,
         \A m \in ToSet(members) : m.path # None
  PROVE  \A m \in ToSet(members) : ~Unread(m, object)
<1> DEFINE unread == {k \in DOMAIN members : Unread(members[k], object)}
<1>1. unread \in SUBSET Nat
  BY Elements
<1>2. ASSUME unread # {} PROVE FALSE
  <2>1. Min(unread) \in unread
    BY <1>1, <1>2, MinIn
  <2>2. members[Min(unread)].path = None
    BY <1>2 DEF FirstUnread
  <2>3. QED
    BY <2>1, <2>2 DEF ToSet
<1>3. QED
  BY <1>2 DEF ToSet

LEMMA FailingIsAtFault ==
  ASSUME NEW S, NEW s, Checks(s) \in Seq(S), Problem(s) # None
  PROVE  \E check \in ToSet(Checks(s)) : check.field = Problem(s) /\ ~check.holds
<1> DEFINE failing == {k \in DOMAIN Checks(s) : ~Checks(s)[k].holds}
<1>1. failing # {} /\ Problem(s) = Checks(s)[Min(failing)].field
  BY DEF Problem
<1>2. failing \in SUBSET Nat
  BY Elements
<1>3. Min(failing) \in failing
  BY <1>1, <1>2, MinIn
<1>4. QED
  BY <1>1, <1>3 DEF ToSet

LEMMA NoneFails ==
  ASSUME NEW S, NEW s, Checks(s) \in Seq(S), Problem(s) = None,
         \A check \in ToSet(Checks(s)) : check.field # None
  PROVE  \A check \in ToSet(Checks(s)) : check.holds
<1> DEFINE failing == {k \in DOMAIN Checks(s) : ~Checks(s)[k].holds}
<1>1. failing \in SUBSET Nat
  BY Elements
<1>2. ASSUME failing # {} PROVE FALSE
  <2>1. Min(failing) \in failing
    BY <1>1, <1>2, MinIn
  <2>2. Checks(s)[Min(failing)].field = None
    BY <1>2 DEF Problem
  <2>3. QED
    BY <2>1, <2>2 DEF ToSet
<1>3. QED
  BY <1>2 DEF ToSet

-----------------------------------------------------------------------------
(* The members of settings that are read, and their checks.                *)

TopMembers ==
    <<MayHave(<<"name">>), MayHave(<<"mode">>), MayHave(<<"period_start">>),
      MayHave(<<"period_end">>), MustHave(<<"strategies">>)>>

(* What SettingsMembers joins.                                             *)
MembersAre(config) ==
    /\ \E S : SettingsMembers(config) \in Seq(S)
    /\ \A m : m \in ToSet(SettingsMembers(config)) <=>
          \/ m \in ToSet(TopMembers) \/ m \in ToSet(LimitMembers)
          \/ \E i \in 1..CountOf(config) : m \in ToSet(StrategyMembers(config, i))

LEMMA LimitMembersAre ==
  LET needed == {<<"risk", "max_order_quantity">>, <<"risk", "max_position_notional">>,
                 <<"risk", "max_gross_exposure">>, <<"risk", "max_daily_loss">>,
                 <<"risk", "max_open_orders">>, <<"simulation", "starting_cash">>,
                 <<"simulation", "slippage_bps">>, <<"simulation", "fees", "per_share">>,
                 <<"simulation", "fees", "per_trade">>, <<"simulation", "fees", "bps">>,
                 <<"simulation", "latency_ms", "signal_to_order">>,
                 <<"simulation", "latency_ms", "order_to_fill">>}
      optional == {<<"risk">>, <<"risk", "allow_short">>, <<"risk", "policies">>, <<"simulation">>,
                   <<"simulation", "fees">>, <<"simulation", "latency_ms">>,
                   <<"simulation", "participation_cap">>}
  IN  /\ ToSet(LimitMembers) = {MustHave(path) : path \in needed} \cup {MayHave(path) : path \in optional}
      /\ LimitMembers \in Seq(ToSet(LimitMembers))
<1>1. DOMAIN LimitMembers = {1,2,3,4,5,6,7,8,9,10,11,12,13,14,15,16,17,18,19}
  BY DEF LimitMembers
<1>3. QED
  BY <1>1 DEF ToSet, LimitMembers

IsCrossover(config, i) == At(i, "kind") \in DOMAIN config /\ config[At(i, "kind")] = SmaCrossover

Parameters(config, i) ==
    IF IsCrossover(config, i) THEN {"short_window", "long_window"}
    ELSE {"lookback", "entry_threshold", "rearm_threshold"}

LEMMA StrategyMembersAre ==
  ASSUME NEW config, NEW i
  PROVE  /\ ToSet(StrategyMembers(config, i)) =
               {Needed(<<"strategies", Index(i)>>, "object")}
               \cup {MustHave(At(i, x)) : x \in {"kind", "strategy_id", "symbols", "requested_quantity"}}
               \cup {MayHave(At(i, x)) : x \in Parameters(config, i)}
         /\ StrategyMembers(config, i) \in Seq(ToSet(StrategyMembers(config, i)))
<1> DEFINE whole == Needed(<<"strategies", Index(i)>>, "object")
           always == <<whole, MustHave(At(i, "kind")),
                       MustHave(At(i, "strategy_id")), MustHave(At(i, "symbols")),
                       MustHave(At(i, "requested_quantity"))>>
           windows == <<MayHave(At(i, "short_window")), MayHave(At(i, "long_window"))>>
           thresholds == <<MayHave(At(i, "lookback")), MayHave(At(i, "entry_threshold")),
                           MayHave(At(i, "rearm_threshold"))>>
           rest == IF IsCrossover(config, i) THEN windows ELSE thresholds
<1>1. StrategyMembers(config, i) = always \o rest
  BY DEF StrategyMembers, IsCrossover
<1> DEFINE S == ToSet(always) \cup ToSet(rest)
<1>2. /\ always \in Seq(ToSet(always))
      /\ ToSet(always) = {whole} \cup {MustHave(At(i, x)) : x \in
                            {"kind", "strategy_id", "symbols", "requested_quantity"}}
  <2>1. /\ always \in Seq(ToSet(always))
        /\ ToSet(always) = {whole, MustHave(At(i, "kind")), MustHave(At(i, "strategy_id")),
                            MustHave(At(i, "symbols")), MustHave(At(i, "requested_quantity"))}
    <3>1. DOMAIN always = {1, 2, 3, 4, 5}
      OBVIOUS
    <3>2. QED
      BY <3>1 DEF ToSet
  <2> HIDE DEF always, whole
  <2>2. QED
    BY <2>1
<1>3. /\ rest \in Seq(ToSet(rest))
      /\ ToSet(rest) = {MayHave(At(i, x)) : x \in Parameters(config, i)}
  <2>1. windows \in Seq(ToSet(windows)) /\ ToSet(windows) =
          {MayHave(At(i, "short_window")), MayHave(At(i, "long_window"))}
    <3>1. DOMAIN windows = {1, 2}
      OBVIOUS
    <3>2. QED
      BY <3>1 DEF ToSet
  <2>2. thresholds \in Seq(ToSet(thresholds)) /\ ToSet(thresholds) =
          {MayHave(At(i, "lookback")), MayHave(At(i, "entry_threshold")),
           MayHave(At(i, "rearm_threshold"))}
    <3>1. DOMAIN thresholds = {1, 2, 3}
      OBVIOUS
    <3>2. QED
      BY <3>1 DEF ToSet
  <2> HIDE DEF windows, thresholds
  <2>3. QED
    BY <2>1, <2>2 DEF Parameters
<1> HIDE DEF always, rest
<1>5. always \in Seq(S) /\ rest \in Seq(S)
  BY <1>2, <1>3
<1>6. always \o rest \in Seq(S) /\ ToSet(always \o rest) = S
  BY <1>5, JoinedRange
<1>7. QED
  BY <1>1, <1>2, <1>3, <1>6

LEMMA SettingsMembersAre ==
  ASSUME NEW config, CountOf(config) \in Nat
  PROVE  MembersAre(config)
<1> DEFINE n == CountOf(config)
           ss == [i \in 1..n |-> StrategyMembers(config, i)]
           S == ToSet(TopMembers) \cup ToSet(LimitMembers)
                \cup UNION {ToSet(StrategyMembers(config, i)) : i \in 1..n}
<1>1. SettingsMembers(config) = TopMembers \o FlattenSeq(ss) \o LimitMembers
  BY DEF SettingsMembers, TopMembers
<1>2. TopMembers \in Seq(S) /\ LimitMembers \in Seq(S)
  <2>1. TopMembers \in Seq(ToSet(TopMembers))
    <3>1. DOMAIN TopMembers = {1, 2, 3, 4, 5}
      BY DEF TopMembers
    <3>2. QED
      BY <3>1 DEF ToSet, TopMembers
  <2>2. LimitMembers \in Seq(ToSet(LimitMembers))
    BY LimitMembersAre
  <2>3. QED
    BY <2>1, <2>2
<1>3. \A i \in 1..n : StrategyMembers(config, i) \in Seq(S)
  <2> TAKE i \in 1..n
  <2>1. StrategyMembers(config, i) \in Seq(ToSet(StrategyMembers(config, i)))
    BY StrategyMembersAre
  <2>2. ToSet(StrategyMembers(config, i)) \subseteq S
    OBVIOUS
  <2>3. QED
    BY <2>1, <2>2
<1> HIDE DEF S
<1>4. ss \in [1..n -> Seq(S)]
  BY <1>3
<1>5. /\ FlattenSeq(ss) \in Seq(S)
      /\ ToSet(FlattenSeq(ss)) = UNION {ToSet(ss[i]) : i \in 1..n}
  BY <1>4, FlattenedRange
<1>6. /\ TopMembers \o FlattenSeq(ss) \in Seq(S)
      /\ ToSet(TopMembers \o FlattenSeq(ss)) = ToSet(TopMembers) \cup ToSet(FlattenSeq(ss))
  BY <1>2, <1>5, JoinedRange
<1> DEFINE first == TopMembers \o FlattenSeq(ss)
<1> HIDE DEF ss
<1>7. /\ SettingsMembers(config) \in Seq(S)
      /\ ToSet(SettingsMembers(config)) =
            ToSet(TopMembers) \cup ToSet(FlattenSeq(ss)) \cup ToSet(LimitMembers)
  <2>1. SettingsMembers(config) = first \o LimitMembers
    BY <1>1
  <2>2. first \in Seq(S) /\ ToSet(first) = ToSet(TopMembers) \cup ToSet(FlattenSeq(ss))
    BY <1>6
  <2> HIDE DEF first
  <2>3. QED
    BY <1>2, <2>1, <2>2, JoinedRange
<1>8. \A m : m \in ToSet(FlattenSeq(ss)) <=> \E i \in 1..n : m \in ToSet(StrategyMembers(config, i))
  BY <1>5 DEF ss
<1>9. QED
  BY <1>7, <1>8 DEF MembersAre

-----------------------------------------------------------------------------
(* What concerns a field.                                                  *)

(* Nothing is changed that a field concerns.                               *)
Same(valid, config, path) ==
    /\ path \in DOMAIN valid <=> path \in DOMAIN config
    /\ path \in DOMAIN valid => valid[path] = config[path]

Untouched(field, valid, config) ==
    \A path : Concerns(field, path) => Same(valid, config, path)

LEMMA ChangedOrUntouched ==
  ASSUME NEW field, NEW valid, NEW config
  PROVE  \/ \E path \in ChangedFrom(valid, config) : Concerns(field, path)
         \/ Untouched(field, valid, config)
BY DEF ChangedFrom, Untouched, Same

LEMMA ConcernsAround ==
  ASSUME NEW a, NEW b, NEW c, NEW d
  PROVE  /\ Concerns(<<a>>, <<a>>) /\ Concerns(<<a, b>>, <<a, b>>)
         /\ Concerns(<<a, b, c>>, <<a, b, c>>)
         /\ Concerns(<<a, b>>, <<a>>) /\ Concerns(<<a, b, c>>, <<a>>)
         /\ Concerns(<<a, b, c>>, <<a, b>>)
         /\ Concerns(<<a>>, <<a, b>>) /\ Concerns(<<a>>, <<a, b, c>>)
         /\ Concerns(<<a, b>>, <<a, b, c>>) /\ Concerns(<<a, b, c>>, <<a, b, d>>)
<1>1. /\ Front(<<a, b, c>>) = Front(<<a, b, d>>)
      /\ Len(<<a, b, c>>) = 3 /\ Len(<<a, b, d>>) = 3
  <2>1. \A x : Len(<<a, b, x>>) = 3 /\ Front(<<a, b, x>>) = <<a, b>>
    BY PathLength, PathFront
  <2>2. QED
    BY <2>1, Zenon
<1>2. /\ IsPrefix(<<a>>, <<a>>) /\ IsPrefix(<<a>>, <<a, b>>) /\ IsPrefix(<<a>>, <<a, b, c>>)
      /\ IsPrefix(<<a, b>>, <<a, b>>) /\ IsPrefix(<<a, b>>, <<a, b, c>>)
      /\ IsPrefix(<<a, b, c>>, <<a, b, c>>)
  BY PathPrefix
<1>3. QED
  BY <1>1, <1>2, Zenon DEF Concerns

LEMMA ConcernsStrategy ==
  ASSUME NEW i, NEW x
  PROVE  /\ Concerns(At(i, x), At(i, x)) /\ Concerns(At(i, x), <<"strategies">>)
         /\ Concerns(At(i, x), <<"strategies", Index(i)>>)
         /\ \A y : Concerns(At(i, x), At(i, y)) 
         /\ Concerns(<<"strategies", Index(i)>>, At(i, x)) 
         /\ Concerns(<<"strategies", Index(i)>>, <<"strategies">>)
         /\ \A j : Concerns(At(i, "strategy_id"), At(j, "strategy_id"))
<1>1. \A y : Concerns(At(i, x), At(i, y))
  BY ConcernsAround, Zenon DEF At
<1>2. ASSUME NEW j PROVE Concerns(At(i, "strategy_id"), At(j, "strategy_id"))
  <2>1. \A k : Len(At(k, "strategy_id")) = 3 /\ At(k, "strategy_id")[3] = "strategy_id"
    BY DEF At
  <2>2. QED
    BY <2>1, Zenon DEF Concerns
<1>3. QED
  BY <1>1, <1>2, ConcernsAround, Zenon DEF At

(* A path has at most three names.                                         *)
IsPath(path) ==
    \/ \E a : path = <<a>>
    \/ \E a, b : path = <<a, b>>
    \/ \E a, b, c : path = <<a, b, c>>

LEMMA ConcernsItself ==
  ASSUME NEW path, IsPath(path)
  PROVE  Concerns(path, path) /\ (Len(path) = 1 \/ Concerns(path, Front(path)))
<1>1. CASE \E a : path = <<a>>
  <2>1. PICK a : path = <<a>>
    BY <1>1
  <2>2. Len(<<a>>) = 1 /\ Concerns(<<a>>, <<a>>)
    BY ConcernsAround
  <2>3. QED
    BY <2>1, <2>2, Zenon
<1>2. CASE \E a, b : path = <<a, b>>
  <2>1. PICK a, b : path = <<a, b>>
    BY <1>2, Zenon
  <2>2. /\ Front(<<a, b>>) = <<a>>
        /\ Concerns(<<a, b>>, <<a, b>>) /\ Concerns(<<a, b>>, <<a>>)
    BY ConcernsAround, PathFront
  <2>3. QED
    BY <2>1, <2>2, Zenon
<1>3. CASE \E a, b, c : path = <<a, b, c>>
  <2>1. PICK a, b, c : path = <<a, b, c>>
    BY <1>3, Zenon
  <2>2. /\ Front(<<a, b, c>>) = <<a, b>>
        /\ Concerns(<<a, b, c>>, <<a, b, c>>) /\ Concerns(<<a, b, c>>, <<a, b>>)
    <3>1. Front(<<a, b, c>>) = <<a, b>>
      BY PathFront
    <3>2. Concerns(<<a, b, c>>, <<a, b, c>>) /\ Concerns(<<a, b, c>>, <<a, b>>)
      BY ConcernsAround, Zenon
    <3>3. QED
      BY <3>1, <3>2
  <2>3. QED
    BY <2>1, <2>2, Zenon
<1>4. QED
  BY <1>1, <1>2, <1>3, Zenon DEF IsPath

LEMMA MemberPaths ==
  ASSUME NEW config, CountOf(config) \in Nat, NEW m \in ToSet(SettingsMembers(config))
  PROVE  IsPath(m.path)
<1>1. MembersAre(config)
  BY SettingsMembersAre
<1>2. CASE m \in ToSet(TopMembers)
  <2>1. \E a : m.path = <<a>>
    BY <1>2 DEF TopMembers, ToSet, MayHave, MustHave, Needed, Optional
  <2>2. QED
    BY <2>1 DEF IsPath
<1>3. CASE m \in ToSet(LimitMembers)
  <2>1. \/ \E path : m = MustHave(path) /\ IsPath(path)
        \/ \E path : m = MayHave(path) /\ IsPath(path)
    BY <1>3, LimitMembersAre DEF IsPath
  <2>2. QED
    BY <2>1 DEF MustHave, MayHave, Needed, Optional
<1>4. CASE \E i \in 1..CountOf(config) : m \in ToSet(StrategyMembers(config, i))
  <2>1. PICK i : m \in ToSet(StrategyMembers(config, i))
    BY <1>4
  <2>2. \/ m = Needed(<<"strategies", Index(i)>>, "object")
        \/ \E x : m = MustHave(At(i, x)) \/ m = MayHave(At(i, x))
    BY <2>1, StrategyMembersAre
  <2>3. m.path = <<"strategies", Index(i)>> \/ \E x : m.path = At(i, x)
    BY <2>2 DEF MustHave, MayHave, Needed, Optional
  <2>4. QED
    BY <2>3 DEF IsPath, At
<1>5. QED
  BY <1>1, <1>2, <1>3, <1>4 DEF MembersAre

LEMMA SameCount ==
  ASSUME NEW valid, NEW config, Same(valid, config, <<"strategies">>)
  PROVE  CountOf(valid) = CountOf(config)
BY DEF Same, CountOf

LEMMA SameStrategyMembers ==
  ASSUME NEW valid, NEW config, NEW i, Same(valid, config, At(i, "kind"))
  PROVE  ToSet(StrategyMembers(valid, i)) = ToSet(StrategyMembers(config, i))
<1>1. Parameters(valid, i) = Parameters(config, i)
  BY DEF Parameters, IsCrossover, Same
<1>2. QED
  BY <1>1, StrategyMembersAre, Zenon

(* The first member that cannot be read.                                   *)
LEMMA UnreadConcernsChange ==
  ASSUME NEW valid, Ordinary(valid), SettingsProblem(valid) = None,
         NEW config, Ordinary(config), SettingsProblem(config) # None
  PROVE  \E path \in ChangedFrom(valid, config) : Concerns(SettingsProblem(config), path)
<1>1. CountOf(valid) \in Nat /\ CountOf(config) \in Nat
  BY DEF Ordinary
<1>2. MembersAre(valid) /\ MembersAre(config)
  BY <1>1, SettingsMembersAre
<1>3. PICK m \in ToSet(SettingsMembers(config)) :
        m.path = SettingsProblem(config) /\ Unread(m, config)
  <2>1. PICK S : SettingsMembers(config) \in Seq(S)
    BY <1>2 DEF MembersAre
  <2>2. QED
    BY <2>1, UnreadIsAtFault DEF SettingsProblem
<1>4. \A n \in ToSet(SettingsMembers(valid)) : ~Unread(n, valid)
  <2>1. PICK S : SettingsMembers(valid) \in Seq(S)
    BY <1>2 DEF MembersAre
  <2>2. QED
    BY <2>1, NoneUnread DEF SettingsProblem, Ordinary, NoneIsNoPath
<1>5. SUFFICES ASSUME Untouched(m.path, valid, config) PROVE FALSE
  BY <1>3, ChangedOrUntouched
<1>6. Unread(m, valid)
  <2>1. IsPath(m.path)
    BY <1>1, MemberPaths
  <2>2. Same(valid, config, m.path) /\ (Len(m.path) = 1 \/ Same(valid, config, Front(m.path)))
    BY <1>5, <2>1, ConcernsItself DEF Untouched
  <2>3. QED
    BY <1>3, <2>2 DEF Unread, Same
<1>7. m \in ToSet(SettingsMembers(valid))
  <2>1. CASE m \in ToSet(TopMembers) \/ m \in ToSet(LimitMembers)
    BY <1>2, <2>1 DEF MembersAre
  <2>2. CASE \E i \in 1..CountOf(config) : m \in ToSet(StrategyMembers(config, i))
    <3>1. PICK i \in 1..CountOf(config) : m \in ToSet(StrategyMembers(config, i))
      BY <2>2
    <3>2. m.path = <<"strategies", Index(i)>> \/ \E x : m.path = At(i, x)
      <4>1. \/ m = Needed(<<"strategies", Index(i)>>, "object")
            \/ \E x : m = MustHave(At(i, x)) \/ m = MayHave(At(i, x))
        BY <3>1, StrategyMembersAre
      <4>2. QED
        BY <4>1 DEF MustHave, MayHave, Needed, Optional
    <3>3. Concerns(m.path, <<"strategies">>) /\ Concerns(m.path, At(i, "kind"))
      BY <3>2, ConcernsStrategy, Zenon
    <3>4. Same(valid, config, <<"strategies">>) /\ Same(valid, config, At(i, "kind"))
      BY <1>5, <3>3 DEF Untouched
    <3>5. i \in 1..CountOf(valid) /\ m \in ToSet(StrategyMembers(valid, i))
      BY <3>1, <3>4, SameCount, SameStrategyMembers
    <3>6. QED
      BY <1>2, <3>5 DEF MembersAre
  <2>3. QED
    BY <1>2, <2>1, <2>2 DEF MembersAre
<1>8. QED
  BY <1>4, <1>6, <1>7

-----------------------------------------------------------------------------
(* The checks, and the settings they look at.                              *)

FirstChecks(s) ==
    LET start == s[<<"period_start">>]
        end == s[<<"period_end">>]
    IN  <<Check(<<"mode">>, s[<<"mode">>] = Backtest),
          Check(<<"period">>, start = None \/ end = None \/ end >= start),
          Check(<<"strategies">>, s[<<"strategies">>] > 0)>>

Constructing(s, i) == Check(<<"strategies", Index(i)>>, Constructible(s, i))

(* What Checks joins.                                                      *)
ChecksAre(s) ==
    /\ \E S : Checks(s) \in Seq(S)
    /\ \A check : check \in ToSet(Checks(s)) <=>
          \/ check \in ToSet(FirstChecks(s)) \/ check \in ToSet(LimitChecks(s))
          \/ \E i \in Strategies(s) :
                check \in ToSet(StrategyChecks(s, i)) \cup {Constructing(s, i)}

LEMMA ElementsOfChecks ==
  ASSUME NEW s, NEW i
  PROVE  /\ FirstChecks(s) \in Seq(ToSet(FirstChecks(s)))
         /\ LimitChecks(s) \in Seq(ToSet(LimitChecks(s)))
         /\ StrategyChecks(s, i) \in Seq(ToSet(StrategyChecks(s, i)))
<1>1. FirstChecks(s) \in Seq(ToSet(FirstChecks(s)))
  BY DEF FirstChecks, ToSet
<1>2. LimitChecks(s) \in Seq(ToSet(LimitChecks(s)))
  BY DEF LimitChecks, ToSet
<1>3. StrategyChecks(s, i) \in Seq(ToSet(StrategyChecks(s, i)))
  <2> DEFINE c1 == Check(At(i, "strategy_id"), s[At(i, "strategy_id")] # Text(""))
             c2 == Check(At(i, "strategy_id"), UniqueId(s, i))
             c3 == Check(At(i, "symbols"), s[At(i, "symbols")] # <<>>)
             c4 == Check(At(i, "requested_quantity"), s[At(i, "requested_quantity")] > 0)
             c5 == Check(At(i, "long_window"), WindowsFit(s, i))
             c6 == Check(At(i, "lookback"), s[At(i, "kind")] = MeanReversion => s[At(i, "lookback")] >= 2)
  <2>1. StrategyChecks(s, i) = <<c1, c2, c3, c4, c5, c6>>
    BY DEF StrategyChecks
  <2> HIDE DEF c1, c2, c3, c4, c5, c6
  <2>2. DOMAIN <<c1, c2, c3, c4, c5, c6>> = {1, 2, 3, 4, 5, 6}
    OBVIOUS
  <2>3. <<c1, c2, c3, c4, c5, c6>> \in Seq(ToSet(<<c1, c2, c3, c4, c5, c6>>))
    BY <2>2 DEF ToSet
  <2>4. QED
    BY <2>1, <2>3, Zenon
<1>4. QED
  BY <1>1, <1>2, <1>3

LEMMA ChecksHold ==
  ASSUME NEW s, s[<<"strategies">>] \in Nat
  PROVE  ChecksAre(s)
<1> DEFINE n == s[<<"strategies">>]
           ss == [i \in 1..n |-> StrategyChecks(s, i)]
           made == [i \in 1..n |-> Constructing(s, i)]
           S == ToSet(FirstChecks(s)) \cup ToSet(LimitChecks(s))
                \cup {Constructing(s, i) : i \in 1..n}
                \cup UNION {ToSet(StrategyChecks(s, i)) : i \in 1..n}
<1>1. Checks(s) = FirstChecks(s) \o FlattenSeq(ss) \o LimitChecks(s) \o made
  BY DEF Checks, FirstChecks, Constructing
<1>2. FirstChecks(s) \in Seq(S) /\ LimitChecks(s) \in Seq(S) /\ made \in Seq(S)
  <2>1. FirstChecks(s) \in Seq(S) /\ LimitChecks(s) \in Seq(S)
    BY ElementsOfChecks
  <2>2. made \in [1..n -> S]
    OBVIOUS
  <2> HIDE DEF S, made
  <2>3. QED
    BY <2>1, <2>2
<1>3. \A i \in 1..n : StrategyChecks(s, i) \in Seq(S)
  <2> TAKE i \in 1..n
  <2>1. StrategyChecks(s, i) \in Seq(ToSet(StrategyChecks(s, i)))
    BY ElementsOfChecks
  <2>2. ToSet(StrategyChecks(s, i)) \subseteq S
    OBVIOUS
  <2> HIDE DEF S
  <2>3. QED
    BY <2>1, <2>2
<1> HIDE DEF S
<1>4. /\ FlattenSeq(ss) \in Seq(S)
      /\ ToSet(FlattenSeq(ss)) = UNION {ToSet(ss[i]) : i \in 1..n}
  <2>1. ss \in [1..n -> Seq(S)]
    BY <1>3
  <2>2. QED
    BY <2>1, FlattenedRange
<1>5. \A c : c \in ToSet(FlattenSeq(ss)) <=> \E i \in 1..n : c \in ToSet(StrategyChecks(s, i))
  BY <1>4
<1>6. \A c : c \in ToSet(made) <=> \E i \in 1..n : c = Constructing(s, i)
  BY DEF ToSet
<1> HIDE DEF ss, made
<1> DEFINE two == FirstChecks(s) \o FlattenSeq(ss)
           three == two \o LimitChecks(s)
<1>7. two \in Seq(S) /\ ToSet(two) = ToSet(FirstChecks(s)) \cup ToSet(FlattenSeq(ss))
  BY <1>2, <1>4, JoinedRange
<1> HIDE DEF two
<1>8. three \in Seq(S) /\ ToSet(three) = ToSet(two) \cup ToSet(LimitChecks(s))
  BY <1>2, <1>7, JoinedRange
<1> HIDE DEF three
<1>9. /\ three \o made \in Seq(S)
      /\ ToSet(three \o made) = ToSet(three) \cup ToSet(made)
  BY <1>2, <1>8, JoinedRange
<1>10. Checks(s) = three \o made
  BY <1>1 DEF two, three
<1>11. QED
  BY <1>5, <1>6, <1>7, <1>8, <1>9, <1>10 DEF ChecksAre, Strategies

(* Settings that are read.                                                 *)
ReadPaths(config) ==
    {m.path : m \in {n \in ToSet(SettingsMembers(config)) : n.as \notin {"object", "long only"}}}

LEMMA SameSetting ==
  ASSUME NEW valid, NEW config, NEW path, Same(valid, config, path),
         path \in ReadPaths(valid), path \in ReadPaths(config)
  PROVE  SettingsFrom(valid)[path] = SettingsFrom(config)[path]
<1>1. \A c : path \in ReadPaths(c) =>
        SettingsFrom(c)[path] = IF path \in DOMAIN c THEN Taken(ReadAs[Last(path)], c[path])
                                ELSE Defaults[Last(path)]
  BY DEF SettingsFrom, ReadPaths
<1>2. QED
  BY <1>1 DEF Same

LEMMA NumbersAreRead ==
  /\ \A x \in {"kind", "strategy_id", "symbols", "requested_quantity", "short_window", "long_window",
               "lookback", "entry_threshold", "rearm_threshold"} :
        ReadAs[x] \notin {"object", "long only"}
  /\ \A x \in {"max_order_quantity", "max_position_notional", "max_gross_exposure",
               "max_daily_loss", "max_open_orders", "starting_cash", "slippage_bps",
               "per_share", "per_trade", "bps"} :
        ReadAs[x] \notin {"object", "long only"}
<1>1. /\ ReadAs["kind"] = "kind" /\ ReadAs["strategy_id"] = "text" /\ ReadAs["symbols"] = "texts"
      /\ ReadAs["requested_quantity"] = "whole" /\ ReadAs["short_window"] = "window"
      /\ ReadAs["long_window"] = "window" /\ ReadAs["lookback"] = "window"
      /\ ReadAs["entry_threshold"] = "number" /\ ReadAs["rearm_threshold"] = "number"
  BY DEF ReadAs
<1>2. /\ ReadAs["max_order_quantity"] = "whole" /\ ReadAs["max_position_notional"] = "amount"
      /\ ReadAs["max_gross_exposure"] = "amount" /\ ReadAs["max_daily_loss"] = "amount"
      /\ ReadAs["max_open_orders"] = "unsigned" /\ ReadAs["starting_cash"] = "amount"
      /\ ReadAs["slippage_bps"] = "number" /\ ReadAs["per_share"] = "amount"
      /\ ReadAs["per_trade"] = "amount" /\ ReadAs["bps"] = "number"
  BY DEF ReadAs
<1>3. QED
  BY <1>1, <1>2

LEMMA TopIsRead ==
  ASSUME NEW config, CountOf(config) \in Nat
  PROVE  \A name \in {"mode", "period_start", "period_end", "strategies"} :
            <<name>> \in ReadPaths(config)
<1>1. MembersAre(config)
  BY SettingsMembersAre
<1>2. \A name : Last(<<name>>) = name
  BY DEF Last
<1>3. ReadAs["mode"] = "mode" /\ ReadAs["period_start"] = "time" /\ ReadAs["period_end"] = "time"
      /\ ReadAs["strategies"] = "array"
  BY DEF ReadAs
<1>4. {MayHave(<<"mode">>), MayHave(<<"period_start">>), MayHave(<<"period_end">>),
       MustHave(<<"strategies">>)} \subseteq ToSet(SettingsMembers(config))
  <2>1. {MayHave(<<"mode">>), MayHave(<<"period_start">>), MayHave(<<"period_end">>),
         MustHave(<<"strategies">>)} \subseteq ToSet(TopMembers)
    <3>1. DOMAIN TopMembers = {1, 2, 3, 4, 5}
      BY DEF TopMembers
    <3>2. QED
      BY <3>1 DEF ToSet, TopMembers
  <2>2. QED
    BY <1>1, <2>1 DEF MembersAre
<1>5. \A m : (m \in ToSet(SettingsMembers(config)) /\ m.as \notin {"object", "long only"})
         => m.path \in ReadPaths(config)
  BY DEF ReadPaths
<1>6. \A name : /\ MayHave(<<name>>).path = <<name>> /\ MayHave(<<name>>).as = ReadAs[name]
                /\ MustHave(<<name>>).path = <<name>> /\ MustHave(<<name>>).as = ReadAs[name]
  BY <1>2 DEF MayHave, MustHave, Needed, Optional
<1>7. <<"mode">> \in ReadPaths(config) /\ <<"period_start">> \in ReadPaths(config)
      /\ <<"period_end">> \in ReadPaths(config) /\ <<"strategies">> \in ReadPaths(config)
  <2>1. /\ MayHave(<<"mode">>).as = "mode" /\ MayHave(<<"period_start">>).as = "time"
        /\ MayHave(<<"period_end">>).as = "time" /\ MustHave(<<"strategies">>).as = "array"
    BY <1>3, <1>6
  <2>2. QED
    BY <1>4, <1>5, <1>6, <2>1
<1>8. QED
  BY <1>7

LEMMA StrategyIsRead ==
  ASSUME NEW config, CountOf(config) \in Nat, NEW i \in 1..CountOf(config)
  PROVE  \A x \in {"kind", "strategy_id", "symbols", "requested_quantity"} \cup Parameters(config, i) :
            At(i, x) \in ReadPaths(config)
<1>1. MembersAre(config)
  BY SettingsMembersAre
<1>2. ASSUME NEW x PROVE Last(At(i, x)) = x
  <2>1. Last(<<"strategies", Index(i), x>>) = x
    BY DEF Last
  <2>2. QED
    BY <2>1 DEF At
<1>3. \A x \in {"kind", "strategy_id", "symbols", "requested_quantity"} \cup Parameters(config, i) :
          ReadAs[x] \notin {"object", "long only"}
  BY NumbersAreRead DEF Parameters
<1>4. /\ \A x \in {"kind", "strategy_id", "symbols", "requested_quantity"} :
            MustHave(At(i, x)) \in ToSet(SettingsMembers(config))
      /\ \A x \in Parameters(config, i) : MayHave(At(i, x)) \in ToSet(SettingsMembers(config))
  <2>1. \A m \in ToSet(StrategyMembers(config, i)) : m \in ToSet(SettingsMembers(config))
    BY <1>1 DEF MembersAre
  <2>2. /\ \A x \in {"kind", "strategy_id", "symbols", "requested_quantity"} :
              MustHave(At(i, x)) \in ToSet(StrategyMembers(config, i))
        /\ \A x \in Parameters(config, i) : MayHave(At(i, x)) \in ToSet(StrategyMembers(config, i))
    <3> DEFINE all == ToSet(StrategyMembers(config, i))
               whole == Needed(<<"strategies", Index(i)>>, "object")
    <3>1. all = {whole}
               \cup {MustHave(At(i, x)) : x \in {"kind", "strategy_id", "symbols", "requested_quantity"}}
               \cup {MayHave(At(i, x)) : x \in Parameters(config, i)}
      BY StrategyMembersAre
    <3> HIDE DEF all, whole
    <3>2. QED
      BY <3>1 DEF all
  <2>3. QED
    BY <2>1, <2>2
<1>5. \A m : (m \in ToSet(SettingsMembers(config)) /\ m.as \notin {"object", "long only"})
         => m.path \in ReadPaths(config)
  BY DEF ReadPaths
<1>6. \A x : /\ MayHave(At(i, x)).path = At(i, x) /\ MayHave(At(i, x)).as = ReadAs[x]
             /\ MustHave(At(i, x)).path = At(i, x) /\ MustHave(At(i, x)).as = ReadAs[x]
  BY <1>2 DEF MayHave, MustHave, Needed, Optional
<1>7. ASSUME NEW x \in {"kind", "strategy_id", "symbols", "requested_quantity"}
      PROVE  At(i, x) \in ReadPaths(config)
  <2>1. MustHave(At(i, x)) \in ToSet(SettingsMembers(config)) /\ ReadAs[x] \notin {"object", "long only"}
    BY <1>3, <1>4
  <2>2. QED
    BY <1>5, <1>6, <2>1
<1>8. ASSUME NEW x \in Parameters(config, i)
      PROVE  At(i, x) \in ReadPaths(config)
  <2>1. MayHave(At(i, x)) \in ToSet(SettingsMembers(config)) /\ ReadAs[x] \notin {"object", "long only"}
    BY <1>3, <1>4
  <2>2. QED
    BY <1>5, <1>6, <2>1
<1>9. QED
  BY <1>7, <1>8

LimitPaths ==
    {<<"risk", "max_order_quantity">>, <<"risk", "max_position_notional">>,
     <<"risk", "max_gross_exposure">>, <<"risk", "max_daily_loss">>,
     <<"risk", "max_open_orders">>, <<"simulation", "starting_cash">>,
     <<"simulation", "slippage_bps">>, <<"simulation", "fees", "per_share">>,
     <<"simulation", "fees", "per_trade">>, <<"simulation", "fees", "bps">>}

LEMMA LimitsAreRead ==
  ASSUME NEW config, CountOf(config) \in Nat
  PROVE  LimitPaths \subseteq ReadPaths(config)
<1>1. MembersAre(config)
  BY SettingsMembersAre
<1>2. \A path \in LimitPaths : MustHave(path) \in ToSet(SettingsMembers(config))
  BY <1>1, LimitMembersAre DEF MembersAre, LimitPaths
<1>3. \A path \in LimitPaths : Last(path) \in
          {"max_order_quantity", "max_position_notional", "max_gross_exposure", "max_daily_loss",
           "max_open_orders", "starting_cash", "slippage_bps", "per_share", "per_trade", "bps"}
  <2>1. ASSUME NEW a, NEW b PROVE Last(<<a, b>>) = b
    BY DEF Last
  <2>2. ASSUME NEW a, NEW b, NEW c PROVE Last(<<a, b, c>>) = c
    BY DEF Last
  <2>3. QED
    BY <2>1, <2>2 DEF LimitPaths
<1>4. \A path : MustHave(path).path = path /\ MustHave(path).as = ReadAs[Last(path)]
  BY DEF MustHave, Needed
<1>5. QED
  BY <1>2, <1>3, <1>4, NumbersAreRead DEF ReadPaths

Readable(config) == Ordinary(config) /\ SettingsProblem(config) = None

LEMMA ReadableMembers ==
  ASSUME NEW config, Readable(config)
  PROVE  /\ CountOf(config) \in Nat /\ MembersAre(config)
         /\ \A m \in ToSet(SettingsMembers(config)) : ~Unread(m, config)
<1>1. CountOf(config) \in Nat /\ MembersAre(config)
  BY SettingsMembersAre DEF Readable, Ordinary
<1>2. PICK S : SettingsMembers(config) \in Seq(S)
  BY <1>1 DEF MembersAre
<1>3. QED
  BY <1>1, <1>2, NoneUnread DEF Readable, Ordinary, NoneIsNoPath, SettingsProblem

LEMMA CountRead ==
  ASSUME NEW config, Readable(config)
  PROVE  /\ <<"strategies">> \in DOMAIN config
         /\ SettingsFrom(config)[<<"strategies">>] = CountOf(config)
<1>1. MustHave(<<"strategies">>) \in ToSet(SettingsMembers(config))
  <2>1. MustHave(<<"strategies">>) \in ToSet(TopMembers)
    <3>1. DOMAIN TopMembers = {1, 2, 3, 4, 5}
      BY DEF TopMembers
    <3>2. QED
      BY <3>1 DEF ToSet, TopMembers
  <2>2. QED
    BY <2>1, ReadableMembers DEF MembersAre
<1>2. ReadAs["strategies"] = "array" /\ Last(<<"strategies">>) = "strategies"
      /\ Len(<<"strategies">>) = 1
  BY DEF ReadAs, Last
<1>3. MustHave(<<"strategies">>) = [path |-> <<"strategies">>, as |-> "array", needed |-> TRUE]
  BY <1>2 DEF MustHave, Needed
<1>4. <<"strategies">> \in DOMAIN config /\ Reads("array", config[<<"strategies">>])
  BY <1>1, <1>2, <1>3, ReadableMembers DEF Unread
<1>5. config[<<"strategies">>][1] = "Array"
  BY <1>4 DEF Reads
<1>6. Taken("array", config[<<"strategies">>]) = config[<<"strategies">>][2]
  BY DEF Taken
<1>7. <<"strategies">> \in ReadPaths(config)
  BY TopIsRead, ReadableMembers
<1>8. SettingsFrom(config)[<<"strategies">>] = Taken("array", config[<<"strategies">>])
  BY <1>2, <1>4, <1>7 DEF SettingsFrom, ReadPaths
<1>9. QED
  BY <1>4, <1>5, <1>6, <1>8 DEF CountOf

LEMMA KindRead ==
  ASSUME NEW config, Readable(config), NEW i \in 1..CountOf(config)
  PROVE  /\ At(i, "kind") \in DOMAIN config
         /\ SettingsFrom(config)[At(i, "kind")] = config[At(i, "kind")]
<1> DEFINE whole == <<"strategies", Index(i)>>
<1>1. /\ Needed(whole, "object") \in ToSet(SettingsMembers(config))
      /\ MustHave(At(i, "kind")) \in ToSet(SettingsMembers(config))
  <2>1. \A m \in ToSet(StrategyMembers(config, i)) : m \in ToSet(SettingsMembers(config))
    BY ReadableMembers DEF MembersAre
  <2>2. /\ Needed(whole, "object") \in ToSet(StrategyMembers(config, i))
        /\ MustHave(At(i, "kind")) \in ToSet(StrategyMembers(config, i))
    BY StrategyMembersAre
  <2>3. QED
    BY <2>1, <2>2
<1>2. Len(whole) = 2 /\ Front(whole) = <<"strategies">>
      /\ Len(At(i, "kind")) = 3 /\ Front(At(i, "kind")) = whole /\ Last(At(i, "kind")) = "kind"
  <2>1. Front(whole) = <<"strategies">>
    BY PathFront
  <2>2. Front(<<"strategies", Index(i), "kind">>) = whole
    BY PathFront
  <2>3. QED
    BY <2>1, <2>2 DEF Last, At
<1>3. whole \in DOMAIN config
  <2>1. ~Unread(Needed(whole, "object"), config)
    BY <1>1, ReadableMembers
  <2>2. QED
    BY <1>2, <2>1, CountRead DEF Unread, Needed
<1>4. At(i, "kind") \in DOMAIN config
  <2>1. ~Unread(MustHave(At(i, "kind")), config)
    BY <1>1, ReadableMembers
  <2>2. QED
    BY <1>2, <1>3, <2>1 DEF Unread, MustHave, Needed
<1>5. ReadAs["kind"] = "kind" /\ Taken("kind", config[At(i, "kind")]) = config[At(i, "kind")]
  BY DEF ReadAs, Taken
<1>6. At(i, "kind") \in ReadPaths(config)
  BY StrategyIsRead, ReadableMembers
<1>7. SettingsFrom(config)[At(i, "kind")] = Taken("kind", config[At(i, "kind")])
  BY <1>2, <1>4, <1>5, <1>6 DEF SettingsFrom, ReadPaths
<1>8. QED
  BY <1>4, <1>5, <1>7

(* The settings of a strategy that nothing is changed about.               *)
LEMMA SameStrategy ==
  ASSUME NEW valid, Readable(valid), NEW config, Readable(config),
         NEW i \in 1..CountOf(config), i \in 1..CountOf(valid),
         \A x : Same(valid, config, At(i, x))
  PROVE  LET s == SettingsFrom(config)
             t == SettingsFrom(valid)
         IN  /\ \A x \in {"kind", "strategy_id", "symbols", "requested_quantity"} :
                   s[At(i, x)] = t[At(i, x)]
             /\ s[At(i, "kind")] = SmaCrossover =>
                   \A x \in {"short_window", "long_window"} : s[At(i, x)] = t[At(i, x)]
             /\ s[At(i, "kind")] = MeanReversion =>
                   \A x \in {"lookback", "entry_threshold", "rearm_threshold"} :
                      s[At(i, x)] = t[At(i, x)]
<1> DEFINE s == SettingsFrom(config)
           t == SettingsFrom(valid)
<1>1. \A x \in {"kind", "strategy_id", "symbols", "requested_quantity"} \cup Parameters(config, i) :
         At(i, x) \in ReadPaths(config)
  BY StrategyIsRead, ReadableMembers
<1>2. \A x \in {"kind", "strategy_id", "symbols", "requested_quantity"} \cup Parameters(valid, i) :
         At(i, x) \in ReadPaths(valid)
  BY StrategyIsRead, ReadableMembers
<1>3. Parameters(valid, i) = Parameters(config, i)
  BY DEF Parameters, IsCrossover, Same
<1>4. \A x \in {"kind", "strategy_id", "symbols", "requested_quantity"} \cup Parameters(config, i) :
         s[At(i, x)] = t[At(i, x)]
  BY <1>1, <1>2, <1>3, SameSetting
<1>5. s[At(i, "kind")] = config[At(i, "kind")] /\ At(i, "kind") \in DOMAIN config
  BY KindRead
<1>6. SmaCrossover # MeanReversion
  BY DEF SmaCrossover, MeanReversion, Text
<1>7. /\ s[At(i, "kind")] = SmaCrossover => Parameters(config, i) = {"short_window", "long_window"}
      /\ s[At(i, "kind")] = MeanReversion =>
            Parameters(config, i) = {"lookback", "entry_threshold", "rearm_threshold"}
  BY <1>5, <1>6 DEF Parameters, IsCrossover
<1> HIDE DEF s, t
<1>8. QED
  BY <1>4, <1>7 DEF s, t

(* A check fails for what is changed, with its field.                      *)
LEMMA FirstChecksConcern ==
  ASSUME NEW valid, Readable(valid), NEW config, Readable(config),
         NEW check \in ToSet(FirstChecks(SettingsFrom(config))), ~check.holds,
         Untouched(check.field, valid, config)
  PROVE  \E c \in ToSet(FirstChecks(SettingsFrom(valid))) : ~c.holds
<1> DEFINE s == SettingsFrom(config)
           t == SettingsFrom(valid)
<1>1. \A u : DOMAIN FirstChecks(u) = {1, 2, 3}
  BY DEF FirstChecks
<1>2. PICK k \in {1, 2, 3} : check = FirstChecks(s)[k]
  BY <1>1 DEF ToSet
<1>3. \A name \in {"mode", "period_start", "period_end", "strategies"} :
         Same(valid, config, <<name>>) => s[<<name>>] = t[<<name>>]
  BY TopIsRead, ReadableMembers, SameSetting
<1>4. \A u : /\ FirstChecks(u)[1].field = <<"mode">>
             /\ FirstChecks(u)[2].field = <<"period">>
             /\ FirstChecks(u)[3].field = <<"strategies">>
  BY DEF FirstChecks, Check
<1>5. \A u : /\ FirstChecks(u)[1].holds <=> u[<<"mode">>] = Backtest
             /\ FirstChecks(u)[2].holds <=>
                  (u[<<"period_start">>] = None \/ u[<<"period_end">>] = None
                     \/ u[<<"period_end">>] >= u[<<"period_start">>])
             /\ FirstChecks(u)[3].holds <=> u[<<"strategies">>] > 0
  BY DEF FirstChecks, Check
<1>6. FirstChecks(t)[k] \in ToSet(FirstChecks(t))
  BY <1>1 DEF ToSet
<1>7. CASE k = 1
  <2>1. Concerns(check.field, <<"mode">>)
    BY <1>2, <1>4, <1>7, ConcernsAround
  <2>2. s[<<"mode">>] = t[<<"mode">>]
    BY <1>3, <2>1 DEF Untouched
  <2>3. QED
    BY <1>2, <1>5, <1>6, <1>7, <2>2
<1>8. CASE k = 2
  <2>1. /\ Concerns(check.field, <<"period_start">>) /\ Concerns(check.field, <<"period_end">>)
    BY <1>2, <1>4, <1>8 DEF Concerns
  <2>2. s[<<"period_start">>] = t[<<"period_start">>] /\ s[<<"period_end">>] = t[<<"period_end">>]
    BY <1>3, <2>1 DEF Untouched
  <2>3. QED
    BY <1>2, <1>5, <1>6, <1>8, <2>2
<1>9. CASE k = 3
  <2>1. Concerns(check.field, <<"strategies">>)
    BY <1>2, <1>4, <1>9, ConcernsAround
  <2>2. s[<<"strategies">>] = t[<<"strategies">>]
    BY <1>3, <2>1 DEF Untouched
  <2>3. QED
    BY <1>2, <1>5, <1>6, <1>9, <2>2
<1>10. QED
  BY <1>2, <1>7, <1>8, <1>9

LEMMA LimitChecksConcern ==
  ASSUME NEW valid, Readable(valid), NEW config, Readable(config),
         NEW check \in ToSet(LimitChecks(SettingsFrom(config))), ~check.holds,
         Untouched(check.field, valid, config)
  PROVE  \E c \in ToSet(LimitChecks(SettingsFrom(valid))) : ~c.holds
<1> DEFINE s == SettingsFrom(config)
           t == SettingsFrom(valid)
           Fee(x) == <<"simulation", "fees", x>>
<1>1. \A u : DOMAIN LimitChecks(u) = {1, 2, 3, 4, 5, 6, 7, 8, 9}
  BY DEF LimitChecks
<1>2. \A path \in LimitPaths : Same(valid, config, path) => s[path] = t[path]
  BY LimitsAreRead, ReadableMembers, SameSetting
<1>3. PICK k \in {1, 2, 3, 4, 5, 6, 7, 8, 9} : check = LimitChecks(s)[k]
  BY <1>1 DEF ToSet
<1>4. LimitChecks(t)[k] \in ToSet(LimitChecks(t))
  BY <1>1 DEF ToSet
<1>5. \A u : /\ LimitChecks(u)[1].field = <<"risk", "max_order_quantity">>
             /\ LimitChecks(u)[1].holds <=> u[<<"risk", "max_order_quantity">>] > 0
             /\ LimitChecks(u)[2].field = <<"risk", "max_position_notional">>
             /\ LimitChecks(u)[2].holds <=> u[<<"risk", "max_position_notional">>] > 0
             /\ LimitChecks(u)[3].field = <<"risk", "max_gross_exposure">>
             /\ LimitChecks(u)[3].holds <=> u[<<"risk", "max_gross_exposure">>] > 0
             /\ LimitChecks(u)[4].field = <<"risk", "max_daily_loss">>
             /\ LimitChecks(u)[4].holds <=> u[<<"risk", "max_daily_loss">>] > 0
             /\ LimitChecks(u)[5].field = <<"risk", "max_open_orders">>
             /\ LimitChecks(u)[5].holds <=> u[<<"risk", "max_open_orders">>] > 0
             /\ LimitChecks(u)[6].field = <<"simulation", "starting_cash">>
             /\ LimitChecks(u)[6].holds <=> u[<<"simulation", "starting_cash">>] > 0
  BY DEF LimitChecks, Check
<1>6. \A u : /\ LimitChecks(u)[7].field = <<"simulation", "slippage_bps">>
             /\ LimitChecks(u)[7].holds <=> u[<<"simulation", "slippage_bps">>] >= 0
             /\ LimitChecks(u)[8].field = Fee("per_share")
             /\ LimitChecks(u)[8].holds <=> u[Fee("per_share")] >= 0
             /\ LimitChecks(u)[9].field = <<"simulation", "fees">>
             /\ LimitChecks(u)[9].holds <=> u[Fee("per_trade")] >= 0 /\ u[Fee("bps")] >= 0
  BY DEF LimitChecks, Check
<1>7. CASE k \in {1, 2, 3, 4, 5, 6}
  <2>1. PICK path \in LimitPaths :
          /\ \E a, b : path = <<a, b>>
          /\ \A u : /\ LimitChecks(u)[k].field = path
                    /\ LimitChecks(u)[k].holds <=> u[path] > 0
    <3>1. CASE k = 1
      BY <1>5, <3>1 DEF LimitPaths
    <3>2. CASE k = 2
      BY <1>5, <3>2 DEF LimitPaths
    <3>3. CASE k = 3
      BY <1>5, <3>3 DEF LimitPaths
    <3>4. CASE k = 4
      BY <1>5, <3>4 DEF LimitPaths
    <3>5. CASE k = 5
      BY <1>5, <3>5 DEF LimitPaths
    <3>6. CASE k = 6
      BY <1>5, <3>6 DEF LimitPaths
    <3>7. QED
      BY <1>7, <3>1, <3>2, <3>3, <3>4, <3>5, <3>6
  <2>2. Concerns(path, path)
    BY <2>1, ConcernsAround
  <2>3. s[path] = t[path]
    BY <1>2, <1>3, <2>1, <2>2 DEF Untouched
  <2>4. QED
    BY <1>3, <1>4, <2>1, <2>3
<1>8. CASE k = 7
  <2>1. Concerns(check.field, <<"simulation", "slippage_bps">>)
    BY <1>3, <1>6, <1>8, ConcernsAround, Zenon
  <2>2. s[<<"simulation", "slippage_bps">>] = t[<<"simulation", "slippage_bps">>]
    BY <1>2, <2>1 DEF Untouched, LimitPaths
  <2>3. QED
    BY <1>3, <1>4, <1>6, <1>8, <2>2
<1>9. CASE k = 8
  <2>1. Concerns(check.field, Fee("per_share"))
    BY <1>3, <1>6, <1>9, ConcernsAround, Zenon
  <2>2. s[Fee("per_share")] = t[Fee("per_share")]
    BY <1>2, <2>1 DEF Untouched, LimitPaths
  <2>3. QED
    BY <1>3, <1>4, <1>6, <1>9, <2>2
<1>10. CASE k = 9
  <2>1. Concerns(check.field, Fee("per_trade")) /\ Concerns(check.field, Fee("bps"))
    BY <1>3, <1>6, <1>10, ConcernsAround, Zenon
  <2>2. s[Fee("per_trade")] = t[Fee("per_trade")] /\ s[Fee("bps")] = t[Fee("bps")]
    BY <1>2, <2>1 DEF Untouched, LimitPaths
  <2>3. QED
    BY <1>3, <1>4, <1>6, <1>10, <2>2
<1>11. QED
  BY <1>3, <1>7, <1>8, <1>9, <1>10

LEMMA StrategyChecksSay ==
  ASSUME NEW u, NEW i
  PROVE  /\ DOMAIN StrategyChecks(u, i) = {1, 2, 3, 4, 5, 6}
         /\ StrategyChecks(u, i)[1].field = At(i, "strategy_id")
         /\ StrategyChecks(u, i)[1].holds = (u[At(i, "strategy_id")] # Text(""))
         /\ StrategyChecks(u, i)[2].field = At(i, "strategy_id")
         /\ StrategyChecks(u, i)[2].holds = UniqueId(u, i)
         /\ StrategyChecks(u, i)[3].field = At(i, "symbols")
         /\ StrategyChecks(u, i)[3].holds = (u[At(i, "symbols")] # <<>>)
         /\ StrategyChecks(u, i)[4].field = At(i, "requested_quantity")
         /\ StrategyChecks(u, i)[4].holds = (u[At(i, "requested_quantity")] > 0)
         /\ StrategyChecks(u, i)[5].field = At(i, "long_window")
         /\ StrategyChecks(u, i)[5].holds = WindowsFit(u, i)
         /\ StrategyChecks(u, i)[6].field = At(i, "lookback")
         /\ StrategyChecks(u, i)[6].holds =
               (u[At(i, "kind")] = MeanReversion => u[At(i, "lookback")] >= 2)
<1>0. DOMAIN StrategyChecks(u, i) = {1, 2, 3, 4, 5, 6}
  BY DEF StrategyChecks
<1>1. /\ StrategyChecks(u, i)[1].field = At(i, "strategy_id")
      /\ StrategyChecks(u, i)[1].holds = (u[At(i, "strategy_id")] # Text(""))
  BY DEF StrategyChecks, Check
<1>2. /\ StrategyChecks(u, i)[2].field = At(i, "strategy_id")
      /\ StrategyChecks(u, i)[2].holds = UniqueId(u, i)
  BY DEF StrategyChecks, Check
<1>3. /\ StrategyChecks(u, i)[3].field = At(i, "symbols")
      /\ StrategyChecks(u, i)[3].holds = (u[At(i, "symbols")] # <<>>)
  BY DEF StrategyChecks, Check
<1>4. /\ StrategyChecks(u, i)[4].field = At(i, "requested_quantity")
      /\ StrategyChecks(u, i)[4].holds = (u[At(i, "requested_quantity")] > 0)
  BY DEF StrategyChecks, Check
<1>5. /\ StrategyChecks(u, i)[5].field = At(i, "long_window")
      /\ StrategyChecks(u, i)[5].holds = WindowsFit(u, i)
  BY DEF StrategyChecks, Check
<1>6. /\ StrategyChecks(u, i)[6].field = At(i, "lookback")
      /\ StrategyChecks(u, i)[6].holds =
            (u[At(i, "kind")] = MeanReversion => u[At(i, "lookback")] >= 2)
  BY DEF StrategyChecks, Check
<1>7. QED
  BY <1>0, <1>1, <1>2, <1>3, <1>4, <1>5, <1>6, Zenon

LEMMA StrategyChecksConcern ==
  ASSUME NEW valid, Readable(valid), NEW config, Readable(config), NEW i \in 1..CountOf(config),
         NEW check \in ToSet(StrategyChecks(SettingsFrom(config), i))
                       \cup {Constructing(SettingsFrom(config), i)}, ~check.holds,
         Untouched(check.field, valid, config)
  PROVE  /\ i \in 1..CountOf(valid)
         /\ \E c \in ToSet(StrategyChecks(SettingsFrom(valid), i))
                     \cup {Constructing(SettingsFrom(valid), i)} : ~c.holds
<1> DEFINE s == SettingsFrom(config)
           t == SettingsFrom(valid)
<1>1. (\E k \in {1, 2, 3, 4, 5, 6} : check = StrategyChecks(s, i)[k]) \/ check = Constructing(s, i)
  BY StrategyChecksSay DEF ToSet
<1>2. check.field = <<"strategies", Index(i)>> \/ \E x : check.field = At(i, x)
  <2>1. CASE check = Constructing(s, i)
    BY <2>1 DEF Constructing, Check
  <2>2. ASSUME NEW k \in {1, 2, 3, 4, 5, 6}, check = StrategyChecks(s, i)[k]
        PROVE  \E x : check.field = At(i, x)
    <3> HIDE DEF s
    <3>1. StrategyChecks(s, i)[k].field \in
            {At(i, "strategy_id"), At(i, "symbols"), At(i, "requested_quantity"),
             At(i, "long_window"), At(i, "lookback")}
      <4>1. CASE k = 1
        BY <4>1 DEF StrategyChecks, Check
      <4>2. CASE k = 2
        BY <4>2 DEF StrategyChecks, Check
      <4>3. CASE k = 3
        BY <4>3 DEF StrategyChecks, Check
      <4>4. CASE k = 4
        BY <4>4 DEF StrategyChecks, Check
      <4>5. CASE k = 5
        BY <4>5 DEF StrategyChecks, Check
      <4>6. CASE k = 6
        BY <4>6 DEF StrategyChecks, Check
      <4>7. QED
        BY <4>1, <4>2, <4>3, <4>4, <4>5, <4>6
    <3>2. QED
      BY <2>2, <3>1
  <2>3. QED
    BY <1>1, <2>1, <2>2
<1>3. Same(valid, config, <<"strategies">>) /\ \A x : Same(valid, config, At(i, x))
  <2>1. Concerns(check.field, <<"strategies">>) /\ \A x : Concerns(check.field, At(i, x))
    BY <1>2, ConcernsStrategy, Zenon
  <2>2. QED
    BY <2>1 DEF Untouched
<1>4. CountOf(valid) = CountOf(config) /\ i \in 1..CountOf(valid)
  BY <1>3, SameCount
<1>5. /\ \A x \in {"kind", "strategy_id", "symbols", "requested_quantity"} :
            s[At(i, x)] = t[At(i, x)]
      /\ s[At(i, "kind")] = SmaCrossover =>
            \A x \in {"short_window", "long_window"} : s[At(i, x)] = t[At(i, x)]
      /\ s[At(i, "kind")] = MeanReversion =>
            \A x \in {"lookback", "entry_threshold", "rearm_threshold"} : s[At(i, x)] = t[At(i, x)]
  BY <1>3, <1>4, SameStrategy
<1>6. /\ \A k \in {1, 2, 3, 4, 5, 6} : StrategyChecks(t, i)[k] \in ToSet(StrategyChecks(t, i))
      /\ \A u : u \in ToSet(StrategyChecks(t, i)) \cup {Constructing(t, i)} <=>
                  u \in ToSet(StrategyChecks(t, i)) \/ u = Constructing(t, i)
  BY StrategyChecksSay DEF ToSet
<1> DEFINE Faulty == \E c \in ToSet(StrategyChecks(t, i)) \cup {Constructing(t, i)} : ~c.holds
<1>7. WindowsFit(s, i) <=> WindowsFit(t, i)
  BY <1>5 DEF WindowsFit
<1>8. Constructible(s, i) <=> Constructible(t, i)
  BY <1>5 DEF Constructible
<1>9. ASSUME check = StrategyChecks(s, i)[2] PROVE UniqueId(t, i) => UniqueId(s, i)
  <2>1. check.field = At(i, "strategy_id")
    BY <1>9, StrategyChecksSay
  <2>2. ASSUME NEW j \in 1..(i - 1) PROVE s[At(j, "strategy_id")] = t[At(j, "strategy_id")]
    <3>1. Concerns(check.field, At(j, "strategy_id"))
      BY <2>1, ConcernsStrategy, Zenon
    <3>2. Same(valid, config, At(j, "strategy_id"))
      BY <3>1 DEF Untouched
    <3>3. CountOf(config) \in Nat
      BY ReadableMembers
    <3>4. j \in 1..CountOf(config) /\ j \in 1..CountOf(valid)
      BY <1>4, <3>3
    <3>5. At(j, "strategy_id") \in ReadPaths(config) /\ At(j, "strategy_id") \in ReadPaths(valid)
      BY <3>4, StrategyIsRead, ReadableMembers
    <3>6. QED
      BY <3>2, <3>5, SameSetting
  <2>3. s[At(i, "strategy_id")] = t[At(i, "strategy_id")]
    BY <1>5
  <2> HIDE DEF s, t
  <2>4. QED
    BY <2>2, <2>3 DEF UniqueId
<1> HIDE DEF s, t
<1>10. ASSUME NEW k \in {1, 2, 3, 4, 5, 6}, check = StrategyChecks(s, i)[k] PROVE Faulty
  <2>1. ~StrategyChecks(t, i)[k].holds
    <3>1. CASE k = 1
      BY <1>5, <1>10, <3>1 DEF StrategyChecks, Check
    <3>2. CASE k = 2
      BY <1>9, <1>10, <3>2 DEF StrategyChecks, Check
    <3>3. CASE k = 3
      BY <1>5, <1>10, <3>3 DEF StrategyChecks, Check
    <3>4. CASE k = 4
      BY <1>5, <1>10, <3>4 DEF StrategyChecks, Check
    <3>5. CASE k = 5
      BY <1>7, <1>10, <3>5 DEF StrategyChecks, Check
    <3>6. CASE k = 6
      BY <1>5, <1>10, <3>6 DEF StrategyChecks, Check
    <3>7. QED
      BY <3>1, <3>2, <3>3, <3>4, <3>5, <3>6
  <2>2. QED
    BY <1>6, <2>1
<1>11. ASSUME check = Constructing(s, i) PROVE Faulty
  <2>1. ~Constructing(t, i).holds
    BY <1>8, <1>11 DEF Constructing, Check
  <2>2. QED
    BY <2>1
<1>12. Faulty
  BY <1>1, <1>10, <1>11 DEF s
<1>13. QED
  BY <1>4, <1>12 DEF t

(* The first check that fails.                                             *)
LEMMA FailingConcernsChange ==
  ASSUME NEW valid, Readable(valid), NEW config, Readable(config),
         Problem(SettingsFrom(valid)) = None,
         \A check \in ToSet(Checks(SettingsFrom(valid))) : check.field # None,
         Problem(SettingsFrom(config)) # None
  PROVE  \E path \in ChangedFrom(valid, config) : Concerns(Problem(SettingsFrom(config)), path)
<1> DEFINE s == SettingsFrom(config)
           t == SettingsFrom(valid)
<1>1. /\ s[<<"strategies">>] = CountOf(config) /\ CountOf(config) \in Nat
      /\ t[<<"strategies">>] = CountOf(valid) /\ CountOf(valid) \in Nat
  BY CountRead, ReadableMembers
<1>2. ChecksAre(s) /\ ChecksAre(t)
  BY <1>1, ChecksHold
<1>3. PICK check \in ToSet(Checks(s)) : check.field = Problem(s) /\ ~check.holds
  <2>1. PICK S : Checks(s) \in Seq(S)
    BY <1>2 DEF ChecksAre
  <2>2. QED
    BY <2>1, FailingIsAtFault
<1>4. \A c \in ToSet(Checks(t)) : c.holds
  <2>1. PICK S : Checks(t) \in Seq(S)
    BY <1>2 DEF ChecksAre
  <2>2. QED
    BY <2>1, NoneFails
<1>5. SUFFICES ASSUME Untouched(check.field, valid, config) PROVE FALSE
  BY <1>3, ChangedOrUntouched
<1>6. \E c \in ToSet(Checks(t)) : ~c.holds
  <2>1. CASE check \in ToSet(FirstChecks(s))
    BY <1>2, <1>3, <1>5, <2>1, FirstChecksConcern DEF ChecksAre
  <2>2. CASE check \in ToSet(LimitChecks(s))
    BY <1>2, <1>3, <1>5, <2>2, LimitChecksConcern DEF ChecksAre
  <2>3. CASE \E i \in Strategies(s) : check \in ToSet(StrategyChecks(s, i)) \cup {Constructing(s, i)}
    <3>1. PICK i \in 1..CountOf(config) :
            check \in ToSet(StrategyChecks(s, i)) \cup {Constructing(s, i)}
      BY <1>1, <2>3 DEF Strategies
    <3>2. /\ i \in 1..CountOf(valid)
          /\ \E c \in ToSet(StrategyChecks(t, i)) \cup {Constructing(t, i)} : ~c.holds
      BY <1>3, <1>5, <3>1, StrategyChecksConcern
    <3>3. i \in Strategies(t)
      BY <1>1, <3>2 DEF Strategies
    <3> HIDE DEF s, t
    <3>4. QED
      BY <1>2, <3>2, <3>3 DEF ChecksAre
  <2> HIDE DEF s, t
  <2>4. QED
    BY <1>2, <1>3, <2>1, <2>2, <2>3 DEF ChecksAre
<1>7. QED
  BY <1>4, <1>6

-----------------------------------------------------------------------------
(* Refusals.                                                               *)

StartIn(m) == CommandFrom(m.payload)

(* A refusal that names a field answers a start the run was sent, and the  *)
(* reader handles a command it was sent.                                   *)
Faulted(r) ==
    \E m \in UNION ToSet(scenario) :
        /\ HasId(m) /\ IdIn(m) = Text(startCommand[r])
        /\ StartIn(m).action = "start_backtest" /\ refusal[r] = InvalidField(StartIn(m))

RefusalInv ==
    /\ scenario \in Scenarios /\ delivered \in Nat
    /\ startCommand = [r \in Runs |-> startCommand[r]] /\ refusal = [r \in Runs |-> refusal[r]]
    /\ pending # None =>
          \E m \in UNION ToSet(scenario) : IsCommand(m) /\ pending = Considered(StartIn(m))
    /\ \A r \in Runs :
          refusal[r] \notin {None, <<"stopping">>, <<"bars">>, <<"queue">>} => Faulted(r)

LEMMA CommandHasId ==
  ASSUME NEW m, IsCommand(m), NoneIsNoPath(CommandMembers(m.payload))
  PROVE  /\ HasId(m)
         /\ <<"action">> \in DOMAIN m.payload /\ m.payload[<<"action">>] \in Texts(CommandActions)
<1> DEFINE first == <<Needed(<<"command_id">>, "text"), Needed(<<"run_id">>, "text"),
                      Needed(<<"issued_at">>, "time"), Needed(<<"action">>, "action")>>
           start == <<Needed(<<"settings">>, "object")>>
           switch == <<Needed(<<"engaged">>, "boolean"), Optional(<<"reason">>, "text")>>
           rest == IF ActionIs(m.payload, "start_backtest") THEN start
                   ELSE IF ActionIs(m.payload, "set_kill_switch") THEN switch ELSE <<>>
           id == Needed(<<"command_id">>, "text")
           action == Needed(<<"action">>, "action")
           S == ToSet(first) \cup ToSet(rest)
<1>1. CommandMembers(m.payload) = first \o rest
  BY DEF CommandMembers
<1>2. first \in Seq(ToSet(first)) /\ id \in ToSet(first) /\ action \in ToSet(first)
  <2>1. DOMAIN first = {1, 2, 3, 4}
    OBVIOUS
  <2>2. QED
    BY <2>1 DEF ToSet
<1>3. rest \in Seq(ToSet(rest))
  <2>1. start \in Seq(ToSet(start)) /\ switch \in Seq(ToSet(switch)) /\ <<>> \in Seq(ToSet(<<>>))
    <3>1. DOMAIN start = {1} /\ DOMAIN switch = {1, 2}
      OBVIOUS
    <3>2. QED
      BY <3>1 DEF ToSet
  <2> HIDE DEF start, switch
  <2>2. QED
    BY <2>1
<1> HIDE DEF first, rest, id, action
<1>4. first \in Seq(S) /\ rest \in Seq(S)
  BY <1>2, <1>3
<1>5. first \o rest \in Seq(S) /\ id \in ToSet(first \o rest) /\ action \in ToSet(first \o rest)
  BY <1>2, <1>4, JoinedRange
<1>6. PayloadMembers(Text("command"), m.payload) = CommandMembers(m.payload)
  BY DEF PayloadMembers, Text
<1>7. FirstUnread(CommandMembers(m.payload), m.payload) = None
  BY <1>6 DEF IsCommand, Decodes
<1>8. \A n \in ToSet(CommandMembers(m.payload)) : ~Unread(n, m.payload)
  BY <1>1, <1>5, <1>7, NoneUnread DEF NoneIsNoPath
<1>9. ~Unread(id, m.payload) /\ ~Unread(action, m.payload)
  BY <1>1, <1>5, <1>8
<1>10. Len(<<"command_id">>) = 1 /\ Len(<<"action">>) = 1
  OBVIOUS
<1>11. <<"action">> \in DOMAIN m.payload /\ Reads("action", m.payload[<<"action">>])
  BY <1>9, <1>10 DEF Unread, action, Needed
<1>12. QED
  BY <1>9, <1>10, <1>11 DEF Unread, Reads, HasId, id, Needed

LEMMA RefusalAtFirst ==
  ASSUME Init
  PROVE  RefusalInv
BY DEF Init, RefusalInv

(* A start is answered with what is wrong with it.                         *)
LEMMA NewRunIsFaulted ==
  ASSUME RefusalInv, NEW c, pending = c, pending # None, NewRun(c), UNCHANGED scenario
  PROVE  /\ startCommand' = [r \in Runs |-> startCommand'[r]] /\ refusal' = [r \in Runs |-> refusal'[r]]
         /\ \A r \in Runs :
               refusal'[r] \notin {None, <<"stopping">>, <<"bars">>, <<"queue">>} => Faulted(r)'
<1>1. /\ startCommand' = [startCommand EXCEPT ![c.run] = c.id]
      /\ refusal' = [refusal EXCEPT ![c.run] = Refusal(c)]
      /\ c.action = "start_backtest" /\ c.run \in Runs
  BY DEF NewRun
<1>2. startCommand' = [r \in Runs |-> startCommand'[r]] /\ refusal' = [r \in Runs |-> refusal'[r]]
  BY <1>1 DEF RefusalInv
<1>3. PICK m \in UNION ToSet(scenario) : IsCommand(m) /\ c = Considered(StartIn(m))
  BY DEF RefusalInv
<1>4. StartIn(m).action = "start_backtest"
  BY <1>1, <1>3 DEF Considered
<1>5. c.field = InvalidField(StartIn(m)) /\ c.id = StartIn(m).id
  BY <1>3, <1>4 DEF Considered
<1>6. scenario \in Scenarios
  BY DEF RefusalInv
<1>7. HasId(m) /\ IdIn(m) \in Texts(CommandIds)
  BY <1>3, <1>6, CommandHasId, MessageAssumption
<1>8. StartIn(m).id = IdIn(m)[2]
  BY DEF StartIn, CommandFrom, IdIn
<1>9. IdIn(m) = Text(c.id)
  BY <1>5, <1>7, <1>8 DEF Texts, Text
<1>10. ASSUME NEW r \in Runs, refusal'[r] \notin {None, <<"stopping">>, <<"bars">>, <<"queue">>}
       PROVE  Faulted(r)'
  <2>1. CASE r = c.run
    <3>1. startCommand'[r] = c.id /\ refusal'[r] = Refusal(c)
      BY <1>1, <2>1 DEF RefusalInv
    <3>2. Refusal(c) = c.field
      BY <1>10, <3>1 DEF Refusal
    <3>3. QED
      BY <1>4, <1>5, <1>7, <1>9, <3>1, <3>2 DEF Faulted
  <2>2. CASE r # c.run
    <3>1. startCommand'[r] = startCommand[r] /\ refusal'[r] = refusal[r]
      BY <1>1, <2>2 DEF RefusalInv
    <3>2. Faulted(r)
      BY <1>10, <3>1 DEF RefusalInv
    <3>3. QED
      BY <3>1, <3>2 DEF Faulted
  <2>3. QED
    BY <2>1, <2>2
<1>11. QED
  BY <1>2, <1>10

LEMMA NextKeepsRefusals ==
  ASSUME RefusalInv, [Next]_vars
  PROVE  RefusalInv'
<1>1. ASSUME UNCHANGED <<scenario, delivered, pending, startCommand, refusal>>
      PROVE  RefusalInv'
  BY <1>1 DEF RefusalInv, Faulted
<1>2. ASSUME delivered < Len(scenario), NEW message \in scenario[delivered + 1], Receive(message)
      PROVE  RefusalInv'
  <2>1. message \in UNION ToSet(scenario)
    <3>1. delivered + 1 \in DOMAIN scenario
      BY <1>2, MessageAssumption DEF RefusalInv
    <3>2. QED
      BY <3>1 DEF ToSet
  <2>2. /\ UNCHANGED <<scenario, startCommand, refusal>> /\ delivered' = delivered + 1
        /\ \/ pending' = pending
           \/ IsCommand(message) /\ pending' = Considered(StartIn(message))
    BY <1>2 DEF Receive, runVars, readerVars, StartIn
  <2>3. \A r \in Runs : Faulted(r)' <=> Faulted(r)
    BY <2>2 DEF Faulted
  <2>4. QED
    BY <2>1, <2>2, <2>3 DEF RefusalInv
<1>3. ASSUME pending # None, Handle(pending)
      PROVE  RefusalInv'
  <2> DEFINE c == pending
  <2>1. UNCHANGED <<scenario, delivered>> /\ pending' = None
    BY <1>3 DEF Handle
  <2>2. CASE RefuseStart(c) \/ QueueRun(c)
    <3>1. NewRun(c)
      BY <2>2 DEF RefuseStart, QueueRun
    <3>2. /\ startCommand' = [r \in Runs |-> startCommand'[r]] /\ refusal' = [r \in Runs |-> refusal'[r]]
          /\ \A r \in Runs :
               refusal'[r] \notin {None, <<"stopping">>, <<"bars">>, <<"queue">>} => Faulted(r)'
      BY <1>3, <2>1, <3>1, NewRunIsFaulted
    <3>3. QED
      BY <2>1, <3>2 DEF RefusalInv
  <2>3. CASE ~(RefuseStart(c) \/ QueueRun(c))
    <3>1. UNCHANGED <<startCommand, refusal>>
      BY <1>3, <2>3 DEF Handle, IgnoreStart, IgnoreUnknown, RefuseFinished, StopQueued, StopRunning,
         SetKillSwitch, runVars
    <3>2. \A r \in Runs : Faulted(r)' <=> Faulted(r)
      BY <2>1, <3>1 DEF Faulted
    <3>3. QED
      BY <2>1, <3>1, <3>2 DEF RefusalInv
  <2>4. QED
    BY <2>2, <2>3
<1>4. ASSUME ReaderExits \/ Shutdown \/ DropQueue
      PROVE  RefusalInv'
  BY <1>1, <1>4 DEF ReaderExits, Shutdown, DropQueue, runVars, readerVars
<1>5. ASSUME Worker
      PROVE  RefusalInv'
  <2>1. UNCHANGED <<scenario, delivered, pending, refusal>>
    BY <1>5 DEF Worker, TakeRun, WorkerExits, SetupFails, BeginRun, ReplayInstant, ReplayContinues,
       ReplayEnds, ReplayFails, TakeBack, CloseRun, ReleaseRun, WorkerUnchanged, readerVars
  <2>2. UNCHANGED startCommand
    BY <1>5 DEF Worker, TakeRun, WorkerExits, SetupFails, BeginRun, ReplayInstant, ReplayContinues,
       ReplayEnds, ReplayFails, TakeBack, CloseRun, ReleaseRun, runVars
  <2>3. QED
    BY <1>1, <2>1, <2>2
<1>6. ASSUME UNCHANGED vars
      PROVE  RefusalInv'
  BY <1>1, <1>6 DEF vars, runVars, readerVars
<1>7. QED
  BY <1>2, <1>3, <1>4, <1>5, <1>6 DEF Next, Reader

LEMMA RefusalsNameFaults ==
  ASSUME RefusalInv
  PROVE  RefusalNamesFault
<1> SUFFICES ASSUME NEW r \in Runs,
                    refusal[r] \notin {None, <<"stopping">>, <<"bars">>, <<"queue">>}
             PROVE  \E path \in ChangedFrom(ValidConfig, ConfigSent(startCommand[r])) :
                       Concerns(refusal[r], path)
  BY DEF RefusalNamesFault
<1>1. PICK m \in UNION ToSet(scenario) :
        /\ HasId(m) /\ IdIn(m) = Text(startCommand[r])
        /\ StartIn(m).action = "start_backtest" /\ refusal[r] = InvalidField(StartIn(m))
  BY DEF RefusalInv, Faulted
<1> DEFINE Sent(n) == HasId(n) /\ IdIn(n) = Text(startCommand[r])
           first == CHOOSE n \in UNION ToSet(scenario) : Sent(n)
           config == ConfigIn(m)
<1>2. first \in UNION ToSet(scenario) /\ Sent(first)
  BY <1>1
<1>3. ConfigSent(startCommand[r]) = ConfigIn(first)
  BY DEF ConfigSent
<1> HIDE DEF first
<1>4. Ordinary(config) /\ ConfigIn(first) = config
  BY <1>1, <1>2, MessageAssumption DEF RefusalInv
<1>5. /\ StartIn(m).field = SettingsProblem(config)
      /\ SettingsProblem(config) = None => StartIn(m).settings = SettingsFrom(config)
  BY <1>1 DEF StartIn, CommandFrom, ConfigIn
<1>6. Readable(ValidConfig)
  BY ValidAssumption DEF Readable
<1>7. CASE SettingsProblem(config) # None
  <2>1. refusal[r] = SettingsProblem(config)
    BY <1>1, <1>5, <1>7 DEF InvalidField
  <2>2. QED
    BY <1>3, <1>4, <1>7, <2>1, UnreadConcernsChange, ValidAssumption
<1>8. CASE SettingsProblem(config) = None
  <2>1. refusal[r] = Problem(SettingsFrom(config))
    BY <1>1, <1>5, <1>8 DEF InvalidField
  <2>2. Readable(config)
    BY <1>4, <1>8 DEF Readable
  <2>3. QED
    BY <1>3, <1>4, <1>6, <2>1, <2>2, FailingConcernsChange, ValidAssumption
<1>9. QED
  BY <1>7, <1>8

(* A refusal names a field at fault.                                       *)
THEOREM RefusalsNameFault == Spec => []RefusalNamesFault
<1>1. Init => RefusalInv
  BY RefusalAtFirst
<1>2. RefusalInv /\ [Next]_vars => RefusalInv'
  BY NextKeepsRefusals
<1>3. RefusalInv => RefusalNamesFault
  BY RefusalsNameFaults
<1>4. QED
  BY <1>1, <1>2, <1>3, PTL DEF Spec

-----------------------------------------------------------------------------
(* A member written and read, and read and written.                        *)

Latencies == {"signal_to_order", "order_to_fill"}

(* Each member is written as what it is read as.                           *)
LEMMA KindsOfMembers ==
  ASSUME NEW name \in DOMAIN WrittenAs
  PROVE  \/ ReadAs[name] \in {"text", "mode", "kind"} /\ WrittenAs[name] = "text"
         \/ ReadAs[name] = "time" /\ WrittenAs[name] = "Time"
         \/ ReadAs[name] = "array" /\ WrittenAs[name] = "Array"
         \/ ReadAs[name] = "texts" /\ WrittenAs[name] = "Texts"
         \/ ReadAs[name] \in {"whole", "unsigned", "window"} /\ WrittenAs[name] = "Whole"
         \/ ReadAs[name] = "number" /\ WrittenAs[name] = "number"
         \/ ReadAs[name] = "latency" /\ WrittenAs[name] = "latency" /\ name \in Latencies
         \/ ReadAs[name] = "amount" /\ WrittenAs[name] = "Amount"
         \/ ReadAs[name] = "boolean" /\ WrittenAs[name] = "Bool"
<1>1. name \in {"name", "mode", "period_start", "period_end", "strategies", "kind", "strategy_id",
                "symbols", "requested_quantity", "short_window", "long_window", "lookback",
                "entry_threshold", "rearm_threshold", "max_order_quantity", "max_position_notional",
                "max_gross_exposure", "max_daily_loss", "max_open_orders", "policies",
                "starting_cash", "slippage_bps", "per_share", "per_trade", "bps", "signal_to_order",
                "order_to_fill", "participation_cap"}
  BY DEF WrittenAs
<1>2. CASE name \in {"name", "mode", "kind", "strategy_id"}
  <2>1. /\ ReadAs["name"] = "text" /\ ReadAs["mode"] = "mode" /\ ReadAs["kind"] = "kind"
        /\ ReadAs["strategy_id"] = "text"
    BY DEF ReadAs
  <2>2. /\ WrittenAs["name"] = "text" /\ WrittenAs["mode"] = "text" /\ WrittenAs["kind"] = "text"
        /\ WrittenAs["strategy_id"] = "text"
    BY DEF WrittenAs
  <2>3. QED
    BY <1>2, <2>1, <2>2
<1>3. CASE name \in {"period_start", "period_end", "strategies", "symbols", "policies"}
  <2>1. /\ ReadAs["period_start"] = "time" /\ ReadAs["period_end"] = "time"
        /\ ReadAs["strategies"] = "array" /\ ReadAs["symbols"] = "texts"
        /\ ReadAs["policies"] = "boolean"
    BY DEF ReadAs
  <2>2. /\ WrittenAs["period_start"] = "Time" /\ WrittenAs["period_end"] = "Time"
        /\ WrittenAs["strategies"] = "Array" /\ WrittenAs["symbols"] = "Texts"
        /\ WrittenAs["policies"] = "Bool"
    BY DEF WrittenAs
  <2>3. QED
    BY <1>3, <2>1, <2>2
<1>4. CASE name \in {"requested_quantity", "short_window", "long_window", "lookback",
                     "max_order_quantity", "max_open_orders"}
  <2>1. /\ ReadAs["requested_quantity"] = "whole" /\ ReadAs["short_window"] = "window"
        /\ ReadAs["long_window"] = "window" /\ ReadAs["lookback"] = "window"
        /\ ReadAs["max_order_quantity"] = "whole" /\ ReadAs["max_open_orders"] = "unsigned"
    BY DEF ReadAs
  <2>2. /\ WrittenAs["requested_quantity"] = "Whole" /\ WrittenAs["short_window"] = "Whole"
        /\ WrittenAs["long_window"] = "Whole" /\ WrittenAs["lookback"] = "Whole"
        /\ WrittenAs["max_order_quantity"] = "Whole" /\ WrittenAs["max_open_orders"] = "Whole"
    BY DEF WrittenAs
  <2>3. QED
    BY <1>4, <2>1, <2>2
<1>5. CASE name \in {"entry_threshold", "rearm_threshold", "slippage_bps", "bps",
                     "participation_cap"}
  <2>1. /\ ReadAs["entry_threshold"] = "number" /\ ReadAs["rearm_threshold"] = "number"
        /\ ReadAs["slippage_bps"] = "number" /\ ReadAs["bps"] = "number"
        /\ ReadAs["participation_cap"] = "number"
    BY DEF ReadAs
  <2>2. /\ WrittenAs["entry_threshold"] = "number" /\ WrittenAs["rearm_threshold"] = "number"
        /\ WrittenAs["slippage_bps"] = "number" /\ WrittenAs["bps"] = "number"
        /\ WrittenAs["participation_cap"] = "number"
    BY DEF WrittenAs
  <2>3. QED
    BY <1>5, <2>1, <2>2
<1>8. CASE name \in Latencies
  <2>1. ReadAs["signal_to_order"] = "latency" /\ ReadAs["order_to_fill"] = "latency"
    BY DEF ReadAs
  <2>2. WrittenAs["signal_to_order"] = "latency" /\ WrittenAs["order_to_fill"] = "latency"
    BY DEF WrittenAs
  <2>3. QED
    BY <1>8, <2>1, <2>2 DEF Latencies
<1>6. CASE name \in {"max_position_notional", "max_gross_exposure", "max_daily_loss",
                     "starting_cash", "per_share", "per_trade"}
  <2>1. /\ ReadAs["max_position_notional"] = "amount" /\ ReadAs["max_gross_exposure"] = "amount"
        /\ ReadAs["max_daily_loss"] = "amount" /\ ReadAs["starting_cash"] = "amount"
        /\ ReadAs["per_share"] = "amount" /\ ReadAs["per_trade"] = "amount"
    BY DEF ReadAs
  <2>2. /\ WrittenAs["max_position_notional"] = "Amount" /\ WrittenAs["max_gross_exposure"] = "Amount"
        /\ WrittenAs["max_daily_loss"] = "Amount" /\ WrittenAs["starting_cash"] = "Amount"
        /\ WrittenAs["per_share"] = "Amount" /\ WrittenAs["per_trade"] = "Amount"
    BY DEF WrittenAs
  <2>3. QED
    BY <1>6, <2>1, <2>2
<1>7. QED
  BY <1>1, <1>2, <1>3, <1>4, <1>5, <1>6, <1>8 DEF Latencies

(* What was kept of a member is read back from what is written of it, of a *)
(* latency to a nanosecond.                                                *)
Survives(name, value) ==
    /\ Reads(ReadAs[name], Literal(name, value))
    /\ \/ Taken(ReadAs[name], Literal(name, value)) = value
       \/ name \in Latencies /\ Taken(ReadAs[name], Literal(name, value)) - value \in -1..1

(* A number of halves is read back from its literal.                       *)
LEMMA NumberSurvives ==
  ASSUME NEW h \in Int
  PROVE  Reads("number", Number(h)) /\ Taken("number", Number(h)) = h
<1>1. CASE h = HugeNumber
  <2>1. Number(h) = <<"Huge", 0>>
    BY <1>1 DEF Number
  <2>2. QED
    BY <1>1, <2>1 DEF Reads, Taken, Numbers
<1>2. CASE h # HugeNumber /\ h % 2 = 0
  <2>1. Number(h) = <<"Whole", h \div 2>> /\ 2 * (h \div 2) = h
    BY <1>2 DEF Number
  <2>2. QED
    BY <2>1 DEF Reads, Taken, Numbers
<1>3. CASE h # HugeNumber /\ h % 2 # 0
  <2>1. Number(h) = <<"Fraction", h \div 2>> /\ 2 * (h \div 2) + 1 = h
    BY <1>3 DEF Number
  <2>2. QED
    BY <2>1 DEF Reads, Taken, Numbers
<1>4. QED
  BY <1>1, <1>2, <1>3

(* A duration is, to a nanosecond.                                         *)
LEMMA DurationSurvives ==
  ASSUME NEW d \in Int
  PROVE  Reads("latency", Millis(d)) /\ Taken("latency", Millis(d)) - d \in -1..1
<1>1. CASE d \notin Shortened
  <2>1. Millis(d) = <<"Whole", d>>
    BY <1>1 DEF Millis
  <2>2. QED
    BY <2>1 DEF Reads, Taken, Numbers
<1>2. CASE d \in Shortened /\ d < 0
  <2>1. Millis(d) = <<"Fraction", d>>
    BY <1>2 DEF Millis
  <2>2. Truncated(d) = d + 1
    BY <1>2 DEF Truncated
  <2>3. QED
    BY <2>1, <2>2 DEF Reads, Taken, Numbers
<1>3. CASE d \in Shortened /\ ~(d < 0)
  <2>1. Millis(d) = <<"Fraction", d - 1>>
    BY <1>3 DEF Millis
  <2>2. Truncated(d - 1) = d - 1
    BY <1>3, CodecAssumption DEF Truncated
  <2>3. QED
    BY <2>1, <2>2 DEF Reads, Taken, Numbers
<1>4. QED
  BY <1>1, <1>2, <1>3

(* A proper value that can be read as its member survives.                 *)
LEMMA ReadSurvives ==
  ASSUME NEW name \in DOMAIN WrittenAs, NEW value, Proper(value), Reads(ReadAs[name], value)
  PROVE  Survives(name, Taken(ReadAs[name], value))
<1> DEFINE as == ReadAs[name]
           kept == Taken(as, value)
<1>1. CASE as \in {"text", "mode", "kind"} /\ WrittenAs[name] = "text"
  <2>1. Taken(as, value) = value
    BY <1>1 DEF Taken
  <2>2. Literal(name, value) = value
    BY <1>1 DEF Literal
  <2>3. QED
    BY <2>1, <2>2 DEF Survives
<1>2. CASE \/ as = "time" /\ WrittenAs[name] = "Time"
           \/ as = "array" /\ WrittenAs[name] = "Array"
           \/ as = "texts" /\ WrittenAs[name] = "Texts"
           \/ as = "amount" /\ WrittenAs[name] = "Amount"
           \/ as = "boolean" /\ WrittenAs[name] = "Bool"
  <2>1. \A v : Taken(as, v) = v[2]
    BY <1>2 DEF Taken
  <2>2. \A v : Literal(name, v) = <<WrittenAs[name], v>>
    BY <1>2 DEF Literal
  <2>3. \A v : Reads(as, <<WrittenAs[name], v>>)
    BY <1>2 DEF Reads
  <2>4. QED
    BY <2>1, <2>2, <2>3 DEF Survives
<1>3. CASE as \in {"whole", "unsigned", "window"} /\ WrittenAs[name] = "Whole"
  <2>1. kept \in Int /\ (as # "whole" => kept >= 0)
    <3>1. /\ value[1] \in {"Whole", "Huge"} /\ (as # "whole" => value[2] >= 0)
          /\ kept = IF value[1] = "Huge" THEN 0 ELSE value[2]
      <4>1. CASE as = "whole"
        BY <4>1 DEF Reads, Taken, WholeNumbers
      <4>2. CASE as = "unsigned"
        BY <4>2 DEF Reads, Taken, WholeNumbers
      <4>3. CASE as = "window"
        BY <4>3 DEF Reads, Taken, WholeNumbers
      <4>4. as \in {"whole", "unsigned", "window"}
        BY <1>3
      <4> HIDE DEF as, kept
      <4>5. QED
        BY <4>1, <4>2, <4>3, <4>4
    <3>2. value[1] = "Whole" => value[2] \in Int
      BY DEF Proper
    <3> HIDE DEF kept, as
    <3>3. CASE value[1] = "Huge"
      BY <3>1, <3>3
    <3>4. CASE value[1] = "Whole"
      <4>1. kept = value[2] /\ value[2] \in Int
        BY <3>1, <3>2, <3>4
      <4>2. QED
        BY <3>1, <4>1
    <3>5. QED
      BY <3>1, <3>3, <3>4
  <2>2. Literal(name, kept) = <<"Whole", kept>>
    BY <1>3 DEF Literal
  <2> HIDE DEF kept
  <2>3. Reads(as, <<"Whole", kept>>) /\ Taken(as, <<"Whole", kept>>) = kept
    BY <1>3, <2>1 DEF Reads, Taken, WholeNumbers
  <2>4. QED
    BY <2>2, <2>3 DEF Survives, kept
<1>4. CASE as = "number" /\ WrittenAs[name] = "number"
  <2>1. kept \in Int
    BY <1>4 DEF Reads, Taken, Numbers, Proper, HugeNumber
  <2>2. Literal(name, kept) = Number(kept)
    BY <1>4 DEF Literal
  <2>3. QED
    BY <1>4, <2>1, <2>2, NumberSurvives DEF Survives
<1>5. CASE as = "latency" /\ WrittenAs[name] = "latency" /\ name \in Latencies
  <2>1. kept \in Int
    <3>1. value[1] \in Numbers
      BY <1>5 DEF Reads
    <3>2. /\ value[1] = "Whole" => kept = value[2]
          /\ value[1] = "Fraction" => kept = Truncated(value[2])
          /\ value[1] = "Huge" => kept = OutOfRange
          /\ value[1] = "Infinite" => kept = 0
      BY <1>5 DEF Taken
    <3>3. value[1] \in {"Whole", "Fraction"} => value[2] \in Int
      BY DEF Proper
    <3> HIDE DEF kept
    <3>4. QED
      BY <3>1, <3>2, <3>3, CodecAssumption DEF Numbers, Truncated
  <2>2. Literal(name, kept) = Millis(kept)
    BY <1>5 DEF Literal
  <2>3. QED
    BY <1>5, <2>1, <2>2, DurationSurvives DEF Survives
<1>6. QED
  BY <1>1, <1>2, <1>3, <1>4, <1>5, KindsOfMembers

(* A latency is written as it was sent, to a nanosecond, if a duration     *)
(* holds it.                                                               *)
LEMMA WrittenClose ==
  ASSUME NEW name, ReadAs[name] = "latency", WrittenAs[name] = "latency",
         NEW value, Proper(value), value[1] \in {"Whole", "Fraction"}
  PROVE  CloseTo(value, Literal(name, Taken("latency", value)))
<1>1. value[2] \in Int
  BY DEF Proper
<1>2. \A d : Literal(name, d) = Millis(d)
  BY DEF Literal
<1>3. ASSUME NEW d \in Int
      PROVE  Millis(d)[1] \in {"Whole", "Fraction"} /\ Halves(Millis(d)) - 2 * d \in -1..1
                /\ (d >= 0 => Halves(Millis(d)) <= 2 * d) /\ (d <= 0 => Halves(Millis(d)) >= 2 * d)
                /\ Halves(Millis(d)) \in Int
  <2>1. CASE d \notin Shortened
    <3>1. Millis(d) = <<"Whole", d>>
      BY <2>1 DEF Millis
    <3>2. QED
      BY <3>1 DEF Halves
  <2>2. CASE d \in Shortened
    <3>1. d # 0
      BY <2>2, CodecAssumption
    <3>2. Millis(d) = <<"Fraction", IF d < 0 THEN d ELSE d - 1>>
      BY <2>2 DEF Millis
    <3>3. QED
      BY <3>1, <3>2 DEF Halves
  <2>3. QED
    BY <2>1, <2>2
<1>4. ASSUME NEW d \in Int, Taken("latency", value) = d, Halves(value) - 2 * d \in -1..1,
             Halves(value) \in Int
      PROVE  CloseTo(value, Literal(name, Taken("latency", value)))
  <2> DEFINE written == Millis(d)
             sent == Halves(value)
             told == Halves(written)
  <2>1. Literal(name, Taken("latency", value)) = written
    BY <1>2, <1>4
  <2>2. written[1] \in {"Whole", "Fraction"} /\ told - 2 * d \in -1..1 /\ told \in Int
    BY <1>3, <1>4
  <2>3. sent - 2 * d \in -1..1 /\ sent \in Int
    BY <1>4
  <2> HIDE DEF sent, told
  <2>4. sent - told \in -2..2
    BY <2>2, <2>3
  <2> HIDE DEF written
  <2>5. CloseTo(value, written)
    BY <2>2, <2>4 DEF CloseTo, sent, told
  <2>6. QED
    BY <2>1, <2>5
<1>5. CASE value[1] = "Whole"
  <2>1. Taken("latency", value) = value[2] /\ Halves(value) = 2 * value[2]
    BY <1>1, <1>5 DEF Taken, Halves
  <2>2. QED
    BY <1>1, <1>4, <2>1
<1>6. CASE value[1] = "Fraction"
  <2>1. Taken("latency", value) = Truncated(value[2]) /\ Halves(value) = 2 * value[2] + 1
    BY <1>1, <1>6 DEF Taken, Halves
  <2>2. /\ Truncated(value[2]) \in Int
        /\ Halves(value) - 2 * Truncated(value[2]) \in -1..1
    BY <1>1, <2>1 DEF Truncated
  <2>3. Halves(value) \in Int
    BY <1>1, <2>1
  <2>4. QED
    BY <1>4, <2>1, <2>2, <2>3
<1>7. QED
  BY <1>5, <1>6

(* Unless no double holds it, or it is too large for the whole number it   *)
(* is, a member is written as it was sent.                                 *)
LEMMA WrittenAsSent ==
  ASSUME NEW name \in DOMAIN WrittenAs, NEW value, Proper(value), Reads(ReadAs[name], value),
         ReadAs[name] # "latency",
         value[1] # "Infinite", value[1] = "Huge" => ReadAs[name] = "number"
  PROVE  Literal(name, Taken(ReadAs[name], value)) = value
<1> DEFINE as == ReadAs[name]
           kept == Taken(as, value)
<1>0. value = <<value[1], value[2]>>
  BY DEF Proper
<1>1. CASE as \in {"text", "mode", "kind"} /\ WrittenAs[name] = "text"
  BY <1>1 DEF Taken, Literal
<1>2. CASE \/ as = "time" /\ WrittenAs[name] = "Time"
           \/ as = "array" /\ WrittenAs[name] = "Array"
           \/ as = "texts" /\ WrittenAs[name] = "Texts"
           \/ as = "amount" /\ WrittenAs[name] = "Amount"
           \/ as = "boolean" /\ WrittenAs[name] = "Bool"
  <2>1. Taken(as, value) = value[2] /\ value[1] = WrittenAs[name]
    BY <1>2 DEF Taken, Reads
  <2>2. \A v : Literal(name, v) = <<WrittenAs[name], v>>
    BY <1>2 DEF Literal
  <2>3. QED
    BY <1>0, <2>1, <2>2
<1>3. CASE as \in {"whole", "unsigned", "window"} /\ WrittenAs[name] = "Whole"
  <2>1. value[1] = "Whole" /\ Taken(as, value) = value[2]
    BY <1>3 DEF Reads, Taken, WholeNumbers
  <2>2. \A v : Literal(name, v) = <<"Whole", v>>
    BY <1>3 DEF Literal
  <2>3. QED
    BY <1>0, <2>1, <2>2
<1>4. CASE as = "number" /\ WrittenAs[name] = "number"
  <2>1. \A v : Literal(name, v) = Number(v)
    BY <1>4 DEF Literal
  <2>2. CASE value[1] = "Huge"
    <3>1. kept = HugeNumber /\ value = <<"Huge", 0>>
      BY <1>0, <1>4, <2>2 DEF Taken, Proper
    <3>2. QED
      BY <2>1, <3>1 DEF Number
  <2>3. CASE value[1] = "Whole"
    <3>1. kept = 2 * value[2] /\ value[2] \in Int /\ kept # HugeNumber
      BY <1>4, <2>3 DEF Taken, Proper, HugeNumber
    <3>2. kept % 2 = 0 /\ kept \div 2 = value[2]
      BY <3>1
    <3>3. QED
      BY <1>0, <2>1, <2>3, <3>1, <3>2 DEF Number
  <2>4. CASE value[1] = "Fraction"
    <3>1. kept = 2 * value[2] + 1 /\ value[2] \in Int /\ kept # HugeNumber
      BY <1>4, <2>4 DEF Taken, Proper, HugeNumber
    <3>2. kept % 2 = 1 /\ kept \div 2 = value[2]
      BY <3>1
    <3>3. QED
      BY <1>0, <2>1, <2>4, <3>1, <3>2 DEF Number
  <2>5. QED
    BY <1>4, <2>2, <2>3, <2>4 DEF Reads, Numbers
<1>5. QED
  BY <1>1, <1>2, <1>3, <1>4, KindsOfMembers

-----------------------------------------------------------------------------
(* The members that are settings, and the objects around them.             *)

TopPaths == {<<"name">>, <<"mode">>, <<"period_start">>, <<"period_end">>, <<"strategies">>}

Periods == {<<"period_start">>, <<"period_end">>}

BoundPaths ==
    LimitPaths \cup {<<"risk", "policies">>, <<"simulation", "participation_cap">>,
                     <<"simulation", "latency_ms", "signal_to_order">>,
                     <<"simulation", "latency_ms", "order_to_fill">>}

(* The members of every strategy.                                          *)
Always == {"kind", "strategy_id", "symbols", "requested_quantity"}

AllowShort == <<"risk", "allow_short">>

ObjectPaths(n) ==
    {<<"risk">>, <<"simulation">>, <<"simulation", "fees">>, <<"simulation", "latency_ms">>}
    \cup {<<"strategies", Index(i)>> : i \in 1..n}

(* The names of a strategy's settings, and the paths of all settings.      *)
NamesOf(crossover) ==
    Always \cup IF crossover THEN {"short_window", "long_window"}
                ELSE {"lookback", "entry_threshold", "rearm_threshold"}

(* The paths of the settings of n strategies, the kind of each given.      *)
KeptPaths(n, crossovers) ==
    TopPaths \cup BoundPaths \cup UNION {{At(i, x) : x \in NamesOf(i \in crossovers)} : i \in 1..n}

Crossovers(config) == {i \in 1..CountOf(config) : IsCrossover(config, i)}

(* Every setting is named by the last part of its path.                    *)
LEMMA LastNames ==
  /\ \A path \in TopPaths \cup BoundPaths : Last(path) \in DOMAIN WrittenAs
  /\ \A i : \A x : Last(At(i, x)) = x
  /\ \A i : \A x \in Always \cup {"short_window", "long_window", "lookback", "entry_threshold",
                                  "rearm_threshold"} : Last(At(i, x)) \in DOMAIN WrittenAs
<1>0. ASSUME NEW a PROVE Last(<<a>>) = a
  BY DEF Last
<1>1. ASSUME NEW a, NEW b PROVE Last(<<a, b>>) = b
  BY DEF Last
<1>1a. ASSUME NEW a, NEW b, NEW c PROVE Last(<<a, b, c>>) = c
  BY DEF Last
<1>2. ASSUME NEW i, NEW x PROVE Last(At(i, x)) = x
  <2>1. Last(<<"strategies", Index(i), x>>) = x
    BY <1>1a
  <2>2. QED
    BY <2>1 DEF At
<1>3. DOMAIN WrittenAs = {"name", "mode", "period_start", "period_end", "strategies", "kind", "strategy_id",
                "symbols", "requested_quantity", "short_window", "long_window", "lookback",
                "entry_threshold", "rearm_threshold", "max_order_quantity", "max_position_notional",
                "max_gross_exposure", "max_daily_loss", "max_open_orders", "policies",
                "starting_cash", "slippage_bps", "per_share", "per_trade", "bps", "signal_to_order",
                "order_to_fill", "participation_cap"}
  BY DEF WrittenAs
<1>4. \A path \in TopPaths \cup BoundPaths : Last(path) \in DOMAIN WrittenAs
  <2>1. \A path \in TopPaths : Last(path) \in {"name", "mode", "period_start", "period_end", "strategies"}
    BY <1>0 DEF TopPaths
  <2>2. \A path \in BoundPaths : Last(path) \in
          {"max_order_quantity", "max_position_notional", "max_gross_exposure", "max_daily_loss",
           "max_open_orders", "policies", "starting_cash", "slippage_bps", "per_share", "per_trade",
           "bps", "signal_to_order", "order_to_fill", "participation_cap"}
    BY <1>1, <1>1a DEF BoundPaths, LimitPaths
  <2>3. QED
    BY <1>3, <2>1, <2>2
<1>5. QED
  BY <1>2, <1>3, <1>4 DEF Always

(* What a member of a config is.                                           *)
IsSetting(m, config) ==
    /\ m.path \in KeptPaths(CountOf(config), Crossovers(config))
    /\ m.as = ReadAs[Last(m.path)] /\ Last(m.path) \in DOMAIN WrittenAs
    /\ m.path \in Periods => ~m.needed

(* The members that are no settings themselves.                            *)
IsAround(m, config) == m.path \in ObjectPaths(CountOf(config)) /\ m.as = "object"

IsShort(m) == m.path = AllowShort /\ m.as = "long only"

(* A member is a setting, an object around settings, or long-only.         *)
LEMMA WhatMembersAre ==
  ASSUME NEW config, CountOf(config) \in Nat, NEW m \in ToSet(SettingsMembers(config))
  PROVE  IsSetting(m, config) \/ IsAround(m, config) \/ IsShort(m)
<1> DEFINE n == CountOf(config)
           crossovers == Crossovers(config)
<1>1. MembersAre(config)
  BY SettingsMembersAre
<1>2. \A path : /\ MustHave(path).path = path /\ MustHave(path).as = ReadAs[Last(path)]
                /\ MayHave(path).path = path /\ MayHave(path).as = ReadAs[Last(path)]
                /\ MayHave(path).needed = FALSE
  BY DEF MustHave, MayHave, Needed, Optional
<1>3. CASE m \in ToSet(TopMembers)
  <2>1. \/ m \in {MayHave(<<"name">>), MayHave(<<"mode">>), MayHave(<<"period_start">>),
                  MayHave(<<"period_end">>)}
        \/ m = MustHave(<<"strategies">>)
    <3>1. DOMAIN TopMembers = {1, 2, 3, 4, 5}
      BY DEF TopMembers
    <3>2. QED
      BY <1>3, <3>1 DEF ToSet, TopMembers
  <2>2. m.path \in TopPaths /\ m.as = ReadAs[Last(m.path)] /\ (m.path \in Periods => ~m.needed)
    <3>1. CASE m = MustHave(<<"strategies">>)
      BY <1>2, <3>1 DEF TopPaths, Periods
    <3>2. CASE m \in {MayHave(<<"name">>), MayHave(<<"mode">>), MayHave(<<"period_start">>),
                  MayHave(<<"period_end">>)}
      BY <1>2, <3>2 DEF TopPaths
    <3>3. QED
      BY <2>1, <3>1, <3>2
  <2>3. QED
    BY <2>2, LastNames DEF IsSetting, KeptPaths
<1>4. CASE m \in ToSet(LimitMembers)
  <2>1. PICK path : (m = MustHave(path) \/ m = MayHave(path)) /\
          (path \in BoundPaths \cup {AllowShort, <<"risk">>, <<"simulation">>, <<"simulation", "fees">>,
                                     <<"simulation", "latency_ms">>})
    <3>1. \/ \E path \in {<<"risk", "max_order_quantity">>, <<"risk", "max_position_notional">>,
                 <<"risk", "max_gross_exposure">>, <<"risk", "max_daily_loss">>,
                 <<"risk", "max_open_orders">>, <<"simulation", "starting_cash">>,
                 <<"simulation", "slippage_bps">>, <<"simulation", "fees", "per_share">>,
                 <<"simulation", "fees", "per_trade">>, <<"simulation", "fees", "bps">>,
                 <<"simulation", "latency_ms", "signal_to_order">>,
                 <<"simulation", "latency_ms", "order_to_fill">>} : m = MustHave(path)
          \/ \E path \in {<<"risk">>, <<"risk", "allow_short">>, <<"risk", "policies">>, <<"simulation">>,
                   <<"simulation", "fees">>, <<"simulation", "latency_ms">>,
                   <<"simulation", "participation_cap">>} : m = MayHave(path)
      BY <1>4, LimitMembersAre
    <3>2. QED
      BY <3>1, Zenon DEF BoundPaths, LimitPaths, AllowShort
  <2>2. m.path = path /\ m.as = ReadAs[Last(path)]
    BY <1>2, <2>1
  <2>3. CASE path \in BoundPaths
    <3>1. path \notin Periods
      BY <2>3 DEF BoundPaths, LimitPaths, Periods
    <3>2. QED
      BY <2>2, <2>3, <3>1, LastNames DEF IsSetting, KeptPaths
  <2>4. CASE path = AllowShort
    <3>1. Last(<<"risk", "allow_short">>) = "allow_short" /\ ReadAs["allow_short"] = "long only"
      BY PathLast DEF ReadAs
    <3>2. QED
      BY <2>2, <2>4, <3>1 DEF IsShort, AllowShort
  <2>5. CASE path \in {<<"risk">>, <<"simulation">>, <<"simulation", "fees">>, <<"simulation", "latency_ms">>}
    <3>1. /\ Last(<<"risk">>) = "risk" /\ Last(<<"simulation">>) = "simulation"
          /\ Last(<<"simulation", "fees">>) = "fees"
          /\ Last(<<"simulation", "latency_ms">>) = "latency_ms"
      BY PathLast
    <3>2. /\ ReadAs["risk"] = "object" /\ ReadAs["simulation"] = "object"
          /\ ReadAs["fees"] = "object" /\ ReadAs["latency_ms"] = "object"
      BY DEF ReadAs
    <3>3. QED
      BY <2>2, <2>5, <3>1, <3>2 DEF IsAround, ObjectPaths
  <2>6. QED
    BY <2>1, <2>3, <2>4, <2>5
<1>5. CASE \E i \in 1..n : m \in ToSet(StrategyMembers(config, i))
  <2>1. PICK i \in 1..n : m \in ToSet(StrategyMembers(config, i))
    BY <1>5
  <2>2. \/ m = Needed(<<"strategies", Index(i)>>, "object")
        \/ \E x \in NamesOf(i \in crossovers) : m = MustHave(At(i, x)) \/ m = MayHave(At(i, x))
    <3>1. Always \cup Parameters(config, i) = NamesOf(i \in crossovers)
      BY DEF Parameters, NamesOf, Crossovers
    <3>2. \/ m = Needed(<<"strategies", Index(i)>>, "object")
          \/ \E x \in Always : m = MustHave(At(i, x))
          \/ \E x \in Parameters(config, i) : m = MayHave(At(i, x))
      BY <2>1, StrategyMembersAre DEF Always
    <3>3. QED
      BY <3>1, <3>2
  <2>3. CASE m = Needed(<<"strategies", Index(i)>>, "object")
    BY <2>3 DEF Needed, IsAround, ObjectPaths
  <2>4. CASE \E x \in NamesOf(i \in crossovers) : m = MustHave(At(i, x)) \/ m = MayHave(At(i, x))
    <3>1. PICK x \in NamesOf(i \in crossovers) : m = MustHave(At(i, x)) \/ m = MayHave(At(i, x))
      BY <2>4
    <3>2. m.path = At(i, x) /\ m.as = ReadAs[Last(At(i, x))]
      BY <1>2, <3>1
    <3>3. At(i, x) \in KeptPaths(n, crossovers)
      BY DEF KeptPaths
    <3>4. At(i, x) \notin Periods
      BY DEF At, Periods
    <3>5. Last(At(i, x)) \in DOMAIN WrittenAs
      BY LastNames DEF NamesOf
    <3>6. QED
      BY <3>2, <3>3, <3>4, <3>5 DEF IsSetting
  <2>5. QED
    BY <2>2, <2>3, <2>4
<1>6. QED
  BY <1>1, <1>3, <1>4, <1>5 DEF MembersAre

(* A setting is read from the member at its path.                          *)
LEMMA KeptHasMember ==
  ASSUME NEW config, CountOf(config) \in Nat,
         NEW path \in KeptPaths(CountOf(config), Crossovers(config))
  PROVE  \E m \in ToSet(SettingsMembers(config)) : m.path = path /\ m.as = ReadAs[Last(path)]
<1> DEFINE n == CountOf(config)
           crossovers == Crossovers(config)
<1>1. MembersAre(config)
  BY SettingsMembersAre
<1>2. \A p : /\ MustHave(p).path = p /\ MustHave(p).as = ReadAs[Last(p)]
             /\ MayHave(p).path = p /\ MayHave(p).as = ReadAs[Last(p)]
  BY DEF MustHave, MayHave, Needed, Optional
<1>3. SUFFICES MustHave(path) \in ToSet(SettingsMembers(config)) \/ MayHave(path) \in ToSet(SettingsMembers(config))
  BY <1>2
<1>4. CASE path \in TopPaths
  <2>1. MayHave(path) \in ToSet(TopMembers) \/ MustHave(path) \in ToSet(TopMembers)
    <3>1. DOMAIN TopMembers = {1, 2, 3, 4, 5}
      BY DEF TopMembers
    <3>2. {MayHave(<<"name">>), MayHave(<<"mode">>), MayHave(<<"period_start">>),
           MayHave(<<"period_end">>), MustHave(<<"strategies">>)} \subseteq ToSet(TopMembers)
      BY <3>1 DEF ToSet, TopMembers
    <3>3. QED
      BY <1>4, <3>2 DEF TopPaths
  <2>2. QED
    BY <1>1, <2>1 DEF MembersAre
<1>5. CASE path \in BoundPaths
  <2>1. MayHave(path) \in ToSet(LimitMembers) \/ MustHave(path) \in ToSet(LimitMembers)
    <3>1. /\ \A p \in {<<"risk", "max_order_quantity">>, <<"risk", "max_position_notional">>,
                 <<"risk", "max_gross_exposure">>, <<"risk", "max_daily_loss">>,
                 <<"risk", "max_open_orders">>, <<"simulation", "starting_cash">>,
                 <<"simulation", "slippage_bps">>, <<"simulation", "fees", "per_share">>,
                 <<"simulation", "fees", "per_trade">>, <<"simulation", "fees", "bps">>,
                 <<"simulation", "latency_ms", "signal_to_order">>,
                 <<"simulation", "latency_ms", "order_to_fill">>} : MustHave(p) \in ToSet(LimitMembers)
          /\ \A p \in {<<"risk", "policies">>, <<"simulation", "participation_cap">>} :
                MayHave(p) \in ToSet(LimitMembers)
      BY LimitMembersAre
    <3>2. QED
      BY <1>5, <3>1 DEF BoundPaths, LimitPaths
  <2>2. QED
    BY <1>1, <2>1 DEF MembersAre
<1>6. CASE \E i \in 1..n : \E x \in NamesOf(i \in crossovers) : path = At(i, x)
  <2>1. PICK i \in 1..n : \E x \in NamesOf(i \in crossovers) : path = At(i, x)
    BY <1>6
  <2>1a. PICK x \in NamesOf(i \in crossovers) : path = At(i, x)
    BY <2>1
  <2>2. Always \cup Parameters(config, i) = NamesOf(i \in crossovers)
    BY DEF Parameters, NamesOf, Crossovers
  <2>3. MayHave(path) \in ToSet(StrategyMembers(config, i)) \/ MustHave(path) \in ToSet(StrategyMembers(config, i))
    <3> DEFINE all == ToSet(StrategyMembers(config, i))
               whole == Needed(<<"strategies", Index(i)>>, "object")
    <3>1. all = {whole} \cup {MustHave(At(i, y)) : y \in Always}
                \cup {MayHave(At(i, y)) : y \in Parameters(config, i)}
      BY StrategyMembersAre DEF Always
    <3>2. x \in Always \/ x \in Parameters(config, i)
      BY <2>1a, <2>2
    <3> HIDE DEF all, whole
    <3>3. MayHave(path) \in all \/ MustHave(path) \in all
      BY <2>1a, <3>1, <3>2
    <3>4. QED
      BY <3>3 DEF all
  <2>4. QED
    BY <1>1, <2>1, <2>3 DEF MembersAre
<1>7. QED
  BY <1>4, <1>5, <1>6 DEF KeptPaths

(* Settings are read at these paths.                                       *)
LEMMA ReadPathsAre ==
  ASSUME NEW config, CountOf(config) \in Nat
  PROVE  ReadPaths(config) = KeptPaths(CountOf(config), Crossovers(config))
<1> DEFINE kept == KeptPaths(CountOf(config), Crossovers(config))
<1>1. ASSUME NEW path \in ReadPaths(config) PROVE path \in kept
  <2>1. PICK m \in ToSet(SettingsMembers(config)) :
           m.as \notin {"object", "long only"} /\ path = m.path
    BY DEF ReadPaths
  <2>2. IsSetting(m, config)
    BY <2>1, WhatMembersAre DEF IsAround, IsShort
  <2>3. QED
    BY <2>1, <2>2 DEF IsSetting
<1>2. ASSUME NEW path \in kept PROVE path \in ReadPaths(config)
  <2>1. PICK m \in ToSet(SettingsMembers(config)) : m.path = path /\ m.as = ReadAs[Last(path)]
    BY <1>2, KeptHasMember
  <2>2. Last(path) \in DOMAIN WrittenAs
    <3>1. \A c : NamesOf(c) \subseteq Always \cup {"short_window", "long_window", "lookback",
                    "entry_threshold", "rearm_threshold"}
      BY DEF NamesOf
    <3>2. \/ path \in TopPaths \cup BoundPaths
          \/ \E i : \E x \in Always \cup {"short_window", "long_window", "lookback",
                    "entry_threshold", "rearm_threshold"} : path = At(i, x)
      BY <3>1 DEF KeptPaths
    <3>3. QED
      BY <3>2, LastNames, Zenon
  <2>3. m.as \notin {"object", "long only"}
    BY <2>1, <2>2, KindsOfMembers
  <2>4. QED
    BY <2>1, <2>3 DEF ReadPaths
<1>3. QED
  BY <1>1, <1>2

-----------------------------------------------------------------------------
(* Settings a report can tell.                                             *)

CrossoversOf(s) == {i \in Strategies(s) : s[At(i, "kind")] = SmaCrossover}

PathsOf(s) == KeptPaths(s[<<"strategies">>], CrossoversOf(s))

Absent(s, path) == path \in Periods /\ s[path] = None

(* Settings are exactly these paths, and each value survives being written *)
(* and read.                                                               *)
Reportable(s) ==
    /\ s[<<"strategies">>] \in Nat
    /\ s = [path \in PathsOf(s) |-> s[path]]
    /\ \A path \in PathsOf(s) : Absent(s, path) \/ Survives(Last(path), s[path])

(* So does every default of a member left out.                             *)
LEMMA DefaultSurvives ==
  ASSUME NEW name \in DOMAIN WrittenAs,
         name \notin Always \cup {"period_start", "period_end"}
  PROVE  Survives(name, Defaults[name])
<1>1. name \in {"name", "mode", "strategies",
                "short_window", "long_window", "lookback",
                "entry_threshold", "rearm_threshold", "max_order_quantity", "max_position_notional",
                "max_gross_exposure", "max_daily_loss", "max_open_orders", "policies",
                "starting_cash", "slippage_bps", "per_share", "per_trade", "bps", "signal_to_order",
                "order_to_fill", "participation_cap"}
  BY DEF WrittenAs, Always
<1>2. CASE name = "name"
  <2>1. ReadAs["name"] = "text" /\ WrittenAs["name"] = "text"
    BY DEF ReadAs, WrittenAs
  <2>2. Defaults["name"] = Text("")
    BY DEF Defaults
  <2>3. \A v : Literal("name", v) = v /\ Taken("text", v) = v
    BY <2>1 DEF Literal, Taken
  <2>4. Reads("text", Text(""))
    BY DEF Reads, Strings, Text
  <2>5. QED
    BY <1>2, <2>1, <2>2, <2>3, <2>4 DEF Survives
<1>3. CASE name = "mode"
  <2>1. ReadAs["mode"] = "mode" /\ WrittenAs["mode"] = "text"
    BY DEF ReadAs, WrittenAs
  <2>2. Defaults["mode"] = Text("backtest")
    BY DEF Defaults, Backtest
  <2>3. \A v : Literal("mode", v) = v /\ Taken("mode", v) = v
    BY <2>1 DEF Literal, Taken
  <2>4. Reads("mode", Text("backtest"))
    BY DEF Reads, Texts
  <2>5. QED
    BY <1>3, <2>1, <2>2, <2>3, <2>4 DEF Survives
<1>4. CASE name \in {"strategies", "max_position_notional", "max_gross_exposure", "max_daily_loss",
                     "starting_cash", "per_share", "per_trade", "policies"}
  <2>1. /\ ReadAs[name] \in {"array", "amount", "boolean"}
        /\ WrittenAs[name] = IF ReadAs[name] = "array" THEN "Array"
                             ELSE IF ReadAs[name] = "amount" THEN "Amount" ELSE "Bool"
    <3>1. /\ ReadAs["max_position_notional"] = "amount" /\ ReadAs["max_gross_exposure"] = "amount"
          /\ ReadAs["max_daily_loss"] = "amount" /\ ReadAs["starting_cash"] = "amount"
          /\ ReadAs["per_share"] = "amount" /\ ReadAs["per_trade"] = "amount"
          /\ ReadAs["policies"] = "boolean" /\ ReadAs["strategies"] = "array"
      BY DEF ReadAs
    <3>2. ReadAs[name] \in {"array", "amount", "boolean"}
      BY <1>4, <3>1
    <3>3. QED
      BY <3>2, KindsOfMembers
  <2>2. \A v : Literal(name, v) = <<WrittenAs[name], v>>
    BY <2>1 DEF Literal
  <2>3. \A v : Reads(ReadAs[name], <<WrittenAs[name], v>>) /\ Taken(ReadAs[name], <<WrittenAs[name], v>>) = v
    BY <2>1 DEF Reads, Taken
  <2>4. QED
    BY <2>2, <2>3 DEF Survives
<1>5. CASE name \in {"short_window", "long_window", "lookback", "max_order_quantity", "max_open_orders"}
  <2>1. ReadAs[name] \in {"whole", "unsigned", "window"} /\ WrittenAs[name] = "Whole"
    <3>1. /\ ReadAs["short_window"] = "window" /\ ReadAs["long_window"] = "window"
          /\ ReadAs["lookback"] = "window" /\ ReadAs["max_order_quantity"] = "whole"
          /\ ReadAs["max_open_orders"] = "unsigned"
      BY DEF ReadAs
    <3>2. QED
      BY <1>5, <3>1, KindsOfMembers
  <2>2. Defaults[name] \in Nat
    <3>1. /\ Defaults["short_window"] = 5 /\ Defaults["long_window"] = 20
          /\ Defaults["lookback"] = 20 /\ Defaults["max_order_quantity"] = 1000
          /\ Defaults["max_open_orders"] = 50
      BY DEF Defaults
    <3>2. QED
      BY <1>5, <3>1
  <2>3. \A v \in Nat : Reads(ReadAs[name], <<"Whole", v>>) /\ Taken(ReadAs[name], <<"Whole", v>>) = v
    <3>1. \A v \in Nat : Reads("whole", <<"Whole", v>>) /\ Taken("whole", <<"Whole", v>>) = v
      BY DEF Reads, Taken, WholeNumbers
    <3>2. \A v \in Nat : Reads("unsigned", <<"Whole", v>>) /\ Taken("unsigned", <<"Whole", v>>) = v
      BY DEF Reads, Taken, WholeNumbers
    <3>3. \A v \in Nat : Reads("window", <<"Whole", v>>) /\ Taken("window", <<"Whole", v>>) = v
      BY DEF Reads, Taken, WholeNumbers
    <3>4. QED
      BY <2>1, <3>1, <3>2, <3>3
  <2>4. \A v : Literal(name, v) = <<"Whole", v>>
    BY <2>1 DEF Literal
  <2>5. QED
    BY <2>2, <2>3, <2>4 DEF Survives
<1>6. CASE name \in {"entry_threshold", "rearm_threshold", "slippage_bps", "bps",
                     "participation_cap"}
  <2>1. ReadAs[name] = "number" /\ WrittenAs[name] = "number"
    <3>1. /\ ReadAs["entry_threshold"] = "number" /\ ReadAs["rearm_threshold"] = "number"
          /\ ReadAs["slippage_bps"] = "number" /\ ReadAs["bps"] = "number"
          /\ ReadAs["participation_cap"] = "number"
      BY DEF ReadAs
    <3>2. QED
      BY <1>6, <3>1, KindsOfMembers
  <2>2. Defaults[name] \in Int
    <3>1. /\ Defaults["entry_threshold"] = 4 /\ Defaults["rearm_threshold"] = 1
          /\ Defaults["slippage_bps"] = 2 /\ Defaults["bps"] = 0
          /\ Defaults["participation_cap"] = 2
      BY DEF Defaults
    <3>2. QED
      BY <1>6, <3>1
  <2>3. \A v : Literal(name, v) = Number(v)
    BY <2>1 DEF Literal
  <2>4. QED
    BY <2>1, <2>2, <2>3, NumberSurvives DEF Survives
<1>7. CASE name \in Latencies
  <2>1. ReadAs[name] = "latency" /\ WrittenAs[name] = "latency"
    <3>1. ReadAs["signal_to_order"] = "latency" /\ ReadAs["order_to_fill"] = "latency"
      BY DEF ReadAs
    <3>2. QED
      BY <1>7, <3>1, KindsOfMembers DEF Latencies
  <2>2. Defaults[name] \in Int
    <3>1. Defaults["signal_to_order"] = 1 /\ Defaults["order_to_fill"] = 5
      BY DEF Defaults
    <3>2. QED
      BY <1>7, <3>1 DEF Latencies
  <2>3. \A v : Literal(name, v) = Millis(v)
    BY <2>1 DEF Literal
  <2>4. QED
    BY <1>7, <2>1, <2>2, <2>3, DurationSurvives DEF Survives
<1>8. QED
  BY <1>1, <1>2, <1>3, <1>4, <1>5, <1>6, <1>7 DEF Latencies

(* Paths that are kept end in the name of a setting.                       *)
LEMMA KeptLast ==
  ASSUME NEW n, NEW crossovers, NEW path \in KeptPaths(n, crossovers)
  PROVE  Last(path) \in DOMAIN WrittenAs
<1>1. \A c : NamesOf(c) \subseteq Always \cup {"short_window", "long_window", "lookback",
                "entry_threshold", "rearm_threshold"}
  BY DEF NamesOf
<1>2. \/ path \in TopPaths \cup BoundPaths
      \/ \E i : \E x \in Always \cup {"short_window", "long_window", "lookback",
                "entry_threshold", "rearm_threshold"} : path = At(i, x)
  BY <1>1 DEF KeptPaths
<1>3. QED
  BY <1>2, LastNames, Zenon

(* A setting that is absent has a default, unless a strategy must have it. *)
LEMMA KeptDefault ==
  ASSUME NEW n, NEW crossovers, NEW path \in KeptPaths(n, crossovers), path # <<"strategies">>,
         path \notin {At(i, x) : i \in 1..n, x \in Always}
  PROVE  \/ path \in Periods /\ Defaults[Last(path)] = None
         \/ Survives(Last(path), Defaults[Last(path)])
<1>1. Last(path) \in DOMAIN WrittenAs
  BY KeptLast
<1>2. CASE path \in Periods
  <2>1. Last(<<"period_start">>) = "period_start" /\ Last(<<"period_end">>) = "period_end"
    BY PathLast
  <2>2. Defaults["period_start"] = None /\ Defaults["period_end"] = None
    BY DEF Defaults
  <2>3. QED
    BY <1>2, <2>1, <2>2 DEF Periods
<1>3. CASE path \notin Periods
  <2>1. Last(path) \notin Always \cup {"period_start", "period_end"}
    <3>0. ASSUME NEW a PROVE Last(<<a>>) = a
      BY DEF Last
    <3>1. ASSUME NEW a, NEW b PROVE Last(<<a, b>>) = b
      BY DEF Last
    <3>2. ASSUME NEW a, NEW b, NEW c PROVE Last(<<a, b, c>>) = c
      BY DEF Last
    <3>3. CASE path \in TopPaths
      BY <1>3, <3>0, <3>3 DEF TopPaths, Periods, Always
    <3>4. CASE path \in BoundPaths
      <4>1. Last(path) \in
              {"max_order_quantity", "max_position_notional", "max_gross_exposure", "max_daily_loss",
               "max_open_orders", "policies", "starting_cash", "slippage_bps", "per_share", "per_trade",
               "bps", "signal_to_order", "order_to_fill", "participation_cap"}
        BY <3>1, <3>2, <3>4 DEF BoundPaths, LimitPaths
      <4>2. QED
        BY <4>1 DEF Always
    <3>5. CASE \E i \in 1..n : \E x \in NamesOf(i \in crossovers) : path = At(i, x)
      <4>1. PICK i \in 1..n : \E x \in NamesOf(i \in crossovers) : path = At(i, x)
        BY <3>5
      <4>2. PICK x \in NamesOf(i \in crossovers) : path = At(i, x)
        BY <4>1
      <4>3. x \notin Always
        BY <4>1, <4>2
      <4>4. x \in {"short_window", "long_window", "lookback", "entry_threshold", "rearm_threshold"}
        BY <4>2, <4>3 DEF NamesOf
      <4>5. Last(path) = x
        BY <4>2, LastNames
      <4>6. QED
        BY <4>4, <4>5 DEF Always
    <3>6. QED
      BY <3>3, <3>4, <3>5 DEF KeptPaths
  <2>2. QED
    BY <1>1, <2>1, DefaultSurvives
<1>4. QED
  BY <1>2, <1>3

(* Settings that are read from members that can be read are reportable.    *)
LEMMA ReadIsReportable ==
  ASSUME NEW config, CountOf(config) \in Nat, <<"strategies">> \in DOMAIN config,
         \A path \in KeptPaths(CountOf(config), Crossovers(config)) : path \in DOMAIN config =>
            Proper(config[path]) /\ Reads(ReadAs[Last(path)], config[path]),
         \A i \in 1..CountOf(config) : \A x \in Always : At(i, x) \in DOMAIN config
  PROVE  Reportable(SettingsFrom(config))
<1> DEFINE s == SettingsFrom(config)
           n == CountOf(config)
           paths == KeptPaths(n, Crossovers(config))
<1>1. s = [path \in paths |-> IF path \in DOMAIN config THEN Taken(ReadAs[Last(path)], config[path])
                              ELSE Defaults[Last(path)]]
  BY ReadPathsAre DEF SettingsFrom, ReadPaths
<1>2. s[<<"strategies">>] = n
  <2>1. <<"strategies">> \in paths
    BY DEF KeptPaths, TopPaths
  <2>2. Last(<<"strategies">>) = "strategies" /\ ReadAs["strategies"] = "array"
    BY PathLast DEF ReadAs
  <2>3. Reads("array", config[<<"strategies">>])
    BY <2>1, <2>2
  <2>4. config[<<"strategies">>][1] = "Array" /\ n = config[<<"strategies">>][2]
    BY <2>3 DEF Reads, CountOf
  <2>5. s[<<"strategies">>] = Taken("array", config[<<"strategies">>])
    BY <1>1, <2>1, <2>2
  <2>6. QED
    BY <2>4, <2>5 DEF Taken
<1>3. CrossoversOf(s) = Crossovers(config)
  <2>1. ASSUME NEW i \in 1..n
        PROVE  /\ At(i, "kind") \in DOMAIN config /\ s[At(i, "kind")] = config[At(i, "kind")]
    <3>1. At(i, "kind") \in paths
      BY DEF KeptPaths, NamesOf, Always
    <3>2. Last(At(i, "kind")) = "kind" /\ ReadAs["kind"] = "kind"
      BY LastNames DEF ReadAs
    <3>3. At(i, "kind") \in DOMAIN config
      BY DEF Always
    <3>4. s[At(i, "kind")] = Taken("kind", config[At(i, "kind")])
      BY <1>1, <3>1, <3>2, <3>3
    <3>5. QED
      BY <3>3, <3>4 DEF Taken
  <2> HIDE DEF s
  <2>2. QED
    BY <1>2, <2>1 DEF CrossoversOf, Crossovers, Strategies, IsCrossover
<1>4. PathsOf(s) = paths
  BY <1>2, <1>3 DEF PathsOf
<1>5. ASSUME NEW path \in paths PROVE Absent(s, path) \/ Survives(Last(path), s[path])
  <2>1. CASE path \in DOMAIN config
    <3>1. s[path] = Taken(ReadAs[Last(path)], config[path])
      BY <1>1, <2>1
    <3>2. Last(path) \in DOMAIN WrittenAs
      BY KeptLast
    <3>3. QED
      BY <2>1, <3>1, <3>2, ReadSurvives
  <2>2. CASE path \notin DOMAIN config
    <3>1. s[path] = Defaults[Last(path)]
      BY <1>1, <2>2
    <3>2. path # <<"strategies">> /\ path \notin {At(i, x) : i \in 1..n, x \in Always}
      BY <2>2
    <3>3. QED
      BY <3>1, <3>2, KeptDefault DEF Absent
  <2>3. QED
    BY <2>1, <2>2
<1>6. s = [path \in paths |-> s[path]]
  BY <1>1
<1> HIDE DEF s, paths, n
<1>7. QED
  BY <1>2, <1>4, <1>5, <1>6 DEF Reportable, n, s

(* What is read from a config can be reported.                             *)
LEMMA ReadableIsReportable ==
  ASSUME NEW config, Readable(config), \A path \in DOMAIN config : Proper(config[path])
  PROVE  Reportable(SettingsFrom(config))
<1>1. CountOf(config) \in Nat /\ MembersAre(config) /\ <<"strategies">> \in DOMAIN config
  BY ReadableMembers, CountRead
<1>2. ASSUME NEW path \in KeptPaths(CountOf(config), Crossovers(config)), path \in DOMAIN config
      PROVE  Proper(config[path]) /\ Reads(ReadAs[Last(path)], config[path])
  <2>1. PICK m \in ToSet(SettingsMembers(config)) : m.path = path /\ m.as = ReadAs[Last(path)]
    BY <1>1, KeptHasMember
  <2>2. ~Unread(m, config)
    BY ReadableMembers
  <2>3. QED
    BY <1>2, <2>1, <2>2 DEF Unread
<1>3. ASSUME NEW i \in 1..CountOf(config), NEW x \in Always
      PROVE  At(i, x) \in DOMAIN config
  <2> DEFINE whole == <<"strategies", Index(i)>>
  <2>1. /\ Needed(whole, "object") \in ToSet(SettingsMembers(config))
        /\ MustHave(At(i, x)) \in ToSet(SettingsMembers(config))
    <3>1. \A m \in ToSet(StrategyMembers(config, i)) : m \in ToSet(SettingsMembers(config))
      BY <1>1 DEF MembersAre
    <3>2. /\ Needed(whole, "object") \in ToSet(StrategyMembers(config, i))
          /\ MustHave(At(i, x)) \in ToSet(StrategyMembers(config, i))
      BY StrategyMembersAre DEF Always
    <3>3. QED
      BY <3>1, <3>2
  <2>2. Len(whole) = 2 /\ Front(whole) = <<"strategies">>
        /\ Len(At(i, x)) = 3 /\ Front(At(i, x)) = whole
    <3>1. Front(whole) = <<"strategies">>
      BY PathFront
    <3>2. Front(<<"strategies", Index(i), x>>) = whole
      BY PathFront
    <3>3. QED
      BY <3>1, <3>2 DEF At
  <2>3. whole \in DOMAIN config
    <3>1. ~Unread(Needed(whole, "object"), config)
      BY <2>1, ReadableMembers
    <3>2. QED
      BY <1>1, <2>2, <3>1 DEF Unread, Needed
  <2>4. ~Unread(MustHave(At(i, x)), config)
    BY <2>1, ReadableMembers
  <2>5. QED
    BY <2>2, <2>3, <2>4 DEF Unread, MustHave, Needed
<1>4. QED
  BY <1>1, <1>2, <1>3, ReadIsReportable

(* And so can the settings of a start that cannot be read.                 *)
LEMMA NoSettingsReportable == Reportable(NoSettings)
<1> DEFINE config == [path \in {<<"strategies">>} |-> <<"Array", 0>>]
<1>1. DOMAIN config = {<<"strategies">>} /\ config[<<"strategies">>] = <<"Array", 0>>
  OBVIOUS
<1> HIDE DEF config
<1>2. CountOf(config) = 0
  BY <1>1 DEF CountOf
<1>3. Last(<<"strategies">>) = "strategies" /\ ReadAs["strategies"] = "array"
  BY PathLast DEF ReadAs
<1>4. Proper(<<"Array", 0>>) /\ Reads("array", <<"Array", 0>>)
  BY DEF Proper, Reads
<1>5. \A i \in 1..CountOf(config) : \A x \in Always : At(i, x) \in DOMAIN config
  BY <1>2
<1>6. Reportable(SettingsFrom(config))
  BY <1>1, <1>2, <1>3, <1>4, <1>5, ReadIsReportable
<1>7. QED
  BY <1>6 DEF NoSettings, config

(* Some bars have a first and a last time.                                 *)
LEMMA TimesHaveEnds ==
  ASSUME NEW S \in SUBSET Bars, S # {}
  PROVE  /\ Min({bar.time : bar \in S}) \in Int
         /\ Max({bar.time : bar \in S}) \in Int
<1> DEFINE n == Cardinality(Bars)
           times == {bar.time : bar \in S}
<1>1. PICK f \in Bijection(1..n, Bars) : n \in Nat
  BY ServiceAssumption, FS_CardinalityType DEF ExistsBijection
<1>2. f \in [1..n -> Bars] /\ \A bar \in Bars : \E i \in 1..n : f[i] = bar
  BY <1>1 DEF Bijection, Surjection, Injection
<1> DEFINE Within(i, b) == \A j \in 1..i : -b <= f[j].time /\ f[j].time <= b
           T == {i \in 1..n : \E b \in Nat : Within(i, b)}
<1>3. n >= 1 => 1 \in T
  <2>1. ASSUME n >= 1 PROVE f[1].time \in Int
    BY <1>1, <1>2, <2>1, ServiceAssumption
  <2>2. ASSUME n >= 1 PROVE \E b \in Nat : -b <= f[1].time /\ f[1].time <= b
    <3>1. CASE f[1].time >= 0
      BY <2>1, <2>2, <3>1
    <3>2. CASE f[1].time < 0
      <4>1. -f[1].time \in Nat /\ -(-f[1].time) <= f[1].time /\ f[1].time <= -f[1].time
        BY <2>1, <2>2, <3>2
      <4>2. QED
        BY <4>1
    <3>3. QED
      BY <2>1, <2>2, <3>1, <3>2
  <2>3. QED
    BY <1>1, <2>2
<1>4. ASSUME NEW i \in 1..n - 1, i \in T PROVE i + 1 \in T
  <2>1. PICK b \in Nat : Within(i, b)
    BY <1>4
  <2>2. i + 1 \in 1..n /\ f[i + 1].time \in Int
    BY <1>1, <1>2, ServiceAssumption
  <2>3. PICK c \in Nat : b <= c /\ -c <= f[i + 1].time /\ f[i + 1].time <= c
    <3> DEFINE t == f[i + 1].time
    <3>1. t \in Int
      BY <2>2
    <3> HIDE DEF t
    <3>2. CASE t >= 0
      <4>1. b + t \in Nat /\ b <= b + t /\ -(b + t) <= t /\ t <= b + t
        BY <3>1, <3>2
      <4>2. QED
        BY <4>1 DEF t
    <3>3. CASE t < 0
      <4>1. b - t \in Nat /\ b <= b - t /\ -(b - t) <= t /\ t <= b - t
        BY <3>1, <3>3
      <4>2. QED
        BY <4>1 DEF t
    <3>4. QED
      BY <3>1, <3>2, <3>3
  <2>4. ASSUME NEW j \in 1..(i + 1) PROVE -c <= f[j].time /\ f[j].time <= c
    <3>1. CASE j = i + 1
      BY <2>3, <3>1
    <3>2. CASE j # i + 1
      <4>1. j \in 1..i /\ j \in 1..n
        BY <1>1, <2>2, <3>2
      <4>2. f[j].time \in Int /\ -b <= f[j].time /\ f[j].time <= b
        BY <1>2, <2>1, <4>1, ServiceAssumption
      <4>3. QED
        BY <2>3, <4>2
    <3>3. QED
      BY <3>1, <3>2
  <2>5. QED
    BY <2>2, <2>4
<1>5. n >= 1
  <2>1. PICK bar \in Bars : TRUE
    BY ServiceAssumption
  <2>2. QED
    BY <1>1, <1>2, <2>1
<1>6. n \in T
  <2> HIDE DEF T, n
  <2>1. \A i \in 1..n : i \in T
    BY <1>1, <1>3, <1>4, <1>5, Counting
  <2>2. QED
    BY <1>1, <1>5, <2>1
<1>7. PICK b \in Nat : Within(n, b)
  BY <1>6
<1>8. ASSUME NEW t \in times PROVE t \in Int /\ -b <= t /\ t <= b
  <2>1. PICK bar \in Bars : t = bar.time
    BY <1>8
  <2>2. QED
    BY <1>2, <1>7, <2>1, ServiceAssumption
<1>9. times # {}
  OBVIOUS
<1> HIDE DEF times
<1>10. \E t \in times : \A u \in times : t <= u
  <2> DEFINE D == {t + b : t \in times}
  <2>1. D \in SUBSET Nat /\ D # {}
    BY <1>8, <1>9
  <2> HIDE DEF D
  <2>2. PICK d \in D : \A e \in D : d <= e
    BY <2>1, Smallest, Zenon
  <2>3. PICK t \in times : d = t + b
    BY <2>2 DEF D
  <2>4. ASSUME NEW u \in times PROVE t <= u
    <3>1. d <= u + b
      BY <2>2 DEF D
    <3>2. QED
      BY <1>8, <2>3, <3>1
  <2>5. QED
    BY <2>4
<1>11. \E t \in times : \A u \in times : t >= u
  <2> DEFINE D == {b - t : t \in times}
  <2>1. D \in SUBSET Nat /\ D # {}
    BY <1>8, <1>9
  <2> HIDE DEF D
  <2>2. PICK d \in D : \A e \in D : d <= e
    BY <2>1, Smallest, Zenon
  <2>3. PICK t \in times : d = b - t
    BY <2>2 DEF D
  <2>4. ASSUME NEW u \in times PROVE t >= u
    <3>1. d <= b - u
      BY <2>2 DEF D
    <3>2. QED
      BY <1>8, <2>3, <3>1
  <2>5. QED
    BY <2>4
<1>12. Min(times) \in times /\ Max(times) \in times
  BY <1>10, <1>11, Zenon DEF Min, Max
<1>13. QED
  BY <1>8, <1>12 DEF times

(* Filling in the period takes nothing away.                               *)
LEMMA PeriodKeepsReportable ==
  ASSUME NEW s, Reportable(s), Selected(s) # {}
  PROVE  /\ Reportable(WithPeriod(s)) /\ PathsOf(WithPeriod(s)) = PathsOf(s)
         /\ \A path \in PathsOf(s) : ~Absent(s, path) => WithPeriod(s)[path] = s[path]
<1> DEFINE t == WithPeriod(s)
           times == {bar.time : bar \in Selected(s)}
           start == IF s[<<"period_start">>] = None THEN Min(times) ELSE s[<<"period_start">>]
           end == IF s[<<"period_end">>] = None THEN Max(times) ELSE s[<<"period_end">>]
<1>1. Min(times) \in Int /\ Max(times) \in Int
  BY TimesHaveEnds DEF Selected
<1> HIDE DEF times
<1>2. Periods \subseteq PathsOf(s) /\ DOMAIN s = PathsOf(s)
  BY DEF Reportable, PathsOf, KeptPaths, TopPaths, Periods
<1>3. <<"period_start">> # <<"period_end">>
  OBVIOUS
<1>4. t = [[s EXCEPT ![<<"period_start">>] = start] EXCEPT ![<<"period_end">>] = end]
  BY DEF WithPeriod, times
<1>5. /\ DOMAIN t = PathsOf(s) /\ t = [path \in PathsOf(s) |-> t[path]]
      /\ t[<<"period_start">>] = start /\ t[<<"period_end">>] = end
      /\ \A path \in PathsOf(s) \ Periods : t[path] = s[path]
  BY <1>2, <1>3, <1>4 DEF Periods
<1>6. t[<<"strategies">>] = s[<<"strategies">>] /\ CrossoversOf(t) = CrossoversOf(s)
  <2>1. <<"strategies">> \in PathsOf(s) \ Periods
    BY DEF PathsOf, KeptPaths, TopPaths, Periods
  <2>2. ASSUME NEW i \in Strategies(s) PROVE At(i, "kind") \in PathsOf(s) \ Periods
    <3>1. At(i, "kind") \in PathsOf(s)
      BY <2>2 DEF PathsOf, KeptPaths, Strategies, NamesOf, Always
    <3>2. At(i, "kind") \notin Periods
      BY DEF At, Periods
    <3>3. QED
      BY <3>1, <3>2
  <2> HIDE DEF t
  <2>3. QED
    BY <1>5, <2>1, <2>2 DEF CrossoversOf, Strategies
<1>7. PathsOf(t) = PathsOf(s)
  BY <1>6 DEF PathsOf
<1>8. ASSUME NEW path \in PathsOf(s), ~Absent(s, path) PROVE t[path] = s[path]
  BY <1>5, <1>8 DEF Absent, Periods
<1>9. ASSUME NEW path \in PathsOf(s) PROVE Survives(Last(path), t[path])
  <2>1. CASE ~Absent(s, path)
    BY <1>8, <2>1 DEF Reportable
  <2>2. CASE Absent(s, path)
    <3>1. t[path] \in Int
      BY <1>1, <1>5, <2>2 DEF Absent, Periods
    <3>2. Last(<<"period_start">>) = "period_start" /\ Last(<<"period_end">>) = "period_end"
      BY PathLast
    <3>3. /\ ReadAs["period_start"] = "time" /\ ReadAs["period_end"] = "time"
          /\ WrittenAs["period_start"] = "Time" /\ WrittenAs["period_end"] = "Time"
      BY DEF ReadAs, WrittenAs
    <3>4. ReadAs[Last(path)] = "time" /\ WrittenAs[Last(path)] = "Time"
      BY <2>2, <3>2, <3>3 DEF Absent, Periods
    <3>5. \A v : Literal(Last(path), v) = <<"Time", v>>
      BY <3>4 DEF Literal
    <3>6. \A v : Reads("time", <<"Time", v>>) /\ Taken("time", <<"Time", v>>) = v
      BY DEF Reads, Taken
    <3>7. QED
      BY <3>4, <3>5, <3>6 DEF Survives
  <2>3. QED
    BY <2>1, <2>2
<1> HIDE DEF t
<1>10. Reportable(t)
  BY <1>5, <1>6, <1>7, <1>9 DEF Reportable
<1>11. QED
  BY <1>7, <1>8, <1>10 DEF t

-----------------------------------------------------------------------------
(* Settings written and read back.                                         *)

(* Settings, the objects around them and allow_short have paths of their   *)
(* own.                                                                    *)
LEMMA PathsAreApart ==
  ASSUME NEW n, NEW crossovers
  PROVE  /\ \A path \in KeptPaths(n, crossovers) : path \notin ObjectPaths(n) /\ path # AllowShort
         /\ AllowShort \notin ObjectPaths(n)
<1>1. ASSUME NEW path \in TopPaths \cup BoundPaths
      PROVE  path \notin ObjectPaths(n) /\ path # AllowShort
  <2>1. path # AllowShort
    BY DEF TopPaths, BoundPaths, LimitPaths, AllowShort
  <2>2. path \notin {<<"risk">>, <<"simulation">>, <<"simulation", "fees">>, <<"simulation", "latency_ms">>}
    BY DEF TopPaths, BoundPaths, LimitPaths
  <2>3. ASSUME NEW i PROVE path # <<"strategies", Index(i)>>
    BY DEF TopPaths, BoundPaths, LimitPaths
  <2>4. QED
    BY <2>1, <2>2, <2>3 DEF ObjectPaths
<1>2. ASSUME NEW i, NEW x
      PROVE  At(i, x) \notin ObjectPaths(n) /\ At(i, x) # AllowShort
  <2>1. Len(At(i, x)) = 3
    BY DEF At
  <2>2. \A path \in ObjectPaths(n) \cup {AllowShort} : Len(path) # 3
    BY DEF ObjectPaths, AllowShort
  <2>3. QED
    BY <2>1, <2>2
<1>3. AllowShort \notin ObjectPaths(n)
  BY DEF ObjectPaths, AllowShort
<1>4. QED
  BY <1>1, <1>2, <1>3 DEF KeptPaths

(* The config written for settings has the members the codec reads.        *)
LEMMA WrittenMembers ==
  ASSUME NEW s, Reportable(s)
  PROVE  LET written == WriteSettings(s)
             n == s[<<"strategies">>]
         IN  /\ DOMAIN written = {path \in PathsOf(s) : ~Absent(s, path)} \cup ObjectPaths(n)
                                 \cup {AllowShort}
             /\ written[AllowShort] = <<"Bool", FALSE>>
             /\ \A path \in ObjectPaths(n) : written[path] = Object
             /\ \A path \in PathsOf(s) :
                   ~Absent(s, path) => written[path] = Literal(Last(path), s[path])
<1> DEFINE n == s[<<"strategies">>]
           top == {<<"name">>, <<"mode">>, <<"strategies">>}
                  \cup {p \in {<<"period_start">>, <<"period_end">>} : s[p] # None}
           strategies == UNION {{At(i, m) : m \in StrategyWritten(s, i)} : i \in Strategies(s)}
           risk == {<<"risk", m>> : m \in
                       {"max_order_quantity", "max_position_notional", "max_gross_exposure",
                        "max_daily_loss", "max_open_orders", "policies"}}
           simulation == {<<"simulation", m>> : m \in
                             {"starting_cash", "slippage_bps", "participation_cap"}}
           fees == {<<"simulation", "fees", m>> : m \in {"per_share", "per_trade", "bps"}}
           latency == {<<"simulation", "latency_ms", m>> : m \in
                          {"signal_to_order", "order_to_fill"}}
           values == top \cup strategies \cup risk \cup simulation \cup fees \cup latency
           objects == {Front(p) : p \in strategies \cup risk \cup simulation \cup fees \cup latency}
           kept == {path \in PathsOf(s) : ~Absent(s, path)}
<1>1. WriteSettings(s) = [path \in values \cup objects \cup {AllowShort} |->
            IF path = AllowShort THEN <<"Bool", FALSE>>
            ELSE IF path \in objects THEN Object
            ELSE Literal(Last(path), s[path])]
  BY DEF WriteSettings, AllowShort
<1>2. strategies = UNION {{At(i, x) : x \in NamesOf(i \in CrossoversOf(s))} : i \in 1..n}
  <2>1. \A i \in 1..n : StrategyWritten(s, i) = NamesOf(i \in CrossoversOf(s))
    BY DEF StrategyWritten, NamesOf, CrossoversOf, Strategies, Always
  <2>2. Strategies(s) = 1..n
    BY DEF Strategies
  <2>3. QED
    BY <2>1, <2>2
<1>3. risk \cup simulation \cup fees \cup latency = BoundPaths
  BY DEF BoundPaths, LimitPaths
<1>4. top = {path \in TopPaths : ~Absent(s, path)}
  BY DEF TopPaths, Absent, Periods
<1>5. values = kept
  <2>1. \A path \in BoundPaths : path \notin Periods
    BY DEF BoundPaths, LimitPaths, Periods
  <2>2. \A path \in strategies : path \notin Periods
    BY <1>2 DEF At, Periods
  <2>3. PathsOf(s) = TopPaths \cup BoundPaths \cup strategies
    BY <1>2 DEF PathsOf, KeptPaths
  <2>4. values = top \cup strategies \cup BoundPaths
    BY <1>3
  <2> HIDE DEF top, strategies, values
  <2>5. QED
    BY <1>4, <2>1, <2>2, <2>3, <2>4 DEF Absent
<1>6. objects = ObjectPaths(n)
  <2>1. ASSUME NEW a, NEW b PROVE Front(<<a, b>>) = <<a>>
    BY PathFront
  <2>2. ASSUME NEW a, NEW b, NEW c PROVE Front(<<a, b, c>>) = <<a, b>>
    BY PathFront
  <2>3. ASSUME NEW i, NEW x PROVE Front(At(i, x)) = <<"strategies", Index(i)>>
    BY <2>2 DEF At
  <2>4. {Front(p) : p \in risk} = {<<"risk">>}
    BY <2>1
  <2>5. {Front(p) : p \in simulation} = {<<"simulation">>}
    BY <2>1
  <2>6. {Front(p) : p \in fees} = {<<"simulation", "fees">>}
    BY <2>2
  <2>7. {Front(p) : p \in latency} = {<<"simulation", "latency_ms">>}
    BY <2>2
  <2>8. {Front(p) : p \in strategies} = {<<"strategies", Index(i)>> : i \in 1..n}
    <3> HIDE DEF strategies
    <3>1. ASSUME NEW p \in strategies PROVE \E i \in 1..n : Front(p) = <<"strategies", Index(i)>>
      BY <1>2, <2>3
    <3>2. ASSUME NEW i \in 1..n PROVE \E p \in strategies : Front(p) = <<"strategies", Index(i)>>
      <4>1. At(i, "kind") \in strategies
        BY <1>2 DEF NamesOf, Always
      <4>2. QED
        BY <2>3, <4>1
    <3>3. QED
      BY <3>1, <3>2
  <2>9. objects = {Front(p) : p \in strategies} \cup {Front(p) : p \in risk} \cup {Front(p) : p \in simulation}
                  \cup {Front(p) : p \in fees} \cup {Front(p) : p \in latency}
    <3> HIDE DEF strategies, risk, simulation, fees, latency
    <3>1. QED
      OBVIOUS
  <2> HIDE DEF strategies, risk, simulation, fees, latency, objects
  <2>10. QED
    BY <2>4, <2>5, <2>6, <2>7, <2>8, <2>9 DEF ObjectPaths
<1> HIDE DEF values, objects
<1>7. /\ \A path \in kept : path \notin objects /\ path # AllowShort
      /\ AllowShort \notin objects
  BY <1>6, PathsAreApart DEF PathsOf
<1>8. QED
  BY <1>1, <1>5, <1>6, <1>7

(* The members of written settings are those the settings were read from.  *)
LEMMA WrittenCount ==
  ASSUME NEW s, Reportable(s)
  PROVE  /\ CountOf(WriteSettings(s)) = s[<<"strategies">>]
         /\ Crossovers(WriteSettings(s)) = CrossoversOf(s)
<1> DEFINE written == WriteSettings(s)
           n == s[<<"strategies">>]
<1>1. CountOf(written) = n
  <2>1. <<"strategies">> \in PathsOf(s) /\ ~Absent(s, <<"strategies">>)
    BY DEF PathsOf, KeptPaths, TopPaths, Absent, Periods
  <2>2. Last(<<"strategies">>) = "strategies" /\ WrittenAs["strategies"] = "Array"
    BY PathLast DEF WrittenAs
  <2>3. Literal("strategies", n) = <<"Array", n>>
    BY <2>2 DEF Literal
  <2>4. <<"strategies">> \in DOMAIN written /\ written[<<"strategies">>] = <<"Array", n>>
    BY <2>1, <2>2, <2>3, WrittenMembers
  <2> HIDE DEF written
  <2>5. QED
    BY <2>4 DEF CountOf
<1>2. ASSUME NEW i \in 1..n
      PROVE  At(i, "kind") \in DOMAIN written /\ written[At(i, "kind")] = s[At(i, "kind")]
  <2>1. At(i, "kind") \in PathsOf(s)
    BY DEF PathsOf, KeptPaths, NamesOf, Always
  <2>2. ~Absent(s, At(i, "kind"))
    BY DEF Absent, At, Periods
  <2>3. Last(At(i, "kind")) = "kind" /\ WrittenAs["kind"] = "text"
    BY LastNames DEF WrittenAs
  <2>4. \A v : Literal("kind", v) = v
    BY <2>3 DEF Literal
  <2>5. QED
    BY <2>1, <2>2, <2>3, <2>4, WrittenMembers
<1> HIDE DEF written
<1>3. QED
  BY <1>1, <1>2 DEF Crossovers, CrossoversOf, Strategies, IsCrossover, written

(* Written settings can be read, and say the same but for nanoseconds.     *)
LEMMA SettingsReadBack ==
  ASSUME NEW s, Reportable(s)
  PROVE  /\ CountOf(WriteSettings(s)) \in Nat
         /\ \A m \in ToSet(SettingsMembers(WriteSettings(s))) : ~Unread(m, WriteSettings(s))
         /\ SameSettings(SettingsFrom(WriteSettings(s)), s)
<1> DEFINE written == WriteSettings(s)
           n == s[<<"strategies">>]
           paths == PathsOf(s)
<1>1. CountOf(written) = n /\ Crossovers(written) = CrossoversOf(s) /\ n \in Nat
  BY WrittenCount DEF Reportable
<1>2. KeptPaths(CountOf(written), Crossovers(written)) = paths
  BY <1>1 DEF PathsOf
<1>3. /\ DOMAIN written = {path \in paths : ~Absent(s, path)} \cup ObjectPaths(n) \cup {AllowShort}
      /\ written[AllowShort] = <<"Bool", FALSE>>
      /\ \A path \in ObjectPaths(n) : written[path] = Object
      /\ \A path \in paths : ~Absent(s, path) => written[path] = Literal(Last(path), s[path])
  BY WrittenMembers
<1>4. \A path \in paths : Absent(s, path) \/ Survives(Last(path), s[path])
  BY DEF Reportable
<1>5. ASSUME NEW m \in ToSet(SettingsMembers(written)) PROVE ~Unread(m, written)
  <2>1. IsSetting(m, written) \/ IsAround(m, written) \/ IsShort(m)
    BY <1>1, WhatMembersAre
  <2> HIDE DEF written
  <2>2. CASE IsSetting(m, written)
    <3>1. m.path \in paths /\ m.as = ReadAs[Last(m.path)] /\ (m.path \in Periods => ~m.needed)
      BY <1>2, <2>2 DEF IsSetting
    <3>2. CASE Absent(s, m.path)
      <4>1. m.path \in Periods /\ ~m.needed
        BY <3>1, <3>2 DEF Absent
      <4>2. m.path \notin DOMAIN written
        <5>1. m.path \notin ObjectPaths(n) /\ m.path # AllowShort
          BY <3>1, PathsAreApart DEF PathsOf
        <5>2. QED
          BY <1>3, <3>2, <5>1
      <4>3. QED
        BY <4>1, <4>2 DEF Unread
    <3>3. CASE ~Absent(s, m.path)
      <4>1. m.path \in DOMAIN written /\ written[m.path] = Literal(Last(m.path), s[m.path])
        BY <1>3, <3>1, <3>3
      <4>2. Survives(Last(m.path), s[m.path])
        BY <1>4, <3>1, <3>3
      <4>3. QED
        BY <3>1, <4>1, <4>2 DEF Unread, Survives
    <3>4. QED
      BY <3>2, <3>3
  <2>3. CASE IsAround(m, written)
    <3>1. m.path \in DOMAIN written /\ written[m.path] = Object /\ m.as = "object"
      BY <1>1, <1>3, <2>3 DEF IsAround
    <3>2. Reads("object", Object)
      BY DEF Reads
    <3>3. QED
      BY <3>1, <3>2 DEF Unread
  <2>4. CASE IsShort(m)
    <3>1. m.path \in DOMAIN written /\ written[m.path] = <<"Bool", FALSE>> /\ m.as = "long only"
      BY <1>3, <2>4 DEF IsShort
    <3>2. Reads("long only", <<"Bool", FALSE>>)
      BY DEF Reads
    <3>3. QED
      BY <3>1, <3>2 DEF Unread
  <2>5. QED
    BY <2>1, <2>2, <2>3, <2>4
<1>6. SettingsFrom(written) = [path \in paths |->
          IF path \in DOMAIN written THEN Taken(ReadAs[Last(path)], written[path])
          ELSE Defaults[Last(path)]]
  BY <1>1, <1>2, ReadPathsAre DEF SettingsFrom, ReadPaths
<1> HIDE DEF written
<1>7. ASSUME NEW path \in paths
      PROVE  LET read == IF path \in DOMAIN written THEN Taken(ReadAs[Last(path)], written[path])
                         ELSE Defaults[Last(path)]
             IN  read = s[path] \/ (IsLatency(path) /\ read - s[path] \in -1..1)
  <2>1. CASE ~Absent(s, path)
    <3>1. path \in DOMAIN written /\ written[path] = Literal(Last(path), s[path])
      BY <1>3, <2>1
    <3>2. Survives(Last(path), s[path])
      BY <1>4, <2>1
    <3>3. QED
      BY <3>1, <3>2 DEF Survives, IsLatency, Latencies
  <2>2. CASE Absent(s, path)
    <3>1. path \notin DOMAIN written
      <4>1. path \notin ObjectPaths(n) /\ path # AllowShort
        BY PathsAreApart DEF PathsOf
      <4>2. QED
        BY <1>3, <2>2, <4>1
    <3>2. Last(<<"period_start">>) = "period_start" /\ Last(<<"period_end">>) = "period_end"
      BY PathLast
    <3>3. Defaults["period_start"] = None /\ Defaults["period_end"] = None
      BY DEF Defaults
    <3>4. Defaults[Last(path)] = None
      BY <2>2, <3>2, <3>3 DEF Absent, Periods
    <3>5. QED
      BY <2>2, <3>1, <3>4 DEF Absent
  <2>3. QED
    BY <2>1, <2>2
<1>8. s = [path \in paths |-> s[path]]
  BY DEF Reportable
<1> HIDE DEF paths
<1>9. SameSettings(SettingsFrom(written), s)
  BY <1>6, <1>7, <1>8 DEF SameSettings
<1>10. QED
  BY <1>1, <1>5, <1>9 DEF written

-----------------------------------------------------------------------------
(* Messages written and read back.                                         *)

(* Paths as sequences of names.                                            *)
LEMMA PathsAreSequences ==
  ASSUME NEW path, IsPath(path)
  PROVE  /\ \E S : path \in Seq(S)
         /\ Len(path) \in 1..3 /\ (Len(path) # 1 => IsPath(Front(path)))
<1>1. CASE \E a : path = <<a>>
  <2>1. PICK a : path = <<a>>
    BY <1>1
  <2>2. <<a>> \in Seq({a}) /\ Len(<<a>>) = 1
    OBVIOUS
  <2>3. Len(path) = 1 /\ \E S : path \in Seq(S)
    BY <2>1, <2>2
  <2>4. QED
    BY <2>3
<1>2. CASE \E a, b : path = <<a, b>>
  <2>1. PICK a, b : path = <<a, b>>
    BY <1>2, Zenon
  <2>2. <<a, b>> \in Seq({a, b}) /\ Len(<<a, b>>) = 2
    OBVIOUS
  <2>3. Front(path) = <<a>>
    BY <2>1, PathFront
  <2>4. Len(path) = 2 /\ \E S : path \in Seq(S)
    BY <2>1, <2>2
  <2>5. QED
    BY <2>3, <2>4 DEF IsPath
<1>3. CASE \E a, b, c : path = <<a, b, c>>
  <2>1. PICK a, b, c : path = <<a, b, c>>
    BY <1>3, Zenon
  <2>2. <<a, b, c>> \in Seq({a, b, c}) /\ Len(<<a, b, c>>) = 3
    OBVIOUS
  <2>3. Front(path) = <<a, b>>
    BY <2>1, PathFront
  <2>4. Len(path) = 3 /\ \E S : path \in Seq(S)
    BY <2>1, <2>2
  <2>5. QED
    BY <2>3, <2>4 DEF IsPath
<1>4. QED
  BY <1>1, <1>2, <1>3 DEF IsPath

(* The first elements of a sequence.                                       *)
LEMMA FirstElements ==
  ASSUME NEW S, NEW s, NEW n \in Nat, \A k \in 1..n : s[k] \in S
  PROVE  /\ SubSeq(s, 1, n) \in Seq(S) /\ Len(SubSeq(s, 1, n)) = n
         /\ \A k \in 1..n : SubSeq(s, 1, n)[k] = s[k]
<1> DEFINE first == SubSeq(s, 1, n)
<1>1. first \in Seq(S)
  BY SubSeqProperties
<1>2. Len(first) = IF 1 <= n THEN n - 1 + 1 ELSE 0
  BY SubSeqProperties
<1>3. \A k \in 1..(n - 1 + 1) : first[k] = s[1 + k - 1]
  BY SubSeqProperties
<1> HIDE DEF first
<1>4. Len(first) = n
  BY <1>2
<1>5. \A k \in 1..n : 1 + k - 1 = k /\ k \in 1..(n - 1 + 1)
  OBVIOUS
<1>6. \A k \in 1..n : first[k] = s[k]
  BY <1>3, <1>5
<1>7. QED
  BY <1>1, <1>4, <1>6 DEF first

(* A sequence with one more element before it.                             *)
LEMMA OneBefore ==
  ASSUME NEW S, NEW one \in Seq(S), Len(one) = 1, NEW s \in Seq(S)
  PROVE  /\ one \o s \in Seq(S) /\ Len(one \o s) = Len(s) + 1
         /\ (one \o s)[1] = one[1] /\ \A k \in 1..Len(s) : (one \o s)[k + 1] = s[k]
<1> DEFINE both == one \o s
           n == Len(s)
<1>1. /\ both \in Seq(S) /\ Len(both) = Len(one) + Len(s)
      /\ \A k \in 1..(Len(one) + Len(s)) :
            both[k] = IF k <= Len(one) THEN one[k] ELSE s[k - Len(one)]
  BY ConcatProperties
<1>2. n \in Nat
  OBVIOUS
<1> HIDE DEF both, n
<1>3. Len(both) = n + 1
  BY <1>1, <1>2 DEF n
<1>4. ASSUME NEW k \in 1..(n + 1) PROVE both[k] = IF k <= 1 THEN one[k] ELSE s[k - 1]
  <2>1. k \in 1..(Len(one) + Len(s)) /\ k \in Int
    BY <1>2 DEF n
  <2>2. QED
    BY <1>1, <2>1
<1>5. both[1] = one[1]
  BY <1>2, <1>4
<1>6. ASSUME NEW k \in 1..n PROVE both[k + 1] = s[k]
  <2>1. k + 1 \in 1..(n + 1) /\ ~(k + 1 <= 1) /\ k + 1 - 1 = k
    BY <1>2
  <2>2. QED
    BY <1>4, <2>1
<1>7. QED
  BY <1>1, <1>3, <1>5, <1>6 DEF both, n

(* A path inside an object is read back as the path it was.                *)
LEMMA InnerPath ==
  ASSUME NEW name, NEW path, IsPath(path)
  PROVE  /\ Len(<<name>> \o path) = Len(path) + 1 /\ Len(path) \in 1..3
         /\ (<<name>> \o path)[1] = name /\ Tail(<<name>> \o path) = path
         /\ Len(path) = 1 => Front(<<name>> \o path) = <<name>>
         /\ Len(path) # 1 => /\ Front(<<name>> \o path) = <<name>> \o Front(path)
                             /\ IsPath(Front(path))
<1>1. PICK R : path \in Seq(R)
  BY PathsAreSequences
<1> DEFINE S == R \cup {name}
           one == <<name>>
           inner == one \o path
           n == Len(path)
<1>2. path \in Seq(S) /\ one \in Seq(S) /\ Len(one) = 1 /\ one[1] = name
  BY <1>1
<1>3. n \in 1..3 /\ (n # 1 => IsPath(Front(path)))
  BY PathsAreSequences
<1> HIDE DEF S, one
<1>4. inner \in Seq(S) /\ Len(inner) = n + 1
  BY <1>2, OneBefore
<1>5. inner[1] = name /\ \A k \in 1..n : inner[k + 1] = path[k]
  BY <1>2, OneBefore
<1> HIDE DEF inner
<1>6. Tail(inner) = path
  <2>1. inner # <<>>
    BY <1>3, <1>4
  <2>2. /\ Tail(inner) \in Seq(S) /\ Len(Tail(inner)) = n
        /\ \A k \in 1..n : Tail(inner)[k] = inner[k + 1]
    BY <1>3, <1>4, <2>1, HeadTailProperties
  <2>3. \A k \in 1..n : Tail(inner)[k] = path[k]
    BY <1>5, <2>2
  <2>4. QED
    BY <1>2, <2>2, <2>3, SeqEqual
<1>7. /\ Front(inner) \in Seq(S) /\ Len(Front(inner)) = n
      /\ \A k \in 1..n : Front(inner)[k] = inner[k]
  <2>1. \A k \in 1..n : inner[k] \in S
    BY <1>3, <1>4
  <2>2. Front(inner) = SubSeq(inner, 1, n)
    BY <1>3, <1>4 DEF Front
  <2>3. QED
    BY <1>3, <2>1, <2>2, FirstElements
<1>8. ASSUME n = 1 PROVE Front(inner) = one
  BY <1>2, <1>5, <1>7, <1>8, SeqEqual
<1>9. ASSUME n # 1 PROVE Front(inner) = one \o Front(path)
  <2> DEFINE front == Front(path)
  <2>1. \A k \in 1..(n - 1) : path[k] \in S
    BY <1>2, <1>3
  <2>2. n - 1 \in Nat /\ front = SubSeq(path, 1, n - 1)
    BY <1>3 DEF Front
  <2>3. /\ front \in Seq(S) /\ Len(front) = n - 1
        /\ \A k \in 1..(n - 1) : front[k] = path[k]
    <3>1. n - 1 \in Nat
      BY <2>2
    <3> DEFINE l == n - 1
    <3>5. l \in Nat /\ \A k \in 1..l : path[k] \in S
      BY <2>1, <3>1
    <3> HIDE DEF l
    <3>2. /\ SubSeq(path, 1, l) \in Seq(S) /\ Len(SubSeq(path, 1, l)) = l
          /\ \A k \in 1..l : SubSeq(path, 1, l)[k] = path[k]
      BY <3>5, FirstElements
    <3>3. QED
      BY <2>2, <3>2 DEF l
  <2> HIDE DEF front
  <2>4. /\ one \o front \in Seq(S) /\ Len(one \o front) = (n - 1) + 1
        /\ (one \o front)[1] = one[1] /\ \A k \in 1..(n - 1) : (one \o front)[k + 1] = front[k]
    BY <1>2, <2>3, OneBefore
  <2>5. \A k \in 1..n : (one \o front)[k] = Front(inner)[k]
    <3> SUFFICES ASSUME NEW k \in 1..n PROVE (one \o front)[k] = Front(inner)[k]
      OBVIOUS
    <3>1. CASE k = 1
      BY <1>2, <1>3, <1>5, <1>7, <2>4, <3>1
    <3>2. CASE k # 1
      <4>1. k - 1 \in 1..(n - 1) /\ k - 1 + 1 = k /\ k - 1 \in 1..n
        BY <1>3, <3>2
      <4>2. (one \o front)[k] = path[k - 1]
        BY <2>3, <2>4, <4>1
      <4>3. inner[k] = path[k - 1]
        BY <1>5, <4>1
      <4>4. QED
        BY <1>7, <4>2, <4>3
    <3>3. QED
      BY <3>1, <3>2
  <2>6. one \o front = Front(inner)
    <3>1. Len(one \o front) = n
      BY <1>3, <2>4
    <3>2. QED
      BY <1>7, <2>4, <2>5, <3>1, SeqEqual
  <2>7. QED
    BY <2>6 DEF front
<1>10. QED
  BY <1>3, <1>4, <1>5, <1>6, <1>8, <1>9 DEF inner, one

(* A member is a record of three parts.                                    *)
LEMMA MembersAreRecords ==
  ASSUME NEW config, CountOf(config) \in Nat, NEW m \in ToSet(SettingsMembers(config))
  PROVE  m = [path |-> m.path, as |-> m.as, needed |-> m.needed]
<1>1. MembersAre(config)
  BY SettingsMembersAre
<1>2. \E path, as : m = Needed(path, as) \/ m = Optional(path, as)
  <2>1. CASE m \in ToSet(TopMembers)
    <3>1. DOMAIN TopMembers = {1, 2, 3, 4, 5}
      BY DEF TopMembers
    <3>2. (\E path : m = MustHave(path)) \/ (\E path : m = MayHave(path))
      BY <2>1, <3>1 DEF ToSet, TopMembers
    <3>3. QED
      BY <3>2 DEF MayHave, MustHave
  <2>2. CASE m \in ToSet(LimitMembers)
    <3>1. (\E path : m = MustHave(path)) \/ (\E path : m = MayHave(path))
      BY <2>2, LimitMembersAre
    <3>2. QED
      BY <3>1 DEF MayHave, MustHave
  <2>3. CASE \E i \in 1..CountOf(config) : m \in ToSet(StrategyMembers(config, i))
    <3>1. PICK i : m \in ToSet(StrategyMembers(config, i))
      BY <2>3
    <3>2. \/ m = Needed(<<"strategies", Index(i)>>, "object")
          \/ \E x : m = MustHave(At(i, x)) \/ m = MayHave(At(i, x))
      BY <3>1, StrategyMembersAre
    <3>3. QED
      BY <3>2 DEF MayHave, MustHave
  <2>4. QED
    BY <1>1, <2>1, <2>2, <2>3 DEF MembersAre
<1>3. QED
  BY <1>2 DEF Needed, Optional

(* A payload is read if none of its members is at fault.                   *)
LEMMA AllRead ==
  ASSUME NEW S, NEW members \in Seq(S), NEW object, \A m \in ToSet(members) : ~Unread(m, object)
  PROVE  FirstUnread(members, object) = None
<1> DEFINE unread == {k \in DOMAIN members : Unread(members[k], object)}
<1>1. unread = {}
  BY DEF ToSet
<1>2. QED
  BY <1>1 DEF FirstUnread

(* Any type of message can be read if its payload can.                     *)
LEMMA EnvelopeRead ==
  ASSUME NEW type \in Types, NEW payload,
         FirstUnread(PayloadMembers(Text(type), payload), payload) = None
  PROVE  Decodes(Encode(type, payload)) /\ Encode(type, payload).payload = payload
<1> DEFINE envelope == Encode(type, payload).envelope
           parts == [schema |-> <<"Whole", 1>>, origin |-> Text("engine"),
                     sequence |-> <<"Whole", 1>>, enqueued_at |-> <<"Time", 0>>,
                     type |-> Text(type), payload |-> Object]
<1>1. envelope = Flat(parts) /\ Encode(type, payload).payload = payload
  BY DEF Encode
<1>2. DOMAIN parts = {"schema", "origin", "sequence", "enqueued_at", "type", "payload"}
  OBVIOUS
<1>3. /\ parts["schema"] = <<"Whole", 1>> /\ parts["origin"] = Text("engine")
      /\ parts["sequence"] = <<"Whole", 1>> /\ parts["enqueued_at"] = <<"Time", 0>>
      /\ parts["type"] = Text(type) /\ parts["payload"] = Object
  OBVIOUS
<1> HIDE DEF parts
<1>4. \A name \in DOMAIN parts : <<name>> \in DOMAIN envelope /\ envelope[<<name>>] = parts[name]
  BY <1>1 DEF Flat
<1> HIDE DEF envelope
<1>5. /\ Reads("schema", <<"Whole", 1>>) /\ Reads("unsigned", <<"Whole", 1>>)
      /\ Reads("time", <<"Time", 0>>)
      /\ Reads("object", Object)
  BY DEF Reads, WholeNumbers
<1>6. Reads("text", Text("engine")) /\ Reads("type", Text(type))
  BY DEF Reads, Text, Texts, Strings
<1>7. \A m \in ToSet(EnvelopeMembers) : ~Unread(m, envelope)
  <2>1. \A m \in ToSet(EnvelopeMembers) : m \in
          {Needed(<<"schema">>, "schema"), Needed(<<"origin">>, "text"),
           Needed(<<"sequence">>, "unsigned"), Needed(<<"enqueued_at">>, "time"),
           Needed(<<"type">>, "type"), Needed(<<"payload">>, "object")}
    BY DEF ToSet, EnvelopeMembers
  <2>2. ASSUME NEW name \in DOMAIN parts, NEW as, Reads(as, parts[name])
        PROVE  ~Unread(Needed(<<name>>, as), envelope)
    BY <1>4, <2>2 DEF Unread, Needed
  <2>3. QED
    BY <1>2, <1>3, <1>5, <1>6, <2>1, <2>2
<1>8. EnvelopeMembers \in Seq(ToSet(EnvelopeMembers))
  <2>1. DOMAIN EnvelopeMembers = {1, 2, 3, 4, 5, 6}
    BY DEF EnvelopeMembers
  <2>2. QED
    BY <2>1 DEF ToSet, EnvelopeMembers
<1>9. FirstUnread(EnvelopeMembers, envelope) = None
  BY <1>7, <1>8, AllRead
<1>10. envelope[<<"type">>] = Text(type)
  BY <1>2, <1>3, <1>4
<1>11. QED
  BY <1>1, <1>9, <1>10 DEF Decodes, envelope

(* The members of an object made of members, or found inside another.      *)
LEMMA FlatMembers ==
  ASSUME NEW members
  PROVE  /\ DOMAIN Flat(members) = {<<name>> : name \in DOMAIN members}
         /\ \A name \in DOMAIN members : Flat(members)[<<name>>] = members[name]
  BY DEF Flat

(* An object put under a name, and two objects put into one.               *)
LEMMA UnderMembers ==
  ASSUME NEW name, NEW object, \A path \in DOMAIN object : IsPath(path)
  PROVE  /\ DOMAIN Under(name, object) = {<<name>> \o path : path \in DOMAIN object}
         /\ \A path \in DOMAIN object : Under(name, object)[<<name>> \o path] = object[path]
<1>1. \A path \in DOMAIN object : Tail(<<name>> \o path) = path
  BY InnerPath
<1>2. QED
  BY <1>1 DEF Under

LEMMA BothMembers ==
  ASSUME NEW object, NEW other
  PROVE  /\ DOMAIN Both(object, other) = DOMAIN object \cup DOMAIN other
         /\ \A path \in DOMAIN object : Both(object, other)[path] = object[path]
         /\ \A path \in DOMAIN other \ DOMAIN object : Both(object, other)[path] = other[path]
  BY DEF Both

LEMMA PathOfTwo ==
  ASSUME NEW a, NEW b
  PROVE  <<a>> \o <<b>> = <<a, b>> /\ Len(<<a, b>>) = 2 /\ <<a, b>>[1] = a
<1> DEFINE S == {a, b}
<1>1. <<a>> \in Seq(S) /\ <<b>> \in Seq(S) /\ <<a, b>> \in Seq(S)
  OBVIOUS
<1>2. Len(<<a>>) = 1 /\ Len(<<b>>) = 1 /\ Len(<<a, b>>) = 2 /\ <<b>>[1] = b /\ <<a>>[1] = a
  OBVIOUS
<1>3. /\ <<a>> \o <<b>> \in Seq(S) /\ Len(<<a>> \o <<b>>) = 2
      /\ (<<a>> \o <<b>>)[1] = a /\ (<<a>> \o <<b>>)[2] = b
  <2> DEFINE one == <<a>>
             s == <<b>>
  <2> HIDE DEF one, s, S
  <2>1. /\ one \o s \in Seq(S) /\ Len(one \o s) = Len(s) + 1
        /\ (one \o s)[1] = one[1] /\ \A k \in 1..Len(s) : (one \o s)[k + 1] = s[k]
    BY <1>1, <1>2, OneBefore DEF one, s
  <2>2. Len(s) = 1 /\ one[1] = a /\ s[1] = b
    BY <1>2 DEF one, s
  <2>3. (one \o s)[2] = b
    <3>1. 1 \in 1..Len(s) /\ 1 + 1 = 2
      BY <2>2
    <3>2. QED
      BY <2>1, <2>2, <3>1
  <2>4. QED
    BY <2>1, <2>2, <2>3 DEF one, s
<1>4. \A k \in 1..2 : (<<a>> \o <<b>>)[k] = <<a, b>>[k]
  BY <1>3
<1>5. <<a>> \o <<b>> = <<a, b>>
  BY <1>1, <1>2, <1>3, <1>4, SeqEqual
<1>6. QED
  BY <1>2, <1>5

(* What is put under a name is what is found inside it.                    *)
LEMMA InsideObject ==
  ASSUME NEW name, NEW config, config = [path \in DOMAIN config |-> config[path]],
         \A path \in DOMAIN config : IsPath(path),
         NEW payload,
         \A path \in DOMAIN config : /\ <<name>> \o path \in DOMAIN payload
                                     /\ payload[<<name>> \o path] = config[path],
         \A path \in DOMAIN payload : Len(path) > 1 /\ path[1] = name =>
            \E p \in DOMAIN config : path = <<name>> \o p
  PROVE  Inside(payload, name) = config
<1> DEFINE inner == {path \in DOMAIN payload : Len(path) > 1 /\ path[1] = name}
           tails == {Tail(p) : p \in inner}
<1>1. \A p \in DOMAIN config : /\ Tail(<<name>> \o p) = p /\ (<<name>> \o p)[1] = name
                               /\ Len(<<name>> \o p) > 1
  <2>1. \A p \in DOMAIN config : /\ Tail(<<name>> \o p) = p /\ (<<name>> \o p)[1] = name
                                 /\ Len(<<name>> \o p) = Len(p) + 1 /\ Len(p) \in 1..3
    BY InnerPath
  <2>2. QED
    BY <2>1
<1>2. \A p \in DOMAIN config : <<name>> \o p \in inner
  BY <1>1
<1>3. \A path \in inner : \E p \in DOMAIN config : path = <<name>> \o p
  OBVIOUS
<1> HIDE DEF inner
<1>4. tails = DOMAIN config
  <2>1. ASSUME NEW x \in tails PROVE x \in DOMAIN config
    <3>1. PICK path \in inner : x = Tail(path)
      OBVIOUS
    <3>2. PICK p \in DOMAIN config : path = <<name>> \o p
      BY <1>3
    <3>3. QED
      BY <1>1, <3>1, <3>2, Zenon
  <2>2. ASSUME NEW x \in DOMAIN config PROVE x \in tails
    BY <1>1, <1>2
  <2>3. QED
    BY <2>1, <2>2
<1>5. Inside(payload, name) = [path \in tails |-> payload[<<name>> \o path]]
  BY DEF Inside, inner
<1> HIDE DEF tails
<1>6. QED
  BY <1>4, <1>5

(* The paths written are sequences of names.                               *)
LEMMA WrittenPaths ==
  ASSUME NEW s, Reportable(s)
  PROVE  /\ WriteSettings(s) = [path \in DOMAIN WriteSettings(s) |-> WriteSettings(s)[path]]
         /\ \A path \in DOMAIN WriteSettings(s) : IsPath(path)
<1>1. DOMAIN WriteSettings(s) \subseteq
        KeptPaths(s[<<"strategies">>], CrossoversOf(s)) \cup ObjectPaths(s[<<"strategies">>])
        \cup {AllowShort}
  BY WrittenMembers DEF PathsOf
<1>2. \A path \in KeptPaths(s[<<"strategies">>], CrossoversOf(s)) : IsPath(path)
  <2>1. \A i, x : IsPath(At(i, x))
    BY DEF At, IsPath
  <2>2. \A path \in TopPaths : IsPath(path)
    BY DEF TopPaths, IsPath
  <2>3. \A path \in BoundPaths : IsPath(path)
    BY DEF BoundPaths, LimitPaths, IsPath
  <2>4. QED
    BY <2>1, <2>2, <2>3 DEF KeptPaths
<1>3. \A path \in ObjectPaths(s[<<"strategies">>]) \cup {AllowShort} : IsPath(path)
  BY DEF ObjectPaths, AllowShort, IsPath
<1>4. WriteSettings(s) = [path \in DOMAIN WriteSettings(s) |-> WriteSettings(s)[path]]
  BY DEF WriteSettings
<1>5. QED
  BY <1>1, <1>2, <1>3, <1>4

-----------------------------------------------------------------------------
(* A report of a run.                                                      *)

(* Any report, and its parts: its own members, the settings, and the risk  *)
(* switch.                                                                 *)
ReportOf(run, status, s, engaged, command, error) ==
    [run |-> run, status |-> status, settings |-> s, engaged |-> engaged, command |-> command,
     error |-> error]

(* The members it has none in, and their values.                           *)
OwnNames(command, error) ==
    {"run_id", "engine_id", "status", "updated_at", "config", "kill_switch"}
    \cup (IF command = None THEN {} ELSE {"command_id"}) \cup (IF error THEN {"error"} ELSE {})

OwnMembers(run, status, command) ==
    [run_id |-> Text(run), engine_id |-> Text("engine"), status |-> Text(status),
     updated_at |-> <<"Time", 0>>, config |-> Object, kill_switch |-> Object,
     command_id |-> Text(command), error |-> Text("the error")]

ReportParts(payload, own, members, config, engaged) ==
    /\ DOMAIN payload = {<<name>> : name \in own}
                        \cup {<<"config">> \o path : path \in DOMAIN config}
                        \cup {<<"kill_switch", "engaged">>}
    /\ \A name \in own : payload[<<name>>] = members[name]
    /\ \A path \in DOMAIN config : payload[<<"config">> \o path] = config[path]
    /\ payload[<<"kill_switch", "engaged">>] = <<"Bool", engaged>>

(* The parts are all there, at paths of their own.                         *)
LEMMA ReportHas ==
  ASSUME NEW run, NEW status, NEW s, Reportable(s), NEW engaged, NEW command, NEW error
  PROVE  ReportParts(ReportJson(ReportOf(run, status, s, engaged, command, error)),
                     OwnNames(command, error), OwnMembers(run, status, command), WriteSettings(s),
                     engaged)
<1> DEFINE report == ReportOf(run, status, s, engaged, command, error)
           absent == (IF command = None THEN {"command_id"} ELSE {})
                     \cup (IF error THEN {} ELSE {"error"})
           members == OwnMembers(run, status, command)
           own == OwnNames(command, error)
           kept == [name \in own |-> members[name]]
           config == WriteSettings(s)
           flat == Flat(kept)
           under == Under("config", config)
           one == Flat([engaged |-> <<"Bool", engaged>>])
           switch == Under("kill_switch", one)
           payload == ReportJson(report)
<1>1. payload = Both(flat, Both(under, switch))
  <2>1. DOMAIN members = {"run_id", "engine_id", "status", "updated_at", "config", "kill_switch",
                          "command_id", "error"}
    BY DEF OwnMembers
  <2>2. DOMAIN members \ absent = own
    BY <2>1 DEF OwnNames
  <2>3. /\ report.run = run /\ report.status = status /\ report.settings = s
        /\ report.engaged = engaged /\ report.command = command /\ report.error = error
    BY DEF ReportOf
  <2> HIDE DEF report, absent, own
  <2>4. payload = Both(Flat([name \in DOMAIN members \ absent |-> members[name]]),
                       Both(Under("config", WriteSettings(report.settings)),
                            Under("kill_switch", Flat([engaged |-> <<"Bool", report.engaged>>]))))
    BY <2>3 DEF ReportJson, OwnMembers, absent
  <2>5. QED
    BY <2>2, <2>3, <2>4
<1>2. \A path \in DOMAIN config : IsPath(path)
  BY WrittenPaths
<1>3. DOMAIN flat = {<<name>> : name \in own} /\ \A name \in own : flat[<<name>>] = members[name]
  <2>1. DOMAIN kept = own /\ \A name \in own : kept[name] = members[name]
    OBVIOUS
  <2> HIDE DEF kept
  <2>2. QED
    BY <2>1, FlatMembers
<1>4. /\ DOMAIN under = {<<"config">> \o path : path \in DOMAIN config}
      /\ \A path \in DOMAIN config : under[<<"config">> \o path] = config[path]
  BY <1>2, UnderMembers
<1>5. /\ DOMAIN switch = {<<"kill_switch", "engaged">>}
      /\ switch[<<"kill_switch", "engaged">>] = <<"Bool", engaged>>
  <2> DEFINE only == [engaged |-> <<"Bool", engaged>>]
  <2>1. DOMAIN only = {"engaged"} /\ only["engaged"] = <<"Bool", engaged>>
    OBVIOUS
  <2> HIDE DEF only
  <2>2. DOMAIN Flat(only) = {<<"engaged">>} /\ Flat(only)[<<"engaged">>] = <<"Bool", engaged>>
    <3>1. /\ DOMAIN Flat(only) = {<<name>> : name \in DOMAIN only}
          /\ \A name \in DOMAIN only : Flat(only)[<<name>>] = only[name]
      BY FlatMembers
    <3>2. {<<name>> : name \in {"engaged"}} = {<<"engaged">>}
      OBVIOUS
    <3>3. QED
      BY <2>1, <3>1, <3>2
  <2>3. IsPath(<<"engaged">>)
    BY DEF IsPath
  <2>4. /\ DOMAIN Under("kill_switch", Flat(only)) = {<<"kill_switch">> \o <<"engaged">>}
        /\ Under("kill_switch", Flat(only))[<<"kill_switch">> \o <<"engaged">>] = <<"Bool", engaged>>
    <3> DEFINE object == Flat(only)
    <3> HIDE DEF object
    <3>1. DOMAIN object = {<<"engaged">>} /\ object[<<"engaged">>] = <<"Bool", engaged>>
      BY <2>2 DEF object
    <3>2. \A path \in DOMAIN object : IsPath(path)
      BY <2>3, <3>1
    <3>3. /\ DOMAIN Under("kill_switch", object) = {<<"kill_switch">> \o path : path \in DOMAIN object}
          /\ \A path \in DOMAIN object :
                Under("kill_switch", object)[<<"kill_switch">> \o path] = object[path]
      BY <3>2, UnderMembers
    <3>4. QED
      BY <3>1, <3>3 DEF object
  <2>5. QED
    BY <2>4, PathOfTwo DEF only
<1>6. \A path \in DOMAIN config : /\ \A name : <<"config">> \o path # <<name>>
                                  /\ <<"config">> \o path # <<"kill_switch", "engaged">>
  <2>1. \A path \in DOMAIN config : /\ Len(<<"config">> \o path) = Len(path) + 1
                                    /\ Len(path) \in 1..3
                                    /\ (<<"config">> \o path)[1] = "config"
    BY <1>2, InnerPath
  <2>2. \A name : Len(<<name>>) = 1
    OBVIOUS
  <2>3. <<"kill_switch", "engaged">>[1] = "kill_switch"
    OBVIOUS
  <2>4. ASSUME NEW path \in DOMAIN config, NEW name PROVE <<"config">> \o path # <<name>>
    <3>1. Len(<<"config">> \o path) # Len(<<name>>)
      BY <2>1, <2>2
    <3>2. QED
      BY <3>1
  <2>5. ASSUME NEW path \in DOMAIN config
        PROVE  <<"config">> \o path # <<"kill_switch", "engaged">>
    BY <2>1, <2>3
  <2>6. QED
    BY <2>4, <2>5
<1>7. \A name : <<name>> # <<"kill_switch", "engaged">>
  OBVIOUS
<1>8. /\ DOMAIN payload = DOMAIN flat \cup (DOMAIN under \cup DOMAIN switch)
      /\ \A path \in DOMAIN flat : payload[path] = flat[path]
      /\ \A path \in DOMAIN under \ DOMAIN flat : payload[path] = under[path]
      /\ \A path \in DOMAIN switch \ (DOMAIN flat \cup DOMAIN under) : payload[path] = switch[path]
  <2> DEFINE rest == Both(under, switch)
             whole == Both(flat, rest)
  <2>1. /\ DOMAIN rest = DOMAIN under \cup DOMAIN switch
        /\ \A path \in DOMAIN under : rest[path] = under[path]
        /\ \A path \in DOMAIN switch \ DOMAIN under : rest[path] = switch[path]
    <3> HIDE DEF under, switch
    <3>1. QED
      BY BothMembers
  <2>2. /\ DOMAIN whole = DOMAIN flat \cup DOMAIN rest
        /\ \A path \in DOMAIN flat : whole[path] = flat[path]
        /\ \A path \in DOMAIN rest \ DOMAIN flat : whole[path] = rest[path]
    <3> HIDE DEF flat, rest
    <3>1. QED
      BY BothMembers
  <2>3. payload = whole
    BY <1>1
  <2> HIDE DEF flat, under, switch, payload, whole, rest
  <2>4. QED
    BY <2>1, <2>2, <2>3
<1> HIDE DEF flat, under, switch, one, members, own, config, payload
<1>9. \A name \in own : payload[<<name>>] = members[name]
  BY <1>3, <1>8
<1>10. \A path \in DOMAIN config : payload[<<"config">> \o path] = config[path]
  BY <1>3, <1>4, <1>6, <1>8
<1>11. payload[<<"kill_switch", "engaged">>] = <<"Bool", engaged>>
  BY <1>3, <1>4, <1>5, <1>6, <1>7, <1>8
<1>12. ReportParts(payload, own, members, config, engaged)
  BY <1>3, <1>4, <1>5, <1>8, <1>9, <1>10, <1>11 DEF ReportParts
<1>13. QED
  BY <1>12 DEF members, own, config, payload, report

(* The config of a report is found in it, and nothing else is there.       *)
Within(config, payload) ==
    \A path : IsPath(path) =>
        /\ <<"config">> \o path \in DOMAIN payload <=> path \in DOMAIN config
        /\ path \in DOMAIN config => payload[<<"config">> \o path] = config[path]

(* Each of a report's members can be read.                                 *)
LEMMA ReportHolds ==
  ASSUME NEW run, NEW status, NEW s, Reportable(s), NEW engaged, NEW command, NEW error
  PROVE  LET payload == ReportJson(ReportOf(run, status, s, engaged, command, error))
         IN  /\ Within(WriteSettings(s), payload)
             /\ Inside(payload, "config") = WriteSettings(s)
             /\ <<"command_id">> \in DOMAIN payload <=> command # None
             /\ <<"error">> \in DOMAIN payload <=> error
             /\ \A name \in {"progress", "clock"} : <<name>> \notin DOMAIN payload
             /\ \A name \in {"changed_at", "reason"} :
                   <<"kill_switch", name>> \notin DOMAIN payload
<1> DEFINE payload == ReportJson(ReportOf(run, status, s, engaged, command, error))
           own == OwnNames(command, error)
           config == WriteSettings(s)
<1>1. ReportParts(payload, own, OwnMembers(run, status, command), config, engaged)
  BY ReportHas
<1>2. /\ config = [path \in DOMAIN config |-> config[path]]
      /\ \A path \in DOMAIN config : IsPath(path)
  BY WrittenPaths
<1> HIDE DEF config, payload
<1>0. /\ DOMAIN payload = {<<name>> : name \in own}
                          \cup {<<"config">> \o path : path \in DOMAIN config}
                          \cup {<<"kill_switch", "engaged">>}
      /\ \A path \in DOMAIN config : payload[<<"config">> \o path] = config[path]
  BY <1>1 DEF ReportParts
<1>3. \A path : IsPath(path) =>
        /\ Len(<<"config">> \o path) = Len(path) + 1 /\ Len(path) \in 1..3
        /\ (<<"config">> \o path)[1] = "config" /\ Tail(<<"config">> \o path) = path
  BY InnerPath
<1>4. \A name : Len(<<name>>) = 1 /\ <<name>>[1] = name
  OBVIOUS
<1>5. \A name : Len(<<"kill_switch", name>>) = 2 /\ <<"kill_switch", name>>[1] = "kill_switch"
  OBVIOUS
<1>6. ASSUME NEW path, IsPath(path)
      PROVE  /\ \A name : <<"config">> \o path # <<name>>
             /\ \A name : <<"config">> \o path # <<"kill_switch", name>>
  <2>1. Len(<<"config">> \o path) # 1 /\ (<<"config">> \o path)[1] = "config"
    BY <1>3, <1>6
  <2>2. ASSUME NEW name PROVE <<"config">> \o path # <<name>>
    BY <1>4, <2>1, Zenon
  <2>3. ASSUME NEW name PROVE <<"config">> \o path # <<"kill_switch", name>>
    <3>1. "config" # "kill_switch"
      OBVIOUS
    <3>2. QED
      BY <1>5, <2>1, <3>1, Zenon
  <2>4. QED
    BY <2>2, <2>3
<1>7. Within(config, payload)
  <2> SUFFICES ASSUME NEW path, IsPath(path)
               PROVE  <<"config">> \o path \in DOMAIN payload => path \in DOMAIN config
    BY <1>0 DEF Within
  <2> HAVE <<"config">> \o path \in DOMAIN payload
  <2>1. PICK p \in DOMAIN config : <<"config">> \o path = <<"config">> \o p
    BY <1>0, <1>6
  <2>2. Tail(<<"config">> \o path) = path /\ Tail(<<"config">> \o p) = p
    BY <1>2, <1>3
  <2>3. QED
    BY <2>1, <2>2
<1>8. Inside(payload, "config") = config
  <2>1. \A path \in DOMAIN config : /\ <<"config">> \o path \in DOMAIN payload
                                    /\ payload[<<"config">> \o path] = config[path]
    BY <1>0
  <2>2. ASSUME NEW path \in DOMAIN payload, Len(path) > 1, path[1] = "config"
        PROVE  \E p \in DOMAIN config : path = <<"config">> \o p
    <3>1. ASSUME NEW name, path = <<name>> PROVE FALSE
      BY <1>4, <2>2, <3>1
    <3>2. path # <<"kill_switch", "engaged">>
      BY <1>5, <2>2
    <3>3. QED
      BY <1>0, <3>1, <3>2
  <2>3. QED
    BY <1>2, <2>1, <2>2, InsideObject
<1>9. \A name : <<name>> \in DOMAIN payload <=> name \in own
  <2>1. \A name : <<name>> # <<"kill_switch", "engaged">>
    BY <1>4, <1>5
  <2>2. ASSUME NEW name, <<name>> \in DOMAIN payload PROVE name \in own
    <3>1. ~\E path \in DOMAIN config : <<name>> = <<"config">> \o path
      BY <1>2, <1>6
    <3>2. PICK x \in own : <<name>> = <<x>>
      BY <1>0, <2>1, <2>2, <3>1
    <3>3. name = x
      BY <1>4, <3>2
    <3>4. QED
      BY <3>2, <3>3
  <2>3. QED
    BY <1>0, <2>2
<1>10. ASSUME NEW name \in {"changed_at", "reason"}
       PROVE  <<"kill_switch", name>> \notin DOMAIN payload
  <2>1. ~\E x : <<"kill_switch", name>> = <<x>>
    BY <1>4, <1>5
  <2>2. ~\E path \in DOMAIN config : <<"kill_switch", name>> = <<"config">> \o path
    BY <1>2, <1>6
  <2>3. <<"kill_switch", name>> # <<"kill_switch", "engaged">>
    OBVIOUS
  <2>4. QED
    BY <1>0, <2>1, <2>2, <2>3
<1>11. /\ "command_id" \in own <=> command # None
       /\ "error" \in own <=> error
       /\ "progress" \notin own /\ "clock" \notin own
  BY DEF OwnNames
<1> HIDE DEF own
<1>12. QED
  BY <1>7, <1>8, <1>9, <1>10, <1>11 DEF config, payload

(* The settings inside a report are read as they would be alone.           *)
LEMMA InnerMembersRead ==
  ASSUME NEW config, CountOf(config) \in Nat,
         \A m \in ToSet(SettingsMembers(config)) : ~Unread(m, config),
         NEW payload, Within(config, payload), NEW m \in ToSet(SettingsMembers(config))
  PROVE  ~Unread(InConfig(m), payload)
<1> DEFINE inner == <<"config">> \o m.path
           n == InConfig(m)
<1>1. n.path = inner /\ n.as = m.as /\ n.needed = m.needed
  <2>1. m = [path |-> m.path, as |-> m.as, needed |-> m.needed]
    BY MembersAreRecords
  <2>2. QED
    BY <2>1 DEF InConfig
<1>2. IsPath(m.path)
  BY MemberPaths
<1>3. /\ inner \in DOMAIN payload <=> m.path \in DOMAIN config
      /\ m.path \in DOMAIN config => payload[inner] = config[m.path]
  BY <1>2 DEF Within
<1>4. /\ Len(inner) = Len(m.path) + 1 /\ Len(m.path) \in 1..3
      /\ Len(m.path) # 1 => Front(inner) = <<"config">> \o Front(m.path) /\ IsPath(Front(m.path))
  BY <1>2, InnerPath
<1>5. ~Unread(m, config)
  OBVIOUS
<1>6. CASE m.path \in DOMAIN config
  <2>1. Reads(m.as, config[m.path])
    BY <1>5, <1>6 DEF Unread
  <2>2. n.path \in DOMAIN payload /\ Reads(n.as, payload[n.path])
    <3>1. n.path \in DOMAIN payload /\ n.as = m.as /\ payload[n.path] = config[m.path]
      BY <1>1, <1>3, <1>6
    <3>2. QED
      BY <2>1, <3>1
  <2>3. QED
    BY <2>2 DEF Unread
<1>7. CASE m.path \notin DOMAIN config
  <2>1. ~m.needed \/ (Len(m.path) # 1 /\ Front(m.path) \notin DOMAIN config)
    BY <1>5, <1>7 DEF Unread
  <2>2. n.path \notin DOMAIN payload
    BY <1>1, <1>3, <1>7
  <2>3. CASE ~m.needed
    BY <1>1, <2>2, <2>3 DEF Unread
  <2>4. CASE Len(m.path) # 1 /\ Front(m.path) \notin DOMAIN config
    <3>1. IsPath(Front(m.path)) /\ Front(inner) = <<"config">> \o Front(m.path)
      BY <1>4, <2>4
    <3>2. <<"config">> \o Front(m.path) \in DOMAIN payload <=> Front(m.path) \in DOMAIN config
      BY <3>1 DEF Within
    <3>3. Front(n.path) \notin DOMAIN payload
      BY <1>1, <2>4, <3>1, <3>2
    <3>4. Len(n.path) # 1
      <4>1. Len(inner) # 1
        <5> DEFINE l == Len(inner)
                   k == Len(m.path)
        <5>1. l = k + 1 /\ k \in 1..3
          BY <1>4
        <5> HIDE DEF l, k
        <5>2. l # 1
          BY <5>1
        <5>3. QED
          BY <5>2 DEF l
      <4>2. QED
        BY <1>1, <4>1
    <3>5. ~Unread(n, payload)
      <4> HIDE DEF n
      <4>1. QED
        BY <2>2, <3>3, <3>4, Zenon DEF Unread
    <3>6. QED
      BY <3>5
  <2>5. QED
    BY <2>1, <2>3, <2>4
<1>8. QED
  BY <1>6, <1>7

(* A member that is there and can be read, and one that may be left out.   *)
LEMMA MemberRead ==
  ASSUME NEW path, NEW as, NEW object, path \in DOMAIN object, Reads(as, object[path])
  PROVE  ~Unread(Needed(path, as), object) /\ ~Unread(Optional(path, as), object)
<1>1. /\ Needed(path, as).path = path /\ Needed(path, as).as = as
      /\ Optional(path, as).path = path /\ Optional(path, as).as = as
  BY DEF Needed, Optional
<1>2. QED
  BY <1>1 DEF Unread

(* A member may be left out, and texts are read one by one.                *)
LEMMA MemberLeftOut ==
  ASSUME NEW path, NEW as, NEW object, path \notin DOMAIN object
  PROVE  ~Unread(Optional(path, as), object)
  BY DEF Unread, Optional

LEMMA TextsRead ==
  /\ \A text : Reads("text", Text(text))
  /\ \A status \in RunStates : Reads("status", Text(status))
  /\ Reads("time", <<"Time", 0>>) /\ Reads("object", Object)
  /\ \A engaged : Reads("boolean", <<"Bool", engaged>>)
  /\ \A n \in Nat : Reads("unsigned", <<"Whole", n>>)
  /\ \A texts : Reads("texts", <<"Texts", texts>>)
<1>1. \A text : Reads("text", Text(text))
  BY DEF Reads, Text, Strings
<1>2. \A status \in RunStates : Reads("status", Text(status))
  BY DEF Reads, Texts
<1>3. Reads("time", <<"Time", 0>>) /\ Reads("object", Object)
  BY DEF Reads
<1>4. \A engaged : Reads("boolean", <<"Bool", engaged>>)
  BY DEF Reads
<1>5. \A n \in Nat : Reads("unsigned", <<"Whole", n>>)
  BY DEF Reads, WholeNumbers
<1>6. \A texts : Reads("texts", <<"Texts", texts>>)
  BY DEF Reads
<1>7. QED
  BY <1>1, <1>2, <1>3, <1>4, <1>5, <1>6

(* The codec's members of a report, before and after the settings.         *)
FirstInReport ==
    <<Needed(<<"run_id">>, "text"), Optional(<<"engine_id">>, "text"),
      Needed(<<"status">>, "status"), Needed(<<"updated_at">>, "time"),
      Needed(<<"config">>, "object")>>

LastInReport ==
    <<Needed(<<"kill_switch">>, "object"), Needed(<<"kill_switch", "engaged">>, "boolean"),
      Optional(<<"kill_switch", "changed_at">>, "time"),
      Optional(<<"kill_switch", "reason">>, "text"),
      Optional(<<"progress">>, "number"), Optional(<<"clock">>, "time"),
      Optional(<<"error">>, "text"), Optional(<<"command_id">>, "text")>>

LEMMA ReportMembersAre ==
  ASSUME NEW payload, CountOf(Inside(payload, "config")) \in Nat
  PROVE  LET config == Inside(payload, "config")
         IN  /\ \E S : ReportMembers(payload) \in Seq(S)
             /\ \A m \in ToSet(ReportMembers(payload)) :
                   \/ m \in ToSet(FirstInReport) \/ m \in ToSet(LastInReport)
                   \/ \E n \in ToSet(SettingsMembers(config)) : m = InConfig(n)
<1> DEFINE config == SettingsMembers(Inside(payload, "config"))
           middle == [k \in 1..Len(config) |-> InConfig(config[k])]
           S == ToSet(FirstInReport) \cup {InConfig(n) : n \in ToSet(config)} \cup ToSet(LastInReport)
<1>1. \E R : config \in Seq(R)
  BY SettingsMembersAre DEF MembersAre
<1>2. DOMAIN config = 1..Len(config) /\ Len(config) \in Nat
  BY <1>1
<1> HIDE DEF config
<1>3. middle \in Seq({InConfig(n) : n \in ToSet(config)})
  BY <1>2 DEF ToSet
<1>4. FirstInReport \in Seq(ToSet(FirstInReport))
  <2>1. DOMAIN FirstInReport = {1, 2, 3, 4, 5}
    BY DEF FirstInReport
  <2>2. QED
    BY <2>1 DEF ToSet, FirstInReport
<1>5. LastInReport \in Seq(ToSet(LastInReport))
  <2>1. DOMAIN LastInReport = {1, 2, 3, 4, 5, 6, 7, 8}
    BY DEF LastInReport
  <2>2. QED
    BY <2>1 DEF ToSet, LastInReport
<1>6. FirstInReport \in Seq(S) /\ middle \in Seq(S) /\ LastInReport \in Seq(S)
  <2>1. \A A, B : A \subseteq B => Seq(A) \subseteq Seq(B)
    OBVIOUS
  <2>2. /\ ToSet(FirstInReport) \subseteq S /\ ToSet(LastInReport) \subseteq S
        /\ {InConfig(n) : n \in ToSet(config)} \subseteq S
    OBVIOUS
  <2> HIDE DEF middle, S
  <2>3. FirstInReport \in Seq(S)
    BY <1>4, <2>1, <2>2
  <2>4. LastInReport \in Seq(S)
    BY <1>5, <2>1, <2>2
  <2>5. middle \in Seq(S)
    BY <1>3, <2>1, <2>2
  <2>6. QED
    BY <2>3, <2>4, <2>5
<1>7. ToSet(middle) \subseteq {InConfig(n) : n \in ToSet(config)}
  BY <1>2 DEF ToSet
<1> HIDE DEF middle, S
<1>8. /\ FirstInReport \o middle \in Seq(S)
      /\ ToSet(FirstInReport \o middle) = ToSet(FirstInReport) \cup ToSet(middle)
  BY <1>6, JoinedRange
<1>9. /\ FirstInReport \o middle \o LastInReport \in Seq(S)
      /\ ToSet(FirstInReport \o middle \o LastInReport) =
            ToSet(FirstInReport \o middle) \cup ToSet(LastInReport)
  <2> DEFINE start == FirstInReport \o middle
  <2>1. start \in Seq(S)
    BY <1>8
  <2> HIDE DEF start
  <2>2. start \o LastInReport \in Seq(S) /\ ToSet(start \o LastInReport) = ToSet(start) \cup ToSet(LastInReport)
    BY <1>6, <2>1, JoinedRange
  <2>3. QED
    BY <2>2 DEF start
<1>10. ReportMembers(payload) = FirstInReport \o middle \o LastInReport
  BY DEF ReportMembers, FirstInReport, LastInReport, middle, config
<1>11. \A m \in ToSet(ReportMembers(payload)) :
          \/ m \in ToSet(FirstInReport) \/ m \in ToSet(LastInReport)
          \/ \E n \in ToSet(config) : m = InConfig(n)
  BY <1>7, <1>8, <1>9, <1>10
<1>12. QED
  BY <1>9, <1>10, <1>11 DEF config

(* A report can be read, and what is read is what it was made of, but for  *)
(* the settings, which are read from what was written of them.             *)
ReadAsWritten(run, status, s, engaged, command, error) ==
    LET report == ReportOf(run, status, s, engaged, command, error)
    IN  /\ FirstUnread(ReportMembers(ReportJson(report)), ReportJson(report)) = None
        /\ ReportFrom(ReportJson(report)) =
              ReportOf(run, status, SettingsFrom(WriteSettings(s)), engaged, command, error)

(* A report is read, and says what was to be reported, of settings what    *)
(* can be read of what is written.                                         *)
LEMMA ReportIsRead ==
  ASSUME NEW run, NEW status \in RunStates, NEW s, Reportable(s), NEW engaged, NEW command,
         NEW error, error = TRUE \/ error = FALSE
  PROVE  ReadAsWritten(run, status, s, engaged, command, error)
<1> DEFINE report == ReportOf(run, status, s, engaged, command, error)
           payload == ReportJson(report)
           own == OwnNames(command, error)
           members == OwnMembers(run, status, command)
           config == WriteSettings(s)
<1>1. ReportParts(payload, own, members, config, engaged)
  BY ReportHas
<1>2. /\ Within(config, payload)
      /\ Inside(payload, "config") = config
      /\ <<"command_id">> \in DOMAIN payload <=> command # None
      /\ <<"error">> \in DOMAIN payload <=> error
      /\ \A name \in {"progress", "clock"} : <<name>> \notin DOMAIN payload
      /\ \A name \in {"changed_at", "reason"} : <<"kill_switch", name>> \notin DOMAIN payload
  BY ReportHolds
<1>3. /\ CountOf(config) \in Nat
      /\ \A m \in ToSet(SettingsMembers(config)) : ~Unread(m, config)
  BY SettingsReadBack
<1> HIDE DEF payload, config
<1>4. /\ \A name \in own : <<name>> \in DOMAIN payload /\ payload[<<name>>] = members[name]
      /\ <<"kill_switch", "engaged">> \in DOMAIN payload
      /\ payload[<<"kill_switch", "engaged">>] = <<"Bool", engaged>>
  BY <1>1 DEF ReportParts
<1>5. {"run_id", "engine_id", "status", "updated_at", "config", "kill_switch"} \subseteq own
  BY DEF OwnNames
<1>6. /\ members["run_id"] = Text(run) /\ members["engine_id"] = Text("engine")
      /\ members["status"] = Text(status) /\ members["updated_at"] = <<"Time", 0>>
      /\ members["config"] = Object /\ members["kill_switch"] = Object
      /\ members["command_id"] = Text(command) /\ members["error"] = Text("the error")
  BY DEF OwnMembers
<1>7. /\ command # None => "command_id" \in own
      /\ error => "error" \in own
  BY DEF OwnNames
<1> HIDE DEF own, members
<1>8. ASSUME NEW m \in ToSet(FirstInReport) PROVE ~Unread(m, payload)
  <2>1. m \in {Needed(<<"run_id">>, "text"), Optional(<<"engine_id">>, "text"),
               Needed(<<"status">>, "status"), Needed(<<"updated_at">>, "time"),
               Needed(<<"config">>, "object")}
    BY <1>8 DEF ToSet, FirstInReport
  <2>2. /\ ~Unread(Needed(<<"run_id">>, "text"), payload)
        /\ ~Unread(Optional(<<"engine_id">>, "text"), payload)
    BY <1>4, <1>5, <1>6, TextsRead, MemberRead
  <2>3. ~Unread(Needed(<<"status">>, "status"), payload)
    BY <1>4, <1>5, <1>6, TextsRead, MemberRead
  <2>4. /\ ~Unread(Needed(<<"updated_at">>, "time"), payload)
        /\ ~Unread(Needed(<<"config">>, "object"), payload)
    BY <1>4, <1>5, <1>6, TextsRead, MemberRead
  <2>5. QED
    BY <2>1, <2>2, <2>3, <2>4
<1>9. ASSUME NEW m \in ToSet(LastInReport) PROVE ~Unread(m, payload)
  <2>1. m \in {Needed(<<"kill_switch">>, "object"), Needed(<<"kill_switch", "engaged">>, "boolean"),
               Optional(<<"kill_switch", "changed_at">>, "time"),
               Optional(<<"kill_switch", "reason">>, "text"),
               Optional(<<"progress">>, "number"), Optional(<<"clock">>, "time"),
               Optional(<<"error">>, "text"), Optional(<<"command_id">>, "text")}
    BY <1>9 DEF ToSet, LastInReport
  <2>2. /\ ~Unread(Needed(<<"kill_switch">>, "object"), payload)
        /\ ~Unread(Needed(<<"kill_switch", "engaged">>, "boolean"), payload)
    BY <1>4, <1>5, <1>6, TextsRead, MemberRead
  <2>3. /\ ~Unread(Optional(<<"kill_switch", "changed_at">>, "time"), payload)
        /\ ~Unread(Optional(<<"kill_switch", "reason">>, "text"), payload)
        /\ ~Unread(Optional(<<"progress">>, "number"), payload)
        /\ ~Unread(Optional(<<"clock">>, "time"), payload)
    BY <1>2, MemberLeftOut
  <2>4. ~Unread(Optional(<<"error">>, "text"), payload)
    <3>1. CASE <<"error">> \in DOMAIN payload
      <4>1. payload[<<"error">>] = Text("the error")
        BY <1>2, <1>4, <1>6, <1>7, <3>1
      <4>2. QED
        BY <3>1, <4>1, TextsRead, MemberRead
    <3>2. CASE <<"error">> \notin DOMAIN payload
      BY <3>2, MemberLeftOut
    <3>3. QED
      BY <3>1, <3>2
  <2>5. ~Unread(Optional(<<"command_id">>, "text"), payload)
    <3>1. CASE <<"command_id">> \in DOMAIN payload
      <4>1. payload[<<"command_id">>] = Text(command)
        BY <1>2, <1>4, <1>6, <1>7, <3>1
      <4>2. QED
        BY <3>1, <4>1, TextsRead, MemberRead
    <3>2. CASE <<"command_id">> \notin DOMAIN payload
      BY <3>2, MemberLeftOut
    <3>3. QED
      BY <3>1, <3>2
  <2>6. QED
    BY <2>1, <2>2, <2>3, <2>4, <2>5
<1>10. FirstUnread(ReportMembers(payload), payload) = None
  <2>1. /\ \E S : ReportMembers(payload) \in Seq(S)
        /\ \A m \in ToSet(ReportMembers(payload)) :
              \/ m \in ToSet(FirstInReport) \/ m \in ToSet(LastInReport)
              \/ \E n \in ToSet(SettingsMembers(config)) : m = InConfig(n)
    BY <1>2, <1>3, ReportMembersAre
  <2>2. \A n \in ToSet(SettingsMembers(config)) : ~Unread(InConfig(n), payload)
    BY <1>2, <1>3, InnerMembersRead
  <2>3. \A m \in ToSet(ReportMembers(payload)) : ~Unread(m, payload)
    BY <1>8, <1>9, <2>1, <2>2
  <2>4. QED
    BY <2>1, <2>3, AllRead
<1>11. ReportFrom(payload) = ReportOf(run, status, SettingsFrom(config), engaged, command, error)
  <2>0. \A text : Text(text)[2] = text
    BY DEF Text
  <2>1. /\ payload[<<"run_id">>][2] = run /\ payload[<<"status">>][2] = status
        /\ payload[<<"kill_switch", "engaged">>][2] = engaged
    <3>1. payload[<<"run_id">>] = Text(run) /\ payload[<<"status">>] = Text(status)
      BY <1>4, <1>5, <1>6
    <3>2. payload[<<"kill_switch", "engaged">>] = <<"Bool", engaged>>
      BY <1>4
    <3>3. payload[<<"kill_switch", "engaged">>][2] = engaged
      BY <3>2
    <3>4. QED
      BY <2>0, <3>1, <3>3
  <2>2. (IF <<"command_id">> \in DOMAIN payload THEN payload[<<"command_id">>][2] ELSE None) = command
    <3>1. CASE command = None
      BY <1>2, <3>1
    <3>2. CASE command # None
      <4>1. <<"command_id">> \in DOMAIN payload /\ payload[<<"command_id">>] = Text(command)
        BY <1>4, <1>6, <1>7, <3>2
      <4>2. QED
        BY <2>0, <4>1
    <3>3. QED
      BY <3>1, <3>2
  <2>3. SettingsFrom(Inside(payload, "config")) = SettingsFrom(config)
    BY <1>2
  <2>4. (<<"error">> \in DOMAIN payload) = error
    <3>1. CASE error = TRUE
      BY <1>2, <3>1
    <3>2. CASE error = FALSE
      <4>1. ~error
        BY <3>2
      <4>2. ~(<<"error">> \in DOMAIN payload)
        BY <1>2, <4>1, Zenon
      <4>3. (<<"error">> \in DOMAIN payload) = FALSE
        BY <4>2
      <4>4. QED
        BY <3>2, <4>3, Zenon
    <3>3. QED
      BY <3>1, <3>2
  <2>5. ReportFrom(payload) =
          [run |-> run, status |-> status, settings |-> SettingsFrom(config), engaged |-> engaged,
           command |-> command, error |-> error]
    BY <2>1, <2>2, <2>3, <2>4, Zenon DEF ReportFrom
  <2>6. QED
    BY <2>5 DEF ReportOf
<1>12. QED
  BY <1>10, <1>11 DEF payload, config, ReadAsWritten

(* With its envelope; the run's state is any but none.                     *)
LEMMA ReportIsReadBack ==
  ASSUME NEW r \in Runs, runState[r] \in RunStates, Reportable(settings[r])
  PROVE  ReportReadBack(r)
<1> DEFINE error == (runState[r] = "failed")
           report == ReportOf(r, runState[r], settings[r], kill[r], startCommand[r], error)
           payload == ReportJson(report)
           message == Encode("run", payload)
           back == SettingsFrom(WriteSettings(settings[r]))
           read == ReportOf(r, runState[r], back, kill[r], startCommand[r], error)
<1>1. Report(r) = report
  BY DEF Report, ReportOf
<1>2. FirstUnread(ReportMembers(payload), payload) = None /\ ReportFrom(payload) = read
  <2>1. error = TRUE \/ error = FALSE
    OBVIOUS
  <2> HIDE DEF error
  <2>2. ReadAsWritten(r, runState[r], settings[r], kill[r], startCommand[r], error)
    BY <2>1, ReportIsRead
  <2>3. QED
    BY <2>2 DEF ReadAsWritten
<1>9. SameSettings(read.settings, settings[r]) /\ [read EXCEPT !.settings = settings[r]] = report
  <2>1. read.settings = back
    BY DEF ReportOf
  <2>2. SameSettings(back, settings[r])
    BY SettingsReadBack
  <2>3. [read EXCEPT !.settings = settings[r]] = report
    <3> HIDE DEF back, error
    <3>1. QED
      BY DEF ReportOf
  <2>4. QED
    BY <2>1, <2>2, <2>3
<1> HIDE DEF report, payload, read
<1>3. PayloadMembers(Text("run"), payload) = ReportMembers(payload)
  <2>1. Text("run") # Text("command") /\ Text("run") # Text("engine")
    BY DEF Text
  <2>2. QED
    BY <2>1 DEF PayloadMembers
<1>4. "run" \in Types
  BY DEF Types
<1>5. Decodes(message) /\ message.payload = payload
  BY <1>2, <1>3, <1>4, EnvelopeRead
<1>6. Encode("run", ReportJson(Report(r))) = message
  BY <1>1 DEF payload
<1> HIDE DEF message
<1>7. \A m \in {message} : Decodes(m) /\ ReportFrom(m.payload) = read
  BY <1>2, <1>5
<1>8. QED
  BY <1>1, <1>6, <1>7, <1>9 DEF ReportReadBack

(* An announcement.                                                        *)
LEMMA AnnouncementIsRead ==
  ASSUME NEW symbols, NEW runs
  PROVE  LET payload == AnnouncementJson(symbols, runs)
         IN  FirstUnread(AnnouncementMembers, payload) = None /\ AnnouncementFrom(payload) = runs
<1> DEFINE own == [engine_id |-> Text("engine"), version |-> Text("1"),
                   started_at |-> <<"Time", 0>>, sent_at |-> <<"Time", 0>>,
                   heartbeat_ms |-> <<"Whole", 2000>>, market_data |-> Object,
                   runs |-> <<"Texts", runs>>]
           data == [symbols |-> <<"Texts", symbols>>, first_session |-> Text("first"),
                    last_session |-> Text("last")]
           flat == Flat(own)
           inner == Flat(data)
           under == Under("market_data", inner)
           payload == AnnouncementJson(symbols, runs)
<1>1. /\ DOMAIN own = {"engine_id", "version", "started_at", "sent_at", "heartbeat_ms",
                       "market_data", "runs"}
      /\ own["engine_id"] = Text("engine") /\ own["version"] = Text("1")
      /\ own["started_at"] = <<"Time", 0>> /\ own["sent_at"] = <<"Time", 0>>
      /\ own["heartbeat_ms"] = <<"Whole", 2000>> /\ own["market_data"] = Object
      /\ own["runs"] = <<"Texts", runs>>
  OBVIOUS
<1>2. /\ DOMAIN data = {"symbols", "first_session", "last_session"}
      /\ data["symbols"] = <<"Texts", symbols>> /\ data["first_session"] = Text("first")
      /\ data["last_session"] = Text("last")
  OBVIOUS
<1>3. payload = Both(flat, under)
  BY DEF AnnouncementJson
<1> HIDE DEF own, data, payload
<1>4. /\ \A name \in DOMAIN own : <<name>> \in DOMAIN flat /\ flat[<<name>>] = own[name]
      /\ \A path \in DOMAIN flat : Len(path) = 1
  <2>1. /\ DOMAIN flat = {<<name>> : name \in DOMAIN own}
        /\ \A name \in DOMAIN own : flat[<<name>>] = own[name]
    BY FlatMembers
  <2>2. \A name : Len(<<name>>) = 1
    OBVIOUS
  <2>3. QED
    BY <2>1, <2>2
<1>5. \A name \in DOMAIN data : /\ <<"market_data", name>> \in DOMAIN under
                                /\ under[<<"market_data", name>>] = data[name]
  <2>1. /\ DOMAIN inner = {<<name>> : name \in DOMAIN data}
        /\ \A name \in DOMAIN data : inner[<<name>>] = data[name]
    BY FlatMembers
  <2>2. \A name : IsPath(<<name>>)
    BY DEF IsPath
  <2>3. \A path \in DOMAIN inner : IsPath(path)
    BY <2>1, <2>2
  <2> HIDE DEF inner
  <2>4. /\ DOMAIN under = {<<"market_data">> \o path : path \in DOMAIN inner}
        /\ \A path \in DOMAIN inner : under[<<"market_data">> \o path] = inner[path]
    BY <2>3, UnderMembers
  <2>5. \A name : <<"market_data">> \o <<name>> = <<"market_data", name>>
    BY PathOfTwo
  <2> HIDE DEF under
  <2>6. SUFFICES ASSUME NEW name \in DOMAIN data
                 PROVE  /\ <<"market_data", name>> \in DOMAIN under
                        /\ under[<<"market_data", name>>] = data[name]
    OBVIOUS
  <2>7. <<name>> \in DOMAIN inner /\ inner[<<name>>] = data[name]
    BY <2>1
  <2>8. /\ <<"market_data">> \o <<name>> \in DOMAIN under
        /\ under[<<"market_data">> \o <<name>>] = inner[<<name>>]
    BY <2>4, <2>7
  <2>9. QED
    BY <2>5, <2>7, <2>8
<1> HIDE DEF flat, under
<1>6. /\ DOMAIN Both(flat, under) = DOMAIN flat \cup DOMAIN under
      /\ \A path \in DOMAIN flat : Both(flat, under)[path] = flat[path]
      /\ \A path \in DOMAIN under \ DOMAIN flat : Both(flat, under)[path] = under[path]
  BY BothMembers
<1>7. \A name \in DOMAIN own : <<name>> \in DOMAIN payload /\ payload[<<name>>] = own[name]
  BY <1>3, <1>4, <1>6
<1>8. \A name \in DOMAIN data : /\ <<"market_data", name>> \in DOMAIN payload
                                /\ payload[<<"market_data", name>>] = data[name]
  <2>1. \A name : Len(<<"market_data", name>>) = 2
    OBVIOUS
  <2>2. \A name : <<"market_data", name>> \notin DOMAIN flat
    BY <1>4, <2>1
  <2>3. QED
    BY <1>3, <1>5, <1>6, <2>2
<1>9. \A m \in ToSet(AnnouncementMembers) : m \in
        {Needed(<<"engine_id">>, "text"), Needed(<<"version">>, "text"),
         Needed(<<"started_at">>, "time"), Needed(<<"sent_at">>, "time"),
         Needed(<<"heartbeat_ms">>, "unsigned"), Needed(<<"market_data">>, "object"),
         Needed(<<"market_data", "symbols">>, "texts"),
         Needed(<<"market_data", "first_session">>, "text"),
         Needed(<<"market_data", "last_session">>, "text"), Needed(<<"runs">>, "texts")}
  BY DEF ToSet, AnnouncementMembers
<1>10. /\ ~Unread(Needed(<<"engine_id">>, "text"), payload)
       /\ ~Unread(Needed(<<"version">>, "text"), payload)
  BY <1>1, <1>7, TextsRead, MemberRead
<1>11. /\ ~Unread(Needed(<<"started_at">>, "time"), payload)
       /\ ~Unread(Needed(<<"sent_at">>, "time"), payload)
  BY <1>1, <1>7, TextsRead, MemberRead
<1>12. /\ ~Unread(Needed(<<"heartbeat_ms">>, "unsigned"), payload)
       /\ ~Unread(Needed(<<"market_data">>, "object"), payload)
  BY <1>1, <1>7, TextsRead, MemberRead
<1>13. /\ ~Unread(Needed(<<"runs">>, "texts"), payload)
       /\ ~Unread(Needed(<<"market_data", "symbols">>, "texts"), payload)
  BY <1>1, <1>2, <1>7, <1>8, TextsRead, MemberRead
<1>14. /\ ~Unread(Needed(<<"market_data", "first_session">>, "text"), payload)
       /\ ~Unread(Needed(<<"market_data", "last_session">>, "text"), payload)
  BY <1>2, <1>8, TextsRead, MemberRead
<1>15. \A m \in ToSet(AnnouncementMembers) : ~Unread(m, payload)
  BY <1>9, <1>10, <1>11, <1>12, <1>13, <1>14
<1>16. AnnouncementMembers \in Seq(ToSet(AnnouncementMembers))
  <2>1. DOMAIN AnnouncementMembers = {1, 2, 3, 4, 5, 6, 7, 8, 9, 10}
    BY DEF AnnouncementMembers
  <2>2. QED
    BY <2>1 DEF ToSet, AnnouncementMembers
<1>17. FirstUnread(AnnouncementMembers, payload) = None
  BY <1>15, <1>16, AllRead
<1>18. AnnouncementFrom(payload) = runs
  BY <1>1, <1>7 DEF AnnouncementFrom
<1>19. QED
  BY <1>17, <1>18 DEF payload

(* The list of runs is read back too.                                      *)
LEMMA AnnouncementIsReadBack == AnnouncementReadBack
<1> DEFINE payload == AnnouncementJson(<<"a">>, AnnouncedRuns)
<1>1. FirstUnread(AnnouncementMembers, payload) = None /\ AnnouncementFrom(payload) = AnnouncedRuns
  BY AnnouncementIsRead
<1> HIDE DEF payload
<1>2. PayloadMembers(Text("engine"), payload) = AnnouncementMembers
  <2>1. Text("engine") # Text("command") /\ Text("engine") # Text("run")
    BY DEF Text
  <2>2. QED
    BY <2>1 DEF PayloadMembers
<1>3. "engine" \in Types
  BY DEF Types
<1>4. Decodes(Encode("engine", payload)) /\ Encode("engine", payload).payload = payload
  BY <1>1, <1>2, <1>3, EnvelopeRead
<1>5. QED
  BY <1>1, <1>4 DEF AnnouncementReadBack, payload

-----------------------------------------------------------------------------
(* The settings of a start nothing is wrong with.                          *)

(* A config that is accepted if the engine is free.                        *)
Sound(config) ==
    /\ Readable(config) /\ \A path \in DOMAIN config : Proper(config[path])
    /\ Problem(SettingsFrom(config)) = None
    /\ \A check \in ToSet(Checks(SettingsFrom(config))) : check.field # None

(* Its settings are the values sent, and defaults for what was not sent.   *)
LEMMA SettingsAreRead ==
  ASSUME NEW config, Readable(config), \A path \in DOMAIN config : Proper(config[path])
  PROVE  LET s == SettingsFrom(config)
             paths == KeptPaths(CountOf(config), Crossovers(config))
         IN  /\ CountOf(config) \in Nat /\ s[<<"strategies">>] = CountOf(config)
             /\ PathsOf(s) = paths
             /\ \A path \in paths : path \in DOMAIN config =>
                   /\ Proper(config[path]) /\ Reads(ReadAs[Last(path)], config[path])
                   /\ s[path] = Taken(ReadAs[Last(path)], config[path])
             /\ \A path \in paths : path \notin DOMAIN config => s[path] = Defaults[Last(path)]
             /\ \A i \in 1..CountOf(config) :
                   s[At(i, "kind")] = IF i \in Crossovers(config) THEN SmaCrossover ELSE MeanReversion
<1> DEFINE s == SettingsFrom(config)
           paths == KeptPaths(CountOf(config), Crossovers(config))
<1>1. /\ CountOf(config) \in Nat /\ MembersAre(config) /\ s[<<"strategies">>] = CountOf(config)
      /\ \A m \in ToSet(SettingsMembers(config)) : ~Unread(m, config)
  BY ReadableMembers, CountRead
<1>2. s = [path \in paths |-> IF path \in DOMAIN config THEN Taken(ReadAs[Last(path)], config[path])
                              ELSE Defaults[Last(path)]]
  BY <1>1, ReadPathsAre DEF SettingsFrom, ReadPaths
<1>3. PathsOf(s) = paths
  <2>1. Reportable(s)
    BY ReadableIsReportable
  <2> HIDE DEF s, paths
  <2>2. s = [path \in PathsOf(s) |-> s[path]]
    BY <2>1 DEF Reportable
  <2>3. DOMAIN s = paths /\ DOMAIN s = PathsOf(s)
    BY <1>2, <2>2
  <2>4. QED
    BY <2>3
<1>4. ASSUME NEW path \in paths, path \in DOMAIN config
      PROVE  Reads(ReadAs[Last(path)], config[path])
  <2>1. PICK m \in ToSet(SettingsMembers(config)) : m.path = path /\ m.as = ReadAs[Last(path)]
    BY <1>1, KeptHasMember
  <2>2. ~Unread(m, config)
    BY <1>1
  <2>3. QED
    BY <1>4, <2>1, <2>2 DEF Unread
<1>5. ASSUME NEW i \in 1..CountOf(config)
      PROVE  s[At(i, "kind")] = IF i \in Crossovers(config) THEN SmaCrossover ELSE MeanReversion
  <2>1. At(i, "kind") \in DOMAIN config /\ s[At(i, "kind")] = config[At(i, "kind")]
    BY KindRead
  <2>2. At(i, "kind") \in paths
    BY DEF KeptPaths, NamesOf, Always
  <2>3. Last(At(i, "kind")) = "kind" /\ ReadAs["kind"] = "kind"
    BY LastNames DEF ReadAs
  <2>4. Reads("kind", config[At(i, "kind")])
    BY <1>4, <2>1, <2>2, <2>3
  <2>5. config[At(i, "kind")] \in {SmaCrossover, MeanReversion}
    BY <2>4 DEF Reads
  <2>6. i \in Crossovers(config) <=> config[At(i, "kind")] = SmaCrossover
    BY <2>1 DEF Crossovers, IsCrossover
  <2>7. QED
    BY <2>1, <2>5, <2>6
<1>6. QED
  BY <1>1, <1>2, <1>3, <1>4, <1>5

(* What the checks say of the settings they find nothing wrong with.       *)
LEMMA SoundNumbers ==
  ASSUME NEW config, Sound(config)
  PROVE  LET s == SettingsFrom(config)
         IN  /\ s[<<"risk", "max_order_quantity">>] > 0 /\ s[<<"risk", "max_open_orders">>] > 0
             /\ \A i \in 1..CountOf(config) :
                   /\ s[At(i, "requested_quantity")] > 0
                   /\ WindowsFit(s, i)
                   /\ s[At(i, "kind")] = MeanReversion => s[At(i, "lookback")] >= 2
<1> DEFINE s == SettingsFrom(config)
<1>1. CountOf(config) \in Nat /\ s[<<"strategies">>] = CountOf(config)
  BY SettingsAreRead DEF Sound
<1> HIDE DEF s
<1>2. ChecksAre(s)
  BY <1>1, ChecksHold
<1>3. \A check \in ToSet(Checks(s)) : check.holds
  BY <1>2, NoneFails DEF Sound, ChecksAre, s
<1>4. \A check \in ToSet(LimitChecks(s)) : check.holds
  BY <1>2, <1>3 DEF ChecksAre
<1>5. s[<<"risk", "max_order_quantity">>] > 0 /\ s[<<"risk", "max_open_orders">>] > 0
  <2>1. /\ DOMAIN LimitChecks(s) = {1, 2, 3, 4, 5, 6, 7, 8, 9}
        /\ LimitChecks(s)[1].holds = (s[<<"risk", "max_order_quantity">>] > 0)
        /\ LimitChecks(s)[5].holds = (s[<<"risk", "max_open_orders">>] > 0)
    BY DEF LimitChecks, Check
  <2>2. LimitChecks(s)[1] \in ToSet(LimitChecks(s)) /\ LimitChecks(s)[5] \in ToSet(LimitChecks(s))
    BY <2>1 DEF ToSet
  <2>3. QED
    BY <1>4, <2>1, <2>2
<1>6. ASSUME NEW i \in 1..CountOf(config)
      PROVE  /\ s[At(i, "requested_quantity")] > 0
             /\ WindowsFit(s, i)
             /\ s[At(i, "kind")] = MeanReversion => s[At(i, "lookback")] >= 2
  <2>1. \A check \in ToSet(StrategyChecks(s, i)) : check.holds
    BY <1>1, <1>2, <1>3 DEF ChecksAre, Strategies
  <2>2. /\ DOMAIN StrategyChecks(s, i) = {1, 2, 3, 4, 5, 6}
        /\ StrategyChecks(s, i)[4].holds = (s[At(i, "requested_quantity")] > 0)
        /\ StrategyChecks(s, i)[5].holds = WindowsFit(s, i)
        /\ StrategyChecks(s, i)[6].holds =
              (s[At(i, "kind")] = MeanReversion => s[At(i, "lookback")] >= 2)
    BY StrategyChecksSay
  <2>3. \A k \in {4, 5, 6} : StrategyChecks(s, i)[k].holds
    BY <2>1, <2>2 DEF ToSet
  <2>4. QED
    BY <2>2, <2>3
<1>7. QED
  BY <1>5, <1>6 DEF s

(* A window that was read, or not given, is a number from zero.            *)
LEMMA WindowsAreNumbers ==
  ASSUME NEW value, Proper(value), Reads("window", value)
  PROVE  Taken("window", value) \in Nat
<1>1. value[1] \in {"Whole", "Huge"} /\ value[2] >= 0
  BY DEF Reads, WholeNumbers
<1>2. Taken("window", value) = IF value[1] = "Huge" THEN 0 ELSE value[2]
  BY DEF Taken
<1>3. CASE value[1] = "Huge"
  BY <1>2, <1>3
<1>4. CASE value[1] = "Whole"
  BY <1>1, <1>2, <1>4 DEF Proper
<1>5. QED
  BY <1>1, <1>3, <1>4

(* The members that are no whole numbers.                                  *)
LEMMA OthersAreNoWholeNumbers ==
  /\ \A x \in {"name", "mode", "period_start", "period_end", "strategies"} :
        ReadAs[x] \notin {"whole", "unsigned", "window"}
  /\ \A x \in {"max_position_notional", "max_gross_exposure", "max_daily_loss", "starting_cash",
               "slippage_bps", "per_share", "per_trade", "bps", "policies",
               "participation_cap", "signal_to_order", "order_to_fill"} :
        ReadAs[x] \notin {"whole", "unsigned", "window"}
  /\ \A x \in {"kind", "strategy_id", "symbols", "entry_threshold", "rearm_threshold"} :
        ReadAs[x] \notin {"whole", "unsigned", "window"}
  /\ ReadAs["short_window"] = "window"
<1>1. /\ ReadAs["name"] = "text" /\ ReadAs["mode"] = "mode"
      /\ ReadAs["period_start"] = "time" /\ ReadAs["period_end"] = "time"
      /\ ReadAs["strategies"] = "array"
  BY DEF ReadAs
<1>2. /\ ReadAs["max_position_notional"] = "amount" /\ ReadAs["max_gross_exposure"] = "amount"
      /\ ReadAs["max_daily_loss"] = "amount" /\ ReadAs["starting_cash"] = "amount"
      /\ ReadAs["slippage_bps"] = "number" /\ ReadAs["per_share"] = "amount"
  BY DEF ReadAs
<1>3. /\ ReadAs["per_trade"] = "amount" /\ ReadAs["bps"] = "number"
      /\ ReadAs["policies"] = "boolean" /\ ReadAs["participation_cap"] = "number"
      /\ ReadAs["signal_to_order"] = "latency" /\ ReadAs["order_to_fill"] = "latency"
  BY DEF ReadAs
<1>4. /\ ReadAs["kind"] = "kind" /\ ReadAs["strategy_id"] = "text" /\ ReadAs["symbols"] = "texts"
      /\ ReadAs["entry_threshold"] = "number" /\ ReadAs["rearm_threshold"] = "number"
      /\ ReadAs["short_window"] = "window"
  BY DEF ReadAs
<1>5. QED
  BY <1>1, <1>2, <1>3, <1>4

(* A whole number that is accepted is one its type holds.                  *)
LEMMA WholeNumbersAreNotLost ==
  ASSUME NEW config, Sound(config),
         NEW path \in KeptPaths(CountOf(config), Crossovers(config)), path \in DOMAIN config,
         ReadAs[Last(path)] \in {"whole", "unsigned", "window"}
  PROVE  config[path][1] # "Huge"
<1> DEFINE s == SettingsFrom(config)
           n == CountOf(config)
           paths == KeptPaths(n, Crossovers(config))
<1>1. /\ n \in Nat
      /\ \A p \in paths : p \in DOMAIN config =>
            /\ Proper(config[p]) /\ Reads(ReadAs[Last(p)], config[p])
            /\ s[p] = Taken(ReadAs[Last(p)], config[p])
      /\ \A p \in paths : p \notin DOMAIN config => s[p] = Defaults[Last(p)]
      /\ \A i \in 1..n :
            s[At(i, "kind")] = IF i \in Crossovers(config) THEN SmaCrossover ELSE MeanReversion
  BY SettingsAreRead DEF Sound
<1>2. /\ s[<<"risk", "max_order_quantity">>] > 0 /\ s[<<"risk", "max_open_orders">>] > 0
      /\ \A i \in 1..n :
            /\ s[At(i, "requested_quantity")] > 0
            /\ WindowsFit(s, i)
            /\ s[At(i, "kind")] = MeanReversion => s[At(i, "lookback")] >= 2
  BY SoundNumbers
<1> SUFFICES ASSUME config[path][1] = "Huge"
             PROVE  FALSE
  OBVIOUS
<1>3. s[path] = 0
  <2>1. s[path] = Taken(ReadAs[Last(path)], config[path])
    BY <1>1
  <2>2. QED
    BY <2>1 DEF Taken
<1> HIDE DEF s, n
<1>4. \/ path \in {<<"risk", "max_order_quantity">>, <<"risk", "max_open_orders">>}
      \/ \E i \in 1..n : path = At(i, "requested_quantity")
      \/ \E i \in 1..n : i \in Crossovers(config) /\ path \in {At(i, "short_window"), At(i, "long_window")}
      \/ \E i \in 1..n : i \notin Crossovers(config) /\ path = At(i, "lookback")
  <2>1. path \notin TopPaths
    <3>1. \A a : Last(<<a>>) = a
      BY PathLast, Zenon
    <3>2. \A x \in {"name", "mode", "period_start", "period_end", "strategies"} :
             ReadAs[x] \notin {"whole", "unsigned", "window"}
      BY OthersAreNoWholeNumbers
    <3>3. QED
      BY <3>1, <3>2 DEF TopPaths
  <2>2. path \in BoundPaths => path \in {<<"risk", "max_order_quantity">>, <<"risk", "max_open_orders">>}
    <3>0. ASSUME NEW a, NEW b PROVE Last(<<a, b>>) = b
      <4>1. Last(<<a>>) = a /\ Last(<<a, b>>) = b /\ Last(<<a, b, b>>) = b
        BY PathLast
      <4>2. QED
        BY <4>1
    <3>5. ASSUME NEW a, NEW b, NEW c PROVE Last(<<a, b, c>>) = c
      <4>1. Last(<<a>>) = a /\ Last(<<a, b>>) = b /\ Last(<<a, b, c>>) = c
        BY PathLast
      <4>2. QED
        BY <4>1
    <3>1. /\ \A a, b : Last(<<a, b>>) = b
          /\ \A a, b, c : Last(<<a, b, c>>) = c
      BY <3>0, <3>5
    <3>2. \A x \in {"max_position_notional", "max_gross_exposure", "max_daily_loss", "starting_cash",
                    "slippage_bps", "per_share", "per_trade", "bps", "policies",
                    "participation_cap", "signal_to_order", "order_to_fill"} :
             ReadAs[x] \notin {"whole", "unsigned", "window"}
      BY OthersAreNoWholeNumbers
    <3>3. QED
      BY <3>1, <3>2 DEF BoundPaths, LimitPaths
  <2>3. ASSUME NEW i \in 1..n, NEW x \in NamesOf(i \in Crossovers(config)), path = At(i, x)
        PROVE  \/ x = "requested_quantity"
               \/ i \in Crossovers(config) /\ x \in {"short_window", "long_window"}
               \/ i \notin Crossovers(config) /\ x = "lookback"
    <3>1. Last(path) = x
      BY <2>3, LastNames
    <3>2. \A y \in {"kind", "strategy_id", "symbols", "entry_threshold", "rearm_threshold"} :
             ReadAs[y] \notin {"whole", "unsigned", "window"}
      BY OthersAreNoWholeNumbers
    <3>3. x \notin {"kind", "strategy_id", "symbols", "entry_threshold", "rearm_threshold"}
      BY <3>1, <3>2
    <3>4. QED
      BY <3>3 DEF NamesOf, Always
  <2>4. \/ path \in TopPaths \/ path \in BoundPaths
        \/ \E i \in 1..n : \E x \in NamesOf(i \in Crossovers(config)) : path = At(i, x)
    BY DEF KeptPaths, n
  <2>5. QED
    BY <2>1, <2>2, <2>3, <2>4
<1>5. CASE path \in {<<"risk", "max_order_quantity">>, <<"risk", "max_open_orders">>}
  BY <1>2, <1>3, <1>5
<1>6. ASSUME NEW i \in 1..n, path = At(i, "requested_quantity") PROVE FALSE
  BY <1>2, <1>3, <1>6
<1>7. ASSUME NEW i \in 1..n, i \in Crossovers(config),
             path \in {At(i, "short_window"), At(i, "long_window")}
      PROVE  FALSE
  <2>1. s[At(i, "kind")] = SmaCrossover
    BY <1>1, <1>7
  <2>2. s[At(i, "short_window")] # 0 /\ s[At(i, "short_window")] < s[At(i, "long_window")]
    BY <1>2, <2>1 DEF WindowsFit
  <2>3. s[At(i, "short_window")] \in Nat
    <3> DEFINE short == At(i, "short_window")
    <3>1. short \in paths
      BY <1>7 DEF KeptPaths, NamesOf, n
    <3>2. /\ Last(short) = "short_window" /\ ReadAs["short_window"] = "window"
          /\ Defaults["short_window"] = 5
      <4>1. Defaults["short_window"] = 5
        BY DEF Defaults
      <4>2. Last(short) = "short_window"
        BY LastNames
      <4>3. QED
        BY <4>1, <4>2, OthersAreNoWholeNumbers
    <3> HIDE DEF short, paths
    <3>3. CASE short \in DOMAIN config
      <4>1. /\ Proper(config[short]) /\ Reads("window", config[short])
            /\ s[short] = Taken("window", config[short])
        BY <1>1, <3>1, <3>2, <3>3
      <4>2. QED
        BY <4>1, WindowsAreNumbers DEF short
    <3>4. CASE short \notin DOMAIN config
      BY <1>1, <3>1, <3>2, <3>4 DEF short
    <3>5. QED
      BY <3>3, <3>4
  <2>4. QED
    BY <1>3, <1>7, <2>2, <2>3
<1>8. ASSUME NEW i \in 1..n, i \notin Crossovers(config), path = At(i, "lookback")
      PROVE  FALSE
  <2>1. s[At(i, "kind")] = MeanReversion
    BY <1>1, <1>8
  <2>2. QED
    BY <1>2, <1>3, <1>8, <2>1
<1>9. QED
  BY <1>4, <1>5, <1>6, <1>7, <1>8

AsSent(path, sent, reported) ==
    \/ sent = reported
    \/ sent[1] = "Infinite"
    \/ IsLatency(path) /\ sent[1] = "Huge"
    \/ IsLatency(path) /\ CloseTo(sent, reported)

(* What a run reports of the settings its start asked for.                 *)
LEMMA SentIsReported ==
  ASSUME NEW config, Sound(config), Selected(SettingsFrom(config)) # {},
         NEW m \in ToSet(SettingsMembers(config)), m.path \in DOMAIN config
  PROVE  LET reported == WriteSettings(WithPeriod(SettingsFrom(config)))
         IN  /\ m.path \in DOMAIN reported
             /\ AsSent(m.path, config[m.path], reported[m.path])
<1> DEFINE s == SettingsFrom(config)
           t == WithPeriod(s)
           n == CountOf(config)
           paths == KeptPaths(n, Crossovers(config))
           reported == WriteSettings(t)
           value == config[m.path]
<1>1. /\ n \in Nat /\ s[<<"strategies">>] = n
      /\ PathsOf(s) = paths
      /\ \A path \in paths : path \in DOMAIN config =>
            /\ Proper(config[path]) /\ Reads(ReadAs[Last(path)], config[path])
            /\ s[path] = Taken(ReadAs[Last(path)], config[path])
  BY SettingsAreRead DEF Sound
<1>2. Reportable(s)
  BY ReadableIsReportable DEF Sound
<1>3. /\ Reportable(t) /\ PathsOf(t) = PathsOf(s)
      /\ \A path \in PathsOf(s) : ~Absent(s, path) => t[path] = s[path]
  BY <1>2, PeriodKeepsReportable
<1>4. ~Unread(m, config)
  BY ReadableMembers DEF Sound
<1>5. Reads(m.as, value)
  BY <1>4 DEF Unread
<1>6. IsSetting(m, config) \/ IsAround(m, config) \/ IsShort(m)
  BY <1>1, WhatMembersAre
<1> HIDE DEF s, t, n, reported
<1>7. /\ DOMAIN reported = {path \in PathsOf(t) : ~Absent(t, path)}
                           \cup ObjectPaths(t[<<"strategies">>]) \cup {AllowShort}
      /\ reported[AllowShort] = <<"Bool", FALSE>>
      /\ \A path \in ObjectPaths(t[<<"strategies">>]) : reported[path] = Object
      /\ \A path \in PathsOf(t) : ~Absent(t, path) => reported[path] = Literal(Last(path), t[path])
  BY <1>3, WrittenMembers DEF reported
<1>8. t[<<"strategies">>] = n
  <2>1. <<"strategies">> \in paths /\ <<"strategies">> \notin Periods
    <3>1. <<"strategies">> \in paths
      BY DEF KeptPaths, TopPaths
    <3>2. <<"strategies">> \notin Periods
      BY DEF Periods
    <3>3. QED
      BY <3>1, <3>2
  <2>2. ~Absent(s, <<"strategies">>)
    BY <2>1 DEF Absent
  <2>3. QED
    BY <1>1, <1>3, <2>1, <2>2
<1>9. CASE IsSetting(m, config)
  <2> DEFINE name == Last(m.path)
  <2>1. m.path \in paths /\ name \in DOMAIN WrittenAs
    BY <1>9 DEF IsSetting, n
  <2>2. Proper(value) /\ Reads(ReadAs[name], value) /\ s[m.path] = Taken(ReadAs[name], value)
    BY <1>1, <2>1
  <2>3. ~Absent(s, m.path)
    <3> SUFFICES ASSUME m.path \in Periods PROVE s[m.path] # None
      BY DEF Absent
    <3>1. ReadAs[name] = "time"
      <4>1. Last(<<"period_start">>) = "period_start" /\ Last(<<"period_end">>) = "period_end"
        BY PathLast
      <4>2. ReadAs["period_start"] = "time" /\ ReadAs["period_end"] = "time"
        BY DEF ReadAs
      <4>3. QED
        BY <4>1, <4>2 DEF Periods
    <3>2. value[1] = "Time"
      BY <2>2, <3>1 DEF Reads
    <3>3. s[m.path] = value[2]
      BY <2>2, <3>1 DEF Taken
    <3>4. QED
      BY <2>2, <3>2, <3>3 DEF Proper
  <2>4. t[m.path] = s[m.path] /\ m.path \in PathsOf(t)
    BY <1>1, <1>3, <2>1, <2>3
  <2>5. ~Absent(t, m.path)
    BY <2>3, <2>4 DEF Absent
  <2>6. m.path \in DOMAIN reported /\ reported[m.path] = Literal(name, Taken(ReadAs[name], value))
    BY <1>7, <2>2, <2>4, <2>5
  <2>9. CASE ReadAs[name] = "latency" /\ value[1] # "Infinite"
    <3>1. WrittenAs[name] = "latency" /\ name \in Latencies
      BY <2>1, <2>9, KindsOfMembers
    <3>2. IsLatency(m.path)
      BY <3>1 DEF IsLatency, Latencies
    <3>3. value[1] \in {"Whole", "Fraction", "Huge"}
      BY <2>2, <2>9 DEF Reads, Numbers
    <3>4. value[1] # "Huge" => CloseTo(value, reported[m.path])
      BY <2>2, <2>6, <2>9, <3>1, <3>3, WrittenClose
    <3>5. QED
      BY <2>6, <3>2, <3>3, <3>4 DEF AsSent, reported, t, s
  <2>7. CASE ReadAs[name] # "latency" /\ value[1] # "Infinite"
    <3>1. value[1] = "Huge" => ReadAs[name] = "number"
      <4>1. \A as : Reads(as, value) /\ value[1] = "Huge" /\ as \notin {"whole", "unsigned", "window"}
                       /\ as \in {"text", "mode", "kind", "time", "array", "texts", "number",
                                  "amount", "boolean"}
                    => as = "number"
        <5>1. ASSUME value[1] = "Huge"
              PROVE  /\ ~Reads("text", value) /\ ~Reads("mode", value) /\ ~Reads("kind", value)
                     /\ ~Reads("time", value) /\ ~Reads("array", value) /\ ~Reads("texts", value)
                     /\ ~Reads("amount", value) /\ ~Reads("boolean", value)
          <6>1. ~Reads("text", value) /\ ~Reads("time", value) /\ ~Reads("array", value)
            BY <5>1 DEF Reads, Strings
          <6>2. ~Reads("texts", value) /\ ~Reads("amount", value) /\ ~Reads("boolean", value)
            BY <5>1 DEF Reads
          <6>3. \A text : Text(text)[1] = "Text"
            BY DEF Text
          <6>4. value \notin Texts({"backtest", "live"})
            BY <5>1, <6>3 DEF Texts
          <6>5. value \notin {SmaCrossover, MeanReversion}
            BY <5>1, <6>3 DEF SmaCrossover, MeanReversion
          <6>6. QED
            BY <6>1, <6>2, <6>4, <6>5 DEF Reads
        <5>2. QED
          BY <5>1
      <4>2. ReadAs[name] \in {"text", "mode", "kind", "time", "array", "texts", "number", "amount",
                              "boolean", "whole", "unsigned", "window", "latency"}
        BY <2>1, KindsOfMembers
      <4>3. value[1] = "Huge" => ReadAs[name] \notin {"whole", "unsigned", "window"}
        BY <2>1, WholeNumbersAreNotLost DEF n
      <4>4. QED
        BY <2>2, <2>7, <4>1, <4>2, <4>3
    <3>2. Literal(name, Taken(ReadAs[name], value)) = value
      BY <2>1, <2>2, <2>7, <3>1, WrittenAsSent
    <3>3. QED
      BY <2>6, <3>2 DEF AsSent, reported, t, s
  <2>8. QED
    BY <2>6, <2>7, <2>9 DEF AsSent, reported, t, s
<1>10. CASE IsAround(m, config)
  <2>1. m.path \in ObjectPaths(n) /\ m.as = "object"
    BY <1>10 DEF IsAround, n
  <2>2. value = Object
    BY <1>5, <2>1 DEF Reads
  <2>3. m.path \in DOMAIN reported /\ reported[m.path] = Object
    BY <1>7, <1>8, <2>1
  <2>4. QED
    BY <2>2, <2>3 DEF AsSent, reported, t, s
<1>11. CASE IsShort(m)
  <2>1. m.path = AllowShort /\ m.as = "long only"
    BY <1>11 DEF IsShort
  <2>2. value = <<"Bool", FALSE>>
    BY <1>5, <2>1 DEF Reads
  <2>3. m.path \in DOMAIN reported /\ reported[m.path] = <<"Bool", FALSE>>
    BY <1>7, <2>1
  <2>4. QED
    BY <2>2, <2>3 DEF AsSent, reported, t, s
<1>12. QED
  BY <1>6, <1>9, <1>10, <1>11

-----------------------------------------------------------------------------
(* What the engine keeps of what it is asked.                              *)

(* A start's settings can be reported; one that is not at fault keeps      *)
(* them.                                                                   *)
LEMMA StartIsKept ==
  ASSUME NEW s \in Scenarios, NEW m \in UNION ToSet(s), IsCommand(m),
         StartIn(m).action = "start_backtest"
  PROVE  LET c == Considered(StartIn(m))
             config == ConfigIn(m)
         IN  /\ HasId(m) /\ IdIn(m) = Text(c.id)
             /\ Reportable(c.settings)
             /\ c.field = None /\ c.bars =>
                   /\ Sound(config) /\ Selected(SettingsFrom(config)) # {}
                   /\ c.settings = WithPeriod(SettingsFrom(config))
<1> DEFINE config == ConfigIn(m)
           sent == StartIn(m)
           c == Considered(sent)
           settingsRead == SettingsFrom(config)
           field == InvalidField(sent)
           bars == field = None /\ Selected(sent.settings) # {}
<1>1. HasId(m)
  BY CommandHasId, MessageAssumption
<1>2. /\ IdIn(m) \in Texts(CommandIds) /\ Ordinary(config)
      /\ \A path \in DOMAIN config : Proper(config[path])
      /\ SettingsProblem(config) = None =>
            \A check \in ToSet(Checks(settingsRead)) : check.field # None
  BY <1>1, MessageAssumption
<1>3. /\ sent.field = SettingsProblem(config) /\ sent.id = IdIn(m)[2]
      /\ SettingsProblem(config) = None => sent.settings = settingsRead
  BY DEF StartIn, CommandFrom, ConfigIn, IdIn
<1>4. IdIn(m) = Text(sent.id)
  BY <1>2, <1>3 DEF Texts, Text
<1>5. c = [id |-> sent.id, run |-> sent.run, action |-> sent.action, field |-> field, bars |-> bars,
           settings |-> CASE sent.field # None -> NoSettings
                          [] bars -> WithPeriod(sent.settings)
                          [] OTHER -> sent.settings]
  BY DEF Considered
<1>6. /\ c.id = sent.id /\ c.field = field /\ c.bars = bars
      /\ c.settings = CASE sent.field # None -> NoSettings
                        [] bars -> WithPeriod(sent.settings)
                        [] OTHER -> sent.settings
  BY <1>5
<1>7. sent.field # None => field # None
  BY DEF InvalidField
<1> HIDE DEF sent, c, config, settingsRead, field
<1>8. CASE sent.field # None
  <2>1. c.settings = NoSettings
    BY <1>6, <1>7, <1>8
  <2>2. Reportable(c.settings)
    BY <2>1, NoSettingsReportable
  <2>3. c.field # None
    BY <1>6, <1>7, <1>8
  <2>4. QED
    BY <1>1, <1>4, <1>6, <2>2, <2>3 DEF sent, c
<1>9. CASE sent.field = None
  <2>1. Readable(config) /\ sent.settings = settingsRead
    BY <1>2, <1>3, <1>9 DEF Readable
  <2>2. Reportable(settingsRead)
    BY <1>2, <2>1, ReadableIsReportable DEF settingsRead
  <2>3. CASE bars
    <3>1. c.settings = WithPeriod(settingsRead)
      BY <1>6, <1>9, <2>1, <2>3
    <3>2. Selected(settingsRead) # {} /\ field = None
      BY <2>1, <2>3
    <3>3. Reportable(c.settings)
      BY <2>2, <3>1, <3>2, PeriodKeepsReportable
    <3>4. Problem(settingsRead) = None
      BY <1>9, <2>1, <3>2 DEF field, InvalidField
    <3>5. Sound(config)
      BY <1>2, <1>3, <1>9, <2>1, <3>4 DEF Sound, settingsRead
    <3>6. QED
      BY <1>1, <1>4, <1>6, <3>1, <3>2, <3>3, <3>5 DEF sent, c, config, settingsRead
  <2>4. CASE ~bars
    <3>1. c.settings = settingsRead
      BY <1>6, <1>9, <2>1, <2>4
    <3>2. ~c.bars
      BY <1>6, <2>4
    <3>3. QED
      BY <1>1, <1>4, <1>6, <2>2, <3>1, <3>2 DEF sent, c
  <2>5. QED
    BY <2>3, <2>4
<1>10. QED
  BY <1>8, <1>9

(* Any command carries an id of a command and an action.                   *)
LEMMA PendingIs ==
  ASSUME RefusalInv, pending # None
  PROVE  /\ pending.id \in CommandIds /\ pending.action \in CommandActions
         /\ pending.action = "set_kill_switch" => pending.engaged \in BOOLEAN
<1>1. PICK m \in UNION ToSet(scenario) : IsCommand(m) /\ pending = Considered(StartIn(m))
  BY DEF RefusalInv
<1>2. /\ HasId(m) /\ IdIn(m) \in Texts(CommandIds)
      /\ m.payload[<<"action">>] \in Texts(CommandActions)
  BY <1>1, CommandHasId, MessageAssumption DEF RefusalInv
<1>3. StartIn(m).id \in CommandIds /\ StartIn(m).action \in CommandActions
  <2>1. /\ StartIn(m).id = IdIn(m)[2] /\ StartIn(m).action = m.payload[<<"action">>][2]
    BY DEF StartIn, CommandFrom, IdIn
  <2>2. QED
    BY <1>2, <2>1 DEF Texts, Text
<1>4. StartIn(m).engaged \in BOOLEAN
  BY DEF StartIn, CommandFrom
<1>5. CASE StartIn(m).action = "start_backtest"
  <2>1. pending.id = StartIn(m).id /\ pending.action = StartIn(m).action
    BY <1>1, <1>5 DEF Considered
  <2>2. QED
    BY <1>3, <1>5, <2>1
<1>6. CASE StartIn(m).action # "start_backtest"
  <2>1. pending = StartIn(m)
    BY <1>1, <1>6 DEF Considered
  <2>2. QED
    BY <1>3, <1>4, <2>1
<1>7. QED
  BY <1>5, <1>6

(* An accepted run was started with a config that can be run, and keeps    *)
(* the settings it reads as.                                               *)
Granted(r) ==
    \E m \in UNION ToSet(scenario) :
        /\ HasId(m) /\ IdIn(m) = Text(startCommand[r])
        /\ Sound(ConfigIn(m)) /\ Selected(SettingsFrom(ConfigIn(m))) # {}
        /\ settings[r] = WithPeriod(SettingsFrom(ConfigIn(m)))

(* Any run's settings can be reported.                                     *)
KeptSettings ==
    /\ settings = [r \in Runs |-> settings[r]]
    /\ \A r \in Runs : runState[r] # "none" => Reportable(settings[r])
    /\ \A i \in DOMAIN accepted : Granted(accepted[i])

(* What TypeOK says beyond the other invariants; a run that replays has a  *)
(* bar time left.                                                          *)
TypeRest ==
    /\ startCommand \in [Runs -> CommandIds \cup {None}]
    /\ stopFlag \in [Runs -> BOOLEAN]
    /\ stopCommand \in [Runs -> CommandIds \cup {None}]
    /\ kill \in [Runs -> BOOLEAN]
    /\ riskKill \in BOOLEAN
    /\ stopping \in BOOLEAN /\ shutDown \in BOOLEAN
    /\ reader \in {"polling", "handling", "exited"}
    /\ worker \in {"idle", "setup", "replay", "instant", "take_back", "close",
                   "release", "exited"}
    /\ instant \in 0..Instants
    /\ worker = "replay" => instant < Instants
    /\ outcome \in Finished \cup {None}
    /\ delivered \in 0..Len(scenario)
    /\ answered \subseteq CommandIds
    /\ asked \in [Runs -> CommandIds \cup {None}]

(* The invariant that AskedIsReported follows from.                        *)
AskedInv == OrderInv /\ RefusalInv /\ KeptSettings /\ TypeRest

LEMMA AskedAtFirst ==
  ASSUME Init
  PROVE  AskedInv
<1>1. OrderInv
  BY InitHolds, OrderAtFirst DEF OrderInv
<1>2. RefusalInv
  BY RefusalAtFirst
<1>3. KeptSettings
  BY DEF Init, KeptSettings
<1>4. TypeRest
  <2>1. Len(scenario) \in Nat
    BY MessageAssumption DEF Init
  <2>2. /\ startCommand \in [Runs -> CommandIds \cup {None}]
        /\ stopFlag \in [Runs -> BOOLEAN] /\ kill \in [Runs -> BOOLEAN]
        /\ stopCommand \in [Runs -> CommandIds \cup {None}]
        /\ asked \in [Runs -> CommandIds \cup {None}]
    BY DEF Init
  <2>3. delivered \in 0..Len(scenario) /\ instant \in 0..Instants
    BY <2>1, ServiceAssumption DEF Init
  <2>4. /\ riskKill = FALSE /\ stopping = FALSE /\ shutDown = FALSE
        /\ reader = "polling" /\ worker = "idle" /\ outcome = None /\ answered = {}
    BY DEF Init
  <2>5. QED
    BY <2>2, <2>3, <2>4 DEF TypeRest
<1>5. QED
  BY <1>1, <1>2, <1>3, <1>4 DEF AskedInv

(* A run keeps the settings it was started with.                           *)
LEMMA SettingsStay ==
  ASSUME OrderInv, KeptSettings, UNCHANGED <<scenario, settings, startCommand, accepted>>,
         \A r \in Runs : runState[r] = "none" => runState'[r] = "none"
  PROVE  KeptSettings'
<1>1. \A r : Granted(r)' <=> Granted(r)
  BY DEF Granted
<1>2. QED
  BY <1>1 DEF KeptSettings

(* A start gives a new run its settings, and no other.                     *)
LEMMA StartKeepsSettings ==
  ASSUME OrderInv, RefusalInv, KeptSettings, pending # None,
         NEW c, c = pending, RefuseStart(c) \/ QueueRun(c), UNCHANGED scenario
  PROVE  KeptSettings'
<1>1. /\ c.action = "start_backtest" /\ c.run \in Runs /\ runState[c.run] = "none"
      /\ startCommand' = [startCommand EXCEPT ![c.run] = c.id]
      /\ settings' = [settings EXCEPT ![c.run] = c.settings]
  BY DEF RefuseStart, QueueRun, NewRun, StateOf
<1>2. PICK m \in UNION ToSet(scenario) : IsCommand(m) /\ c = Considered(StartIn(m))
  BY DEF RefusalInv
<1>3. StartIn(m).action = "start_backtest"
  BY <1>1, <1>2 DEF Considered
<1>4. scenario \in Scenarios
  BY DEF RefusalInv
<1> DEFINE config == ConfigIn(m)
<1>5. /\ HasId(m) /\ IdIn(m) = Text(c.id)
      /\ Reportable(c.settings)
      /\ c.field = None /\ c.bars =>
            /\ Sound(config) /\ Selected(SettingsFrom(config)) # {}
            /\ c.settings = WithPeriod(SettingsFrom(config))
  BY <1>2, <1>3, <1>4, StartIsKept
<1>6. /\ settings' = [r \in Runs |-> settings'[r]]
      /\ settings'[c.run] = c.settings /\ startCommand'[c.run] = c.id
      /\ \A r \in Runs : r # c.run => settings'[r] = settings[r] /\ startCommand'[r] = startCommand[r]
  BY <1>1 DEF KeptSettings, RefusalInv
<1>7. \A r \in Runs : r # c.run => runState'[r] = runState[r]
  BY DEF RefuseStart, QueueRun, OrderInv, ServiceInv, Executing
<1>8. \A r \in Runs : runState'[r] # "none" => Reportable(settings'[r])
  BY <1>5, <1>6, <1>7 DEF KeptSettings
<1>9. \A i \in DOMAIN accepted : accepted[i] \in Runs /\ accepted[i] # c.run
  BY <1>1 DEF OrderInv, AcceptedOnce
<1>10. ASSUME NEW r \in Runs, r # c.run, Granted(r)
       PROVE  Granted(r)'
  <2>1. UNCHANGED scenario /\ settings'[r] = settings[r] /\ startCommand'[r] = startCommand[r]
    BY <1>6, <1>10
  <2>2. QED
    BY <1>10, <2>1 DEF Granted
<1>11. \A i \in DOMAIN accepted : Granted(accepted[i])
  BY DEF KeptSettings
<1>12. CASE RefuseStart(c)
  <2>1. accepted' = accepted
    BY <1>12 DEF RefuseStart
  <2>2. \A i \in DOMAIN accepted' : Granted(accepted[i])'
    BY <1>9, <1>10, <1>11, <2>1
  <2>3. QED
    BY <1>6, <1>8, <2>2 DEF KeptSettings
<1>13. CASE QueueRun(c)
  <2>1. c.field = None /\ c.bars
    <3>1. Refusal(c) = None
      BY <1>13 DEF QueueRun
    <3>2. QED
      BY <3>1, ServiceAssumption DEF Refusal
  <2>2. ASSUME NEW r, r = c.run
        PROVE  Granted(r)'
    <3>1. settings'[r] = WithPeriod(SettingsFrom(config))
      BY <1>5, <1>6, <2>1, <2>2
    <3>2. HasId(m) /\ IdIn(m) = Text(startCommand'[r])
      BY <1>5, <1>6, <2>2
    <3>3. Sound(config) /\ Selected(SettingsFrom(config)) # {}
      BY <1>5, <2>1
    <3>4. m \in UNION ToSet(scenario')
      OBVIOUS
    <3>5. QED
      BY <3>1, <3>2, <3>3, <3>4, Zenon DEF Granted
  <2>3. accepted' = Append(accepted, c.run)
    BY <1>13 DEF QueueRun
  <2>4. ASSUME NEW i \in DOMAIN accepted'
        PROVE  (i \in DOMAIN accepted /\ accepted'[i] = accepted[i]) \/ accepted'[i] = c.run
    BY <1>1, <2>3, AppendProperties DEF OrderInv, AcceptedOnce
  <2>5. \A i \in DOMAIN accepted' : Granted(accepted[i])'
    BY <1>9, <1>10, <1>11, <2>2, <2>4
  <2>6. QED
    BY <1>6, <1>8, <2>5 DEF KeptSettings
<1>14. QED
  BY <1>12, <1>13

(* No other step touches settings or makes a run.                          *)
LEMMA NextKeepsSettings ==
  ASSUME OrderInv, RefusalInv, KeptSettings, [Next]_vars
  PROVE  KeptSettings'
<1>1. CASE pending # None /\ Handle(pending) /\ (RefuseStart(pending) \/ QueueRun(pending))
  BY <1>1, StartKeepsSettings DEF Handle
<1>2. ASSUME UNCHANGED <<scenario, settings, startCommand, accepted, runState>>
      PROVE  KeptSettings'
  BY <1>2, SettingsStay
<1>3. ASSUME pending # None, Handle(pending), ~(RefuseStart(pending) \/ QueueRun(pending))
      PROVE  KeptSettings'
  <2> DEFINE c == pending
  <2>1. UNCHANGED scenario
    BY <1>3 DEF Handle
  <2>2. CASE StopQueued(c)
    <3>1. /\ UNCHANGED <<settings, startCommand, accepted>>
          /\ runState' = [runState EXCEPT ![c.run] = "stopped"]
          /\ c.run \in Runs /\ runState[c.run] = "queued"
      BY <2>2 DEF StopQueued, StateOf
    <3>2. \A r \in Runs : runState[r] = "none" => runState'[r] = "none"
      BY <3>1 DEF OrderInv, ServiceInv, Executing
    <3>3. QED
      BY <2>1, <3>1, <3>2, SettingsStay
  <2>3. CASE ~StopQueued(c)
    <3>1. UNCHANGED <<settings, startCommand, accepted, runState>>
      BY <1>3, <2>3 DEF Handle, IgnoreStart, IgnoreUnknown, RefuseFinished, StopRunning,
         SetKillSwitch, runVars, histories
    <3>2. QED
      BY <1>2, <2>1, <3>1
  <2>4. QED
    BY <2>2, <2>3
<1>4. ASSUME NEW message, Receive(message)
      PROVE  KeptSettings'
  BY <1>2, <1>4 DEF Receive, runVars, histories
<1>5. CASE ReaderExits \/ Shutdown
  BY <1>2, <1>5 DEF ReaderExits, Shutdown, runVars, histories
<1>6. CASE DropQueue
  <2>1. /\ UNCHANGED <<scenario, settings, startCommand, accepted>>
        /\ runState' = [r \in Runs |->
              IF \E i \in 1..Len(queue) : queue[i] = r THEN "stopped" ELSE runState[r]]
    BY <1>6 DEF DropQueue, histories
  <2>2. \A i \in 1 .. Len(queue) : runState[queue[i]] = "queued"
    BY DEF OrderInv, ServiceInv, Waiting
  <2>3. \A r \in Runs : runState[r] = "none" => runState'[r] = "none"
    BY <2>1, <2>2
  <2>4. QED
    BY <2>1, <2>3, SettingsStay
<1>7. CASE Worker
  <2>1. UNCHANGED <<scenario, settings>>
    BY <1>7 DEF Worker, TakeRun, WorkerExits, SetupFails, BeginRun, ReplayInstant, ReplayContinues,
       ReplayEnds, ReplayFails, TakeBack, CloseRun, ReleaseRun, WorkerUnchanged
  <2>2. UNCHANGED <<startCommand, accepted>>
    BY <1>7 DEF Worker, TakeRun, WorkerExits, SetupFails, BeginRun, ReplayInstant, ReplayContinues,
       ReplayEnds, ReplayFails, TakeBack, CloseRun, ReleaseRun, runVars, histories
  <2>3. \/ UNCHANGED runState
        \/ /\ worker \in {"setup", "close"}
           /\ \E state : runState' = [runState EXCEPT ![current] = state]
    BY <1>7 DEF Worker, TakeRun, WorkerExits, SetupFails, BeginRun, ReplayInstant, ReplayContinues,
       ReplayEnds, ReplayFails, TakeBack, CloseRun, ReleaseRun, runVars
  <2>4. worker \in {"setup", "close"} => runState[current] # "none"
    BY DEF OrderInv, ServiceInv, Executing
  <2>5. \A r \in Runs : runState[r] = "none" => runState'[r] = "none"
    BY <2>3, <2>4 DEF OrderInv, ServiceInv, Executing
  <2>6. QED
    BY <2>1, <2>2, <2>5, SettingsStay
<1>8. CASE UNCHANGED vars
  BY <1>2, <1>8 DEF vars, runVars, histories
<1>9. QED
  BY <1>1, <1>3, <1>4, <1>5, <1>6, <1>7, <1>8 DEF Next, Reader

(* What is answered and kept of a command is what it brought.              *)
LEMMA ReaderKeepsTypes ==
  ASSUME RefusalInv, TypeRest, pending # None, Handle(pending)
  PROVE  TypeRest'
<1>1. /\ pending.id \in CommandIds
      /\ pending.action = "set_kill_switch" => pending.engaged \in BOOLEAN
  BY PendingIs
<1>2. ASSUME NEW c, c.id \in CommandIds, c.action = "set_kill_switch" => c.engaged \in BOOLEAN, Handle(c)
      PROVE  TypeRest'
  <2>1. /\ UNCHANGED <<stopping, shutDown, worker, instant, outcome, delivered, scenario>>
        /\ reader' = "polling"
    BY <1>2 DEF Handle, workerVars
  <2>2. startCommand' \in [Runs -> CommandIds \cup {None}]
    BY <1>2 DEF TypeRest, Handle, IgnoreStart, RefuseStart, QueueRun, NewRun, IgnoreUnknown,
       RefuseFinished, StopQueued, StopRunning, SetKillSwitch, runVars
  <2>3. /\ stopFlag' \in [Runs -> BOOLEAN]
        /\ stopCommand' \in [Runs -> CommandIds \cup {None}]
        /\ asked' \in [Runs -> CommandIds \cup {None}]
    BY <1>2 DEF TypeRest, Handle, IgnoreStart, RefuseStart, QueueRun, NewRun, IgnoreUnknown,
       RefuseFinished, StopQueued, StopRunning, SetKillSwitch, runVars, histories
  <2>4. answered' \subseteq CommandIds
    BY <1>2 DEF TypeRest, Handle, IgnoreStart, RefuseStart, QueueRun, NewRun, IgnoreUnknown,
       RefuseFinished, StopQueued, StopRunning, SetKillSwitch, histories, Answer
  <2>5. kill' \in [Runs -> BOOLEAN] /\ riskKill' \in BOOLEAN
    <3>1. CASE SetKillSwitch(c)
      <4>1. /\ kill' = [kill EXCEPT ![c.run] = c.engaged] /\ c.engaged \in BOOLEAN
            /\ riskKill' = IF lent = c.run THEN c.engaged ELSE riskKill
        BY <1>2, <3>1 DEF SetKillSwitch
      <4>2. kill \in [Runs -> BOOLEAN] /\ riskKill \in BOOLEAN
        BY DEF TypeRest
      <4>3. QED
        BY <4>1, <4>2
    <3>2. CASE ~SetKillSwitch(c)
      <4>1. UNCHANGED <<kill, riskKill>>
        BY <1>2, <3>2 DEF Handle, IgnoreStart, RefuseStart, QueueRun, NewRun, IgnoreUnknown,
           RefuseFinished, StopQueued, StopRunning, runVars, riskVars
      <4>2. QED
        BY <4>1 DEF TypeRest
    <3>3. QED
      BY <3>1, <3>2
  <2>6. QED
    BY <2>1, <2>2, <2>3, <2>4, <2>5 DEF TypeRest
<1>3. QED
  BY <1>1, <1>2

(* The worker counts its instants.                                         *)
LEMMA WorkerKeepsTypes ==
  ASSUME OrderInv, TypeRest, Worker
  PROVE  TypeRest'
<1>1. /\ UNCHANGED <<stopping, shutDown, reader, delivered, scenario>>
  BY DEF Worker, TakeRun, WorkerExits, SetupFails, BeginRun, ReplayInstant, ReplayContinues,
     ReplayEnds, ReplayFails, TakeBack, CloseRun, ReleaseRun, WorkerUnchanged, readerVars
<1>2. UNCHANGED <<startCommand, stopFlag, stopCommand, kill, asked>>
  BY DEF Worker, TakeRun, WorkerExits, SetupFails, BeginRun, ReplayInstant, ReplayContinues,
     ReplayEnds, ReplayFails, TakeBack, CloseRun, ReleaseRun, runVars, histories
<1>3. worker \in {"setup", "close"} => current \in Runs
  BY DEF OrderInv, ServiceInv, Executing
<1>4. riskKill' \in BOOLEAN
  <2>1. riskKill' = riskKill \/ riskKill' = FALSE \/ (worker = "setup" /\ riskKill' = kill[current])
    BY DEF Worker, TakeRun, WorkerExits, SetupFails, BeginRun, ReplayInstant, ReplayContinues,
       ReplayEnds, ReplayFails, TakeBack, CloseRun, ReleaseRun, riskVars
  <2>2. QED
    BY <1>3, <2>1 DEF TypeRest
<1>5. answered' \subseteq CommandIds
  <2>1. \/ answered' = answered
        \/ worker = "close" /\ answered' = answered \cup ({stopCommand[current]} \ {None})
    BY DEF Worker, TakeRun, WorkerExits, SetupFails, BeginRun, ReplayInstant, ReplayContinues,
       ReplayEnds, ReplayFails, TakeBack, CloseRun, ReleaseRun, histories
  <2>2. QED
    BY <1>3, <2>1 DEF TypeRest
<1>6. /\ worker' \in {"idle", "setup", "replay", "instant", "take_back", "close",
                      "release", "exited"}
      /\ outcome' \in Finished \cup {None}
  BY DEF TypeRest, Worker, TakeRun, WorkerExits, SetupFails, BeginRun, ReplayInstant,
     ReplayContinues, ReplayEnds, ReplayFails, TakeBack, CloseRun, ReleaseRun, Finished
<1>7. instant' \in 0..Instants /\ (worker' = "replay" => instant' < Instants)
  BY ServiceAssumption DEF TypeRest, Worker, TakeRun, WorkerExits, SetupFails, BeginRun,
     ReplayInstant, ReplayContinues, ReplayEnds, ReplayFails, TakeBack, CloseRun, ReleaseRun
<1>8. QED
  BY <1>1, <1>2, <1>4, <1>5, <1>6, <1>7 DEF TypeRest

LEMMA NextKeepsTypes ==
  ASSUME OrderInv, RefusalInv, TypeRest, [Next]_vars
  PROVE  TypeRest'
<1>1. ASSUME delivered < Len(scenario), NEW message, Receive(message)
      PROVE  TypeRest'
  <2>1. Len(scenario) \in Nat
    BY MessageAssumption DEF RefusalInv
  <2>2. delivered' \in 0..Len(scenario') /\ UNCHANGED scenario
    BY <1>1, <2>1 DEF Receive, TypeRest
  <2>3. reader' \in {"polling", "handling", "exited"}
    BY <1>1 DEF Receive, TypeRest, readerVars
  <2>4. UNCHANGED <<runVars, riskVars, stopping, shutDown, workerVars, histories>>
    BY <1>1 DEF Receive
  <2>5. QED
    BY <2>2, <2>3, <2>4 DEF TypeRest, runVars, riskVars, workerVars, histories
<1>2. CASE ReaderExits
  BY <1>2 DEF ReaderExits, TypeRest, runVars, riskVars, workerVars, histories
<1>3. CASE Shutdown
  <2>1. stopFlag' \in [Runs -> BOOLEAN]
    BY <1>3 DEF Shutdown, TypeRest
  <2>2. QED
    BY <1>3, <2>1 DEF Shutdown, TypeRest, riskVars, readerVars, workerVars, histories
<1>4. CASE DropQueue
  BY <1>4 DEF DropQueue, TypeRest, riskVars, readerVars, workerVars, histories
<1>5. CASE UNCHANGED vars
  BY <1>5 DEF vars, TypeRest, runVars, riskVars, readerVars, workerVars, histories
<1>6. QED
  BY <1>1, <1>2, <1>3, <1>4, <1>5, ReaderKeepsTypes, WorkerKeepsTypes DEF Next, Reader

(* The three parts of AskedIsReported follow.                              *)
LEMMA TypesHold ==
  ASSUME AskedInv
  PROVE  TypeOK
<1>1. /\ runState \in [Runs -> {"none", "queued", "running"} \cup Finished]
      /\ queue \in Seq(Runs) /\ current \in Runs \cup {None} /\ lent \in Runs \cup {None}
  BY DEF AskedInv, OrderInv, ServiceInv, Waiting, Executing, Switched, States
<1>2. accepted \in Seq(Runs) /\ begun \in Seq(Runs)
  BY DEF AskedInv, OrderInv, AcceptedOnce
<1>3. pending # None => pending.action \in CommandActions
  BY PendingIs DEF AskedInv
<1>4. QED
  BY <1>1, <1>2, <1>3 DEF AskedInv, TypeRest, TypeOK

(* Whichever message the id is found in, it brings the same config.        *)
LEMMA AcceptedAreAsAsked ==
  ASSUME AskedInv
  PROVE  AcceptedAsAsked
<1> SUFFICES ASSUME NEW r \in ToSet(accepted),
                    NEW member \in ToSet(SettingsMembers(ConfigSent(startCommand[r]))),
                    member.path \in DOMAIN ConfigSent(startCommand[r])
             PROVE  LET sent == ConfigSent(startCommand[r])
                        reported == WriteSettings(settings[r])
                    IN  /\ member.path \in DOMAIN reported
                        /\ AsSent(member.path, sent[member.path], reported[member.path])
  BY DEF AcceptedAsAsked, AsSent
<1>1. Granted(r)
  BY DEF AskedInv, KeptSettings, ToSet
<1>2. PICK m \in UNION ToSet(scenario) :
        /\ HasId(m) /\ IdIn(m) = Text(startCommand[r])
        /\ Sound(ConfigIn(m)) /\ Selected(SettingsFrom(ConfigIn(m))) # {}
        /\ settings[r] = WithPeriod(SettingsFrom(ConfigIn(m)))
  BY <1>1 DEF Granted
<1> DEFINE Sent(n) == HasId(n) /\ IdIn(n) = Text(startCommand[r])
           first == CHOOSE n \in UNION ToSet(scenario) : Sent(n)
<1>3. first \in UNION ToSet(scenario) /\ Sent(first)
  BY <1>2
<1>4. ConfigSent(startCommand[r]) = ConfigIn(first)
  BY DEF ConfigSent
<1> HIDE DEF first
<1>5. ConfigIn(first) = ConfigIn(m)
  BY <1>2, <1>3, MessageAssumption DEF AskedInv, RefusalInv
<1>6. ConfigSent(startCommand[r]) = ConfigIn(m)
  BY <1>4, <1>5
<1>7. /\ member \in ToSet(SettingsMembers(ConfigIn(m))) /\ member.path \in DOMAIN ConfigIn(m)
      /\ Sound(ConfigIn(m)) /\ Selected(SettingsFrom(ConfigIn(m))) # {}
  BY <1>2, <1>6
<1>8. LET reported == WriteSettings(WithPeriod(SettingsFrom(ConfigIn(m))))
      IN  /\ member.path \in DOMAIN reported
          /\ AsSent(member.path, ConfigIn(m)[member.path], reported[member.path])
  BY <1>7, SentIsReported
<1>9. QED
  BY <1>2, <1>6, <1>8

(* Every run in runs_ has a state the report can tell.                     *)
LEMMA WhatIsSentIsReadBack ==
  ASSUME AskedInv
  PROVE  SentIsReadBack
<1>1. ASSUME NEW r \in Runs, runState[r] # "none"
      PROVE  ReportReadBack(r)
  <2>1. runState[r] \in RunStates
    BY <1>1 DEF AskedInv, OrderInv, ServiceInv, Executing, States, Finished, RunStates
  <2>2. Reportable(settings[r])
    BY <1>1 DEF AskedInv, KeptSettings
  <2>3. QED
    BY <2>1, <2>2, ReportIsReadBack
<1>2. QED
  BY <1>1, AnnouncementIsReadBack DEF SentIsReadBack

(* Whatever commands arrive, and however often, and whatever the build     *)
(* makes of a latency that no duration holds: an accepted run is kept and  *)
(* reported with the settings that were asked for, latencies to the        *)
(* nanosecond, and every report and announcement the engine sends is read  *)
(* back as what it says, as exactly.                                       *)
THEOREM AskedIsWhatIsReported == Spec => []AskedIsReported
<1>1. Init => AskedInv
  BY AskedAtFirst
<1>2. AskedInv /\ [Next]_vars => AskedInv'
  BY NextInOrder, NextKeepsRefusals, NextKeepsSettings, NextKeepsTypes DEF AskedInv
<1>3. AskedInv => AskedIsReported
  BY TypesHold, AcceptedAreAsAsked, WhatIsSentIsReadBack DEF AskedIsReported
<1>4. QED
  BY <1>1, <1>2, <1>3, PTL DEF Spec
=============================================================================
