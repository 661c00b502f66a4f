----------------------- MODULE WriterConnectionProofs -----------------------
(***************************************************************************)
(* Theorems about WriterConnection, however many runs of reconnect() there *)
(* are and however many clients they bring up.                             *)
(***************************************************************************)
EXTENDS WriterConnection, SetLemmas, FiniteSetTheorems, TLAPS

-----------------------------------------------------------------------------
(* Which run StartRuns() starts first: the least of the free ones.             *)

LEMMA RunStarts ==
  ASSUME NEW n \in Nat \ {0}, Cardinality(FreeRuns) >= n
  PROVE  \E l \in FreeRuns : Cardinality({k \in FreeRuns : k <= l}) <= n
<1>1. FreeRuns \in SUBSET Nat
  BY DEF FreeRuns, Runs
<1>2. FreeRuns # {}
  <2>1. Cardinality({}) = 0
    BY FS_EmptySet
  <2> QED BY <2>1
<1>3. PICK l \in FreeRuns : \A k \in FreeRuns : l <= k
  BY <1>1, <1>2, LeastExists
<1>4. {k \in FreeRuns : k <= l} = {l}
  <2>1. \A k \in FreeRuns : k \in Nat
    BY <1>1
  <2>2. \A k \in FreeRuns : k <= l <=> k = l
    BY <1>3, <2>1
  <2>3. ASSUME NEW k \in FreeRuns
        PROVE  k \in {k2 \in FreeRuns : k2 <= l} <=> k \in {l}
    BY <2>2
  <2>4. {k \in FreeRuns : k <= l} \subseteq FreeRuns /\ {l} \subseteq FreeRuns
    OBVIOUS
  <2> QED BY <2>3, <2>4
<1>5. Cardinality({l}) = 1
  BY FS_Singleton
<1> QED BY <1>3, <1>4, <1>5

-----------------------------------------------------------------------------
(* Types, and who has which client.  The writer's client and the client of a   *)
(* COPY have been configured once, though they may be lost or ended by now; a  *)
(* run that brings up a client has it for itself.                              *)

ClientStates == {"free", "connecting", "setting", "up", "lost", "ended"}
RunStates == {"free", "ending", "connecting", "setting", "waiting"}
Configured == {"up", "lost", "ended"}

Working(l) == run[l] \in {"connecting", "setting"}

ClientInv ==
  /\ cstate[client] \in Configured
  /\ copy = "copy" => copyOn \in Clients /\ cstate[copyOn] \in Configured
  /\ \A l \in Runs : Working(l) => runClient[l] \in Clients /\ cstate[runClient[l]] = run[l]
  /\ \A l, m \in Runs : Working(l) /\ Working(m) /\ runClient[l] = runClient[m] => l = m

Owned == \E l \in Runs : run[l] # "free"

\* An unhealthy writer has a run, and so has one that says it is reconnecting: that is why
\* the listener may rely on the flag.
OwnerInv == (~healthy \/ reconnecting) /\ ~stopped => Owned

Inv == TypeOK /\ ClientInv /\ OwnerInv

LEMMA InitInv == Init => Inv
<1> SUFFICES ASSUME Init
             PROVE  Inv
  OBVIOUS
<1>1. 1 \in Clients
  BY BoundsAssumption DEF Clients
<1>2. TypeOK
  BY <1>1 DEF Init, TypeOK, None
<1>3. ClientInv
  BY <1>1 DEF Init, ClientInv, Configured, Working
<1>4. OwnerInv
  BY DEF Init, OwnerInv
<1> QED BY <1>2, <1>3, <1>4 DEF Inv

\* What StartRuns() does to each client and each run.
LEMMA StartRunsEffect ==
  ASSUME TypeOK, NEW n \in Nat, n > 0 => Cardinality(FreeRuns) >= n,
         NEW cs \in [Clients -> ClientStates], NEW rs \in [Runs -> RunStates],
         \A l \in Runs : run[l] = "free" => rs[l] = "free",
         StartRuns(n, cs, rs)
  PROVE  /\ cstate' \in [Clients -> ClientStates] /\ run' \in [Runs -> RunStates]
         /\ \A c \in Clients : cstate'[c] = cs[c]
                               \/ (c = client /\ cs[c] = "up" /\ cstate'[c] = "ended")
         /\ \A l \in Runs : run'[l] = rs[l] \/ (run[l] = "free" /\ run'[l] = "ending")
         /\ reconnecting' \in BOOLEAN
         /\ reconnecting' => reconnecting \/ (n > 0 /\ ~stopped)
         /\ n > 0 /\ ~stopped => \E l \in Runs : run'[l] # "free"
<1>1. CASE n = 0 \/ stopped
  <2>1. cstate' = cs /\ run' = rs /\ reconnecting' = reconnecting
    BY <1>1 DEF StartRuns
  <2>2. ~(n > 0 /\ ~stopped)
    BY <1>1
  <2> QED BY <2>1, <2>2 DEF TypeOK
<1>2. CASE n # 0 /\ ~stopped
  <2>1. /\ cstate' = [cs EXCEPT ![client] = IF @ = "up" THEN "ended" ELSE @]
        /\ run' = [l \in Runs |->
              IF l \in FreeRuns /\ Cardinality({k \in FreeRuns : k <= l}) <= n
              THEN "ending" ELSE rs[l]]
        /\ reconnecting' = TRUE
    BY <1>2 DEF StartRuns, EndClient
  <2>2. PICK l \in FreeRuns : Cardinality({k \in FreeRuns : k <= l}) <= n
    BY <1>2, RunStarts
  <2>3. l \in Runs /\ run'[l] = "ending"
    BY <2>1, <2>2 DEF FreeRuns
  <2>4. cstate' \in [Clients -> ClientStates]
        /\ \A c \in Clients : cstate'[c] = cs[c]
                              \/ (c = client /\ cs[c] = "up" /\ cstate'[c] = "ended")
    BY <2>1 DEF ClientStates, TypeOK
  <2>5. run' \in [Runs -> RunStates]
        /\ \A m \in Runs : run'[m] = rs[m] \/ (run[m] = "free" /\ run'[m] = "ending")
    BY <2>1 DEF RunStates, FreeRuns
  <2> QED BY <1>2, <2>1, <2>3, <2>4, <2>5
<1> QED BY <1>1, <1>2

\* A client once configured stays so, and no run gets a client or goes on with one.
LEMMA ClientFrame ==
  ASSUME TypeOK, ClientInv, client' = client,
         \A c \in Clients : cstate[c] \in Configured => cstate'[c] \in Configured,
         \A l \in Runs : run'[l] \in {"connecting", "setting"} =>
           /\ run'[l] = run[l] /\ runClient'[l] = runClient[l]
           /\ cstate'[runClient[l]] = cstate[runClient[l]],
         copy' = "copy" =>
           \/ copy = "copy" /\ copyOn' = copyOn
           \/ copyOn' = client
  PROVE  ClientInv'
BY DEF TypeOK, ClientInv, Working, Configured

LEMMA CopyTypes ==
  ASSUME NEW h, MayDispatch(h)
  PROVE  copy' \in {"idle", "ensure"}
BY DEF MayDispatch

\* The catch block of runCopy(), which starts a run when the writer is unhealthy.
LEMMA FailedCopyInv ==
  ASSUME Inv, healthy \/ RoomFor(1), copyOn' \in {copyOn, None},
         StartRuns(IF healthy THEN 0 ELSE 1, cstate, run), MayDispatch(healthy),
         UNCHANGED <<client, healthy, runClient, stopped, reachable>>
  PROVE  Inv'
<1> DEFINE n == IF healthy THEN 0 ELSE 1
<1>1. n \in Nat /\ (n > 0 => Cardinality(FreeRuns) >= n)
  BY DEF RoomFor
<1>2. cstate \in [Clients -> ClientStates] /\ run \in [Runs -> RunStates]
  BY DEF Inv, TypeOK, ClientStates, RunStates
<1>3. TypeOK /\ ClientInv /\ OwnerInv /\ StartRuns(n, cstate, run)
  BY DEF Inv
<1> HIDE DEF n
<1>4. /\ cstate' \in [Clients -> ClientStates] /\ run' \in [Runs -> RunStates]
      /\ \A c \in Clients : cstate'[c] = cstate[c]
                            \/ (c = client /\ cstate[c] = "up" /\ cstate'[c] = "ended")
      /\ \A l \in Runs : run'[l] = run[l] \/ (run[l] = "free" /\ run'[l] = "ending")
      /\ reconnecting' \in BOOLEAN
      /\ reconnecting' => reconnecting \/ (n > 0 /\ ~stopped)
      /\ n > 0 /\ ~stopped => \E l \in Runs : run'[l] # "free"
  BY <1>1, <1>2, <1>3, StartRunsEffect
<1>5. copy' \in {"idle", "ensure"}
  BY CopyTypes
<1>6. TypeOK'
  BY <1>3, <1>4, <1>5 DEF TypeOK, ClientStates, RunStates
<1>7. ClientInv'
  BY <1>3, <1>4, <1>5 DEF ClientInv, Working, Configured, TypeOK
<1>8. OwnerInv'
  BY <1>3, <1>4 DEF OwnerInv, Owned
<1> QED BY <1>6, <1>7, <1>8 DEF Inv

\* The error listener, and the catch block of the COPY that was on the connection.
LEMMA ClientLostInv ==
  ASSUME Inv, NEW c \in Clients, ClientLost(c)
  PROVE  Inv'
<1> DEFINE failed == copy = "copy" /\ copyOn = c
           n == (IF reconnecting THEN 0 ELSE 1) + (IF failed THEN 1 ELSE 0)
           aborted == {l \in Runs : run[l] = "setting" /\ runClient[l] = c}
           cs == [cstate EXCEPT ![c] = "lost"]
           rs == [l \in Runs |-> IF l \in aborted THEN "waiting" ELSE run[l]]
<1>1. /\ RoomFor(n) /\ healthy' = FALSE /\ StartRuns(n, cs, rs)
      /\ cstate[c] \in {"setting", "up"}
      /\ runClient' = [l \in Runs |-> IF l \in aborted THEN None ELSE runClient[l]]
      /\ copy' = (IF failed THEN "idle" ELSE copy) /\ copyOn' = (IF failed THEN None ELSE copyOn)
      /\ UNCHANGED <<client, stopped, reachable>>
  BY DEF ClientLost
<1>2. n \in Nat /\ (n = 0 => reconnecting) /\ (n > 0 => Cardinality(FreeRuns) >= n)
  BY <1>1 DEF RoomFor
<1>3. cs \in [Clients -> ClientStates] /\ rs \in [Runs -> RunStates]
  BY DEF Inv, TypeOK, ClientStates, RunStates
<1>4. /\ \A l \in Runs : run[l] = "free" => rs[l] = "free"
      /\ \A l \in Runs : run[l] # "free" => rs[l] # "free"
      /\ \A l \in Runs : rs[l] \in {"connecting", "setting"} =>
                           rs[l] = run[l] /\ l \notin aborted
  OBVIOUS
<1>5. /\ \A d \in Clients : d # c => cs[d] = cstate[d]
      /\ cs[c] = "lost"
  BY DEF Inv, TypeOK
<1>6. TypeOK /\ ClientInv /\ OwnerInv
  BY DEF Inv
<1>7. \A l \in aborted : run[l] = "setting" /\ runClient[l] = c
  OBVIOUS
<1>8. \A l \in Runs : run[l] = "setting" /\ runClient[l] = c => l \in aborted
  OBVIOUS
<1>9. /\ ~failed => copy' = copy /\ copyOn' = copyOn
      /\ failed => copy' = "idle" /\ copyOn' = None
      /\ \A l \in Runs : l \notin aborted => runClient'[l] = runClient[l]
      /\ \A l \in Runs : runClient'[l] \in {None, runClient[l]}
      /\ runClient' \in [Runs -> Clients \cup {None}]
  BY <1>1, <1>6 DEF TypeOK
<1> HIDE DEF n, aborted, cs, rs, failed
<1>10. /\ cstate' \in [Clients -> ClientStates] /\ run' \in [Runs -> RunStates]
       /\ \A d \in Clients : cstate'[d] = cs[d]
                             \/ (d = client /\ cs[d] = "up" /\ cstate'[d] = "ended")
       /\ \A l \in Runs : run'[l] = rs[l] \/ (run[l] = "free" /\ run'[l] = "ending")
       /\ reconnecting' \in BOOLEAN
       /\ n > 0 /\ ~stopped => \E l \in Runs : run'[l] # "free"
  BY <1>1, <1>2, <1>3, <1>4, <1>6, StartRunsEffect
<1>11. TypeOK'
  BY <1>1, <1>6, <1>9, <1>10 DEF TypeOK, ClientStates, RunStates
<1>12. ClientInv'
  <2>1. \A d \in Clients : cstate[d] \in Configured => cstate'[d] \in Configured
    BY <1>5, <1>10 DEF Configured
  <2>2. ASSUME NEW l \in Runs, run'[l] \in {"connecting", "setting"}
        PROVE  /\ run'[l] = run[l] /\ runClient'[l] = runClient[l]
               /\ cstate'[runClient[l]] = cstate[runClient[l]]
    <3>1. run'[l] = run[l] /\ l \notin aborted
      BY <2>2, <1>4, <1>10
    <3>2. runClient[l] \in Clients /\ cstate[runClient[l]] = run[l]
      BY <2>2, <3>1, <1>6 DEF ClientInv, Working
    <3>3. runClient[l] # c
      BY <2>2, <3>1, <3>2, <1>1, <1>8
    <3>4. cs[runClient[l]] = cstate[runClient[l]] /\ cs[runClient[l]] # "up"
      BY <2>2, <3>1, <3>2, <3>3, <1>5
    <3> QED BY <3>1, <3>2, <3>4, <1>9, <1>10
  <2>3. copy' = "copy" => copy = "copy" /\ copyOn' = copyOn
    BY <1>9
  <2> QED BY <1>1, <1>6, <2>1, <2>2, <2>3, ClientFrame
<1>13. OwnerInv'
  <2> SUFFICES ASSUME ~stopped
               PROVE  \E l \in Runs : run'[l] # "free"
    BY <1>1 DEF OwnerInv, Owned
  <2>1. CASE n > 0
    BY <2>1, <1>10
  <2>2. CASE n = 0
    <3>1. PICK l \in Runs : run[l] # "free"
      BY <1>2, <1>6, <2>2 DEF OwnerInv, Owned
    <3> QED BY <3>1, <1>4, <1>10
  <2> QED BY <1>2, <2>1, <2>2
<1> QED BY <1>11, <1>12, <1>13 DEF Inv

\* The steps of reconnect().
LEMMA RunStepInv ==
  ASSUME Inv, NEW l \in Runs, RunStep(l)
  PROVE  Inv'
<1> USE DEF Inv
<1>1. CASE Connect(l)
  <2>1. PICK c \in Clients : /\ Unused(c)
                             /\ cstate' = [cstate EXCEPT ![c] = "connecting"]
                             /\ runClient' = [runClient EXCEPT ![l] = c]
    BY <1>1 DEF Connect
  <2>2. /\ run' = [run EXCEPT ![l] = "connecting"] /\ run[l] = "ending"
        /\ UNCHANGED <<client, healthy, reconnecting, copy, copyOn, stopped, reachable>>
    BY <1>1 DEF Connect
  <2>3. TypeOK'
    BY <2>1, <2>2 DEF TypeOK
  <2>4. /\ c # client /\ (copy = "copy" => c # copyOn)
        /\ cstate[c] \notin {"connecting", "setting"}
    BY <2>1 DEF Unused, ClientInv, Configured
  <2>5. ClientInv'
    BY <2>1, <2>2, <2>4 DEF ClientInv, Working, Configured, TypeOK
  <2>6. OwnerInv'
    BY <2>2 DEF OwnerInv, Owned, TypeOK
  <2> QED BY <2>3, <2>5, <2>6
<1>2. CASE Connected(l) \/ ConnectFailed(l)
  <2>1. /\ run[l] = "connecting"
        /\ UNCHANGED <<client, healthy, reconnecting, copy, copyOn, stopped, reachable>>
    BY <1>2 DEF Connected, ConnectFailed
  <2>2. runClient[l] \in Clients /\ cstate[runClient[l]] = "connecting"
    BY <2>1 DEF ClientInv, Working
  <2>3. \/ /\ cstate' = [cstate EXCEPT ![runClient[l]] = "setting"]
           /\ run' = [run EXCEPT ![l] = "setting"] /\ runClient' = runClient
        \/ /\ cstate' = [cstate EXCEPT ![runClient[l]] = "free"]
           /\ run' = [run EXCEPT ![l] = "waiting"]
           /\ runClient' = [runClient EXCEPT ![l] = None]
    BY <1>2 DEF Connected, ConnectFailed
  <2>4. TypeOK'
    BY <2>1, <2>3 DEF TypeOK
  <2>5. ClientInv'
    BY <2>1, <2>2, <2>3 DEF ClientInv, Working, Configured, TypeOK
  <2>6. OwnerInv'
    BY <2>1, <2>3 DEF OwnerInv, Owned, TypeOK
  <2> QED BY <2>4, <2>5, <2>6
<1>3. CASE Adopt(l)
  <2>1. /\ run[l] = "setting" /\ client' = runClient[l]
        /\ healthy' = TRUE /\ reconnecting' = FALSE
        /\ cstate' = [cstate EXCEPT ![runClient[l]] = "up"]
        /\ run' = [run EXCEPT ![l] = "free"] /\ runClient' = [runClient EXCEPT ![l] = None]
        /\ UNCHANGED <<copyOn, stopped, reachable>>
    BY <1>3 DEF Adopt
  <2>2. copy' \in {"idle", "ensure", copy} /\ (copy' = "copy" => copy = "copy")
    BY <1>3, CopyTypes DEF Adopt
  <2>3. runClient[l] \in Clients /\ cstate[runClient[l]] = "setting"
    BY <2>1 DEF ClientInv, Working
  <2>4. TypeOK'
    BY <2>1, <2>2, <2>3 DEF TypeOK
  <2>5. ClientInv'
    BY <2>1, <2>2, <2>3 DEF ClientInv, Working, Configured, TypeOK
  <2>6. OwnerInv'
    BY <2>1 DEF OwnerInv
  <2> QED BY <2>4, <2>5, <2>6
<1>4. CASE Retry(l)
  <2>1. /\ run[l] = "waiting"
        /\ UNCHANGED <<client, healthy, copy, copyOn, runClient, stopped, reachable>>
        /\ reconnecting' = (reconnecting \/ ~stopped)
    BY <1>4 DEF Retry
  <2>2. \/ run' = [run EXCEPT ![l] = "free"] /\ stopped /\ cstate' = cstate
        \/ run' = [run EXCEPT ![l] = "ending"] /\ ~stopped /\ cstate' = EndClient(cstate)
    BY <1>4 DEF Retry
  <2>3. TypeOK'
    BY <2>1, <2>2 DEF TypeOK, EndClient
  <2>4. ClientInv'
    BY <2>1, <2>2 DEF EndClient, ClientInv, Working, Configured, TypeOK
  <2>5. OwnerInv'
    <3>1. CASE stopped
      BY <2>1, <3>1 DEF OwnerInv
    <3>2. CASE ~stopped
      <4>1. run'[l] = "ending"
        BY <2>2, <3>2 DEF TypeOK
      <4> QED BY <4>1 DEF OwnerInv, Owned
    <3> QED BY <3>1, <3>2
  <2> QED BY <2>3, <2>4, <2>5
<1> QED BY <1>1, <1>2, <1>3, <1>4 DEF RunStep

\* A COPY starts, or fails on the spot.
LEMMA SendCopyInv ==
  ASSUME Inv, SendCopy
  PROVE  Inv'
<1> USE DEF Inv
<1>1. UNCHANGED <<client, healthy, runClient, stopped, reachable>>
  BY DEF SendCopy
<1>2. CASE cstate[client] \notin {"lost", "ended"} /\ copy' = "copy" /\ copyOn' = client
           /\ UNCHANGED <<reconnecting, cstate, run>>
  <2>1. TypeOK'
    BY <1>1, <1>2 DEF TypeOK
  <2>2. ClientInv'
    BY <1>1, <1>2, ClientFrame
  <2>3. OwnerInv'
    BY <1>1, <1>2 DEF OwnerInv, Owned
  <2> QED BY <2>1, <2>2, <2>3
<1>3. CASE /\ healthy \/ RoomFor(1)
           /\ UNCHANGED copyOn
           /\ StartRuns(IF healthy THEN 0 ELSE 1, cstate, run)
           /\ MayDispatch(healthy)
  BY <1>1, <1>3, FailedCopyInv
<1> QED BY <1>2, <1>3 DEF SendCopy

LEMMA NextInv ==
  ASSUME Inv, [Next]_vars
  PROVE  Inv'
<1> USE DEF Inv
<1>1. CASE Dispatched \/ CopySucceeds
  <2>1. /\ UNCHANGED <<client, healthy, reconnecting, cstate, run, runClient, stopped, reachable>>
        /\ copy' \in {"idle", "ensure"} /\ copyOn' \in {copyOn, None}
    BY <1>1, CopyTypes DEF Dispatched, CopySucceeds
  <2>2. TypeOK'
    BY <2>1 DEF TypeOK
  <2>3. ClientInv'
    BY <2>1, ClientFrame
  <2>4. OwnerInv'
    BY <2>1 DEF OwnerInv, Owned
  <2> QED BY <2>2, <2>3, <2>4
<1>2. CASE SendCopy
  BY <1>2, SendCopyInv
<1>3. CASE CopyFails
  BY <1>3, FailedCopyInv DEF CopyFails
<1>4. ASSUME NEW c \in Clients, ClientLost(c)
      PROVE  Inv'
  BY <1>4, ClientLostInv
<1>5. ASSUME NEW l \in Runs, RunStep(l)
      PROVE  Inv'
  BY <1>5, RunStepInv
<1>6. CASE Outage \/ OutageOver \/ Stop
  <2>1. /\ UNCHANGED <<client, healthy, reconnecting, copy, copyOn, cstate, run, runClient>>
        /\ reachable' \in {reachable, TRUE, FALSE}
    BY <1>6 DEF Outage, OutageOver, Stop
  <2>5. CASE stopped' = TRUE
    <3>1. OwnerInv'
      BY <2>5 DEF OwnerInv
    <3>2. TypeOK'
      BY <2>1, <2>5 DEF TypeOK
    <3> QED BY <3>1, <3>2, <2>1, ClientFrame
  <2>6. CASE stopped' = stopped
    <3>1. OwnerInv'
      BY <2>1, <2>6 DEF OwnerInv, Owned
    <3>2. TypeOK'
      BY <2>1, <2>6 DEF TypeOK
    <3> QED BY <3>1, <3>2, <2>1, ClientFrame
  <2>7. stopped' = TRUE \/ stopped' = stopped
    BY <1>6 DEF Outage, OutageOver, Stop
  <2> QED BY <2>5, <2>6, <2>7
<1>7. CASE StopEnds
  <2>1. /\ UNCHANGED <<client, healthy, reconnecting, copy, copyOn, run, runClient, stopped,
                       reachable>>
        /\ cstate[client] = "up" /\ cstate' = [cstate EXCEPT ![client] = "ended"]
    BY <1>7 DEF StopEnds, EndClient, TypeOK
  <2>2. TypeOK'
    BY <2>1 DEF TypeOK
  <2>3. ClientInv'
    BY <2>1 DEF ClientInv, Working, Configured, TypeOK
  <2>4. OwnerInv'
    BY <2>1 DEF OwnerInv, Owned
  <2> QED BY <2>2, <2>3, <2>4
<1>8. CASE UNCHANGED vars
  <2>1. TypeOK'
    BY <1>8 DEF vars, TypeOK
  <2>2. ClientInv' /\ OwnerInv'
    BY <1>8, ClientFrame DEF vars, OwnerInv, Owned
  <2> QED BY <2>1, <2>2
<1> QED BY <1>1, <1>2, <1>3, <1>4, <1>5, <1>6, <1>7, <1>8 DEF Next

LEMMA InvAlways == Spec => []Inv
BY InitInv, NextInv, PTL DEF Spec

\* Every variable keeps its type: in particular, no run goes to work on a client that is
\* not there.
THEOREM TypeCorrect == Spec => []TypeOK
<1>1. Inv => TypeOK
  BY DEF Inv
<1> QED BY <1>1, InvAlways, PTL

\* writer.ts, attachErrorHandler() and reconnect(): whatever overlaps, an unhealthy writer of
\* a service that goes on has a run of reconnect() working on it.
THEOREM UnhealthyIsOwned == Spec => []RecoveryOwned
<1>1. Inv => RecoveryOwned
  BY DEF Inv, OwnerInv, Owned, RecoveryOwned
<1> QED BY <1>1, InvAlways, PTL

\* writer.ts, connectWriter(): no COPY is sent on a client whose SET synchronous_commit has
\* not been answered, however many runs bring up clients at once.
THEOREM CopiesAreConfigured == Spec => []CopyOnConfiguredClient
<1>1. Inv => CopyOnConfiguredClient
  BY DEF Inv, ClientInv, Configured, CopyOnConfiguredClient
<1> QED BY <1>1, InvAlways, PTL
=============================================================================
