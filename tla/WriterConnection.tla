-------------------------- MODULE WriterConnection --------------------------
(***************************************************************************)
(* One writer of src/ingest/writer.ts and the connection behind it: the    *)
(* Writer record (client, busy, healthy, reconnecting) and every run of    *)
(* reconnect() that works on it.  A run is started by the error listener   *)
(* of any client the writer ever had, by runCopy() after a failed COPY, or *)
(* by its own retry timer; several can be under way at once.               *)
(*                                                                         *)
(* A step is what the thread does for one event up to the next await.      *)
(* When a connection is lost, the listener runs first and the rejected     *)
(* COPY's catch block right after it, before any other event.              *)
(***************************************************************************)
EXTENDS Naturals, FiniteSets, FiniteSetsExt

CONSTANTS
  MaxClients,  \* bound on the pg.Client objects in use at a time
  MaxRuns,     \* bound on the runs of reconnect() under way at a time
  CanStop      \* whether the service may be told to stop

ASSUME BoundsAssumption ==
  /\ MaxClients \in Nat \ {0}
  /\ MaxRuns \in Nat \ {0}
  /\ CanStop \in BOOLEAN

Clients == 1..MaxClients
Runs == 1..MaxRuns
None == 0

VARIABLES
  client,        \* writer.client
  healthy,       \* writer.healthy
  reconnecting,  \* writer.reconnecting
  copy,          \* idle, ensure (before copyBuffer) or copy: what busy covers
  copyOn,        \* the client copyBuffer() was given
  cstate,        \* free, connecting, setting, up, lost or ended
  run,           \* per run: free, ending, connecting, setting or waiting
  runClient,     \* the client a run is bringing up
  stopped,       \* IngestWriter.stopped
  reachable      \* whether the database accepts and keeps connections

vars == <<client, healthy, reconnecting, copy, copyOn, cstate, run, runClient,
          stopped, reachable>>

TypeOK ==
  /\ client \in Clients
  /\ healthy \in BOOLEAN
  /\ reconnecting \in BOOLEAN
  /\ copy \in {"idle", "ensure", "copy"}
  /\ copyOn \in Clients \cup {None}
  /\ cstate \in [Clients -> {"free", "connecting", "setting", "up", "lost", "ended"}]
  /\ run \in [Runs -> {"free", "ending", "connecting", "setting", "waiting"}]
  /\ runClient \in [Runs -> Clients \cup {None}]
  /\ stopped \in BOOLEAN
  /\ reachable \in BOOLEAN

\* connectWriter() has succeeded.
Init ==
  /\ client = 1
  /\ healthy = TRUE
  /\ reconnecting = FALSE
  /\ copy = "idle"
  /\ copyOn = None
  /\ cstate = [c \in Clients |-> IF c = 1 THEN "up" ELSE "free"]
  /\ run = [l \in Runs |-> "free"]
  /\ runClient = [l \in Runs |-> None]
  /\ stopped = FALSE
  /\ reachable = TRUE

-----------------------------------------------------------------------------
FreeRuns == {l \in Runs : run[l] = "free"}

\* A client object nobody will touch again may stand for a new one.
Unused(c) == \/ cstate[c] = "free"
             \/ /\ cstate[c] \in {"lost", "ended"}
                /\ c # client /\ ~(copy = "copy" /\ c = copyOn)

\* The bounds: n more runs may start only if each run will find a client.
RoomFor(n) ==
  /\ Cardinality(FreeRuns) >= n
  /\ Cardinality({c \in Clients : ~Unused(c)})
       + Cardinality({l \in Runs : run[l] \in {"ending", "waiting"}}) + n
     <= MaxClients

\* client.end() on the writer's client, given the states cs of the clients.
EndClient(cs) == [cs EXCEPT ![client] = IF @ = "up" THEN "ended" ELSE @]

\* n new runs of reconnect(), up to the await of client.end(): nothing after
\* stop().  cs and rs are the clients and the runs when they start.
StartRuns(n, cs, rs) ==
  IF n = 0 \/ stopped
  THEN /\ cstate' = cs /\ run' = rs
       /\ UNCHANGED reconnecting
  ELSE /\ cstate' = EndClient(cs)
       /\ run' = [l \in Runs |->
            IF l \in FreeRuns /\ Cardinality({k \in FreeRuns : k <= l}) <= n
            THEN "ending" ELSE rs[l]]
       /\ reconnecting' = TRUE

\* dispatch() at the end of a step: the writer takes a batch if there is one.
MayDispatch(h) == copy' \in IF h THEN {"idle", "ensure"} ELSE {"idle"}

-----------------------------------------------------------------------------
(* runCopy(). *)

\* A batch arrives and dispatch() picks this writer.
Dispatched ==
  /\ copy = "idle" /\ healthy
  /\ copy' = "ensure"
  /\ UNCHANGED <<client, healthy, reconnecting, copyOn, cstate, run, runClient,
                 stopped, reachable>>

\* ensureRange() is done: copyBuffer() on whatever client the writer has by now.
\* A client that has been lost or ended fails the COPY on the spot.
SendCopy ==
  /\ copy = "ensure"
  /\ \/ /\ cstate[client] \notin {"lost", "ended"}
        /\ copy' = "copy" /\ copyOn' = client
        /\ UNCHANGED <<reconnecting, cstate, run>>
     \/ /\ cstate[client] \in {"lost", "ended"}
        /\ healthy \/ RoomFor(1)
        /\ UNCHANGED copyOn
        /\ StartRuns(IF healthy THEN 0 ELSE 1, cstate, run)
        /\ MayDispatch(healthy)
  /\ UNCHANGED <<client, healthy, runClient, stopped, reachable>>

CopySucceeds ==
  /\ copy = "copy" /\ cstate[copyOn] = "up"
  /\ MayDispatch(healthy)
  /\ copyOn' = None
  /\ UNCHANGED <<client, healthy, reconnecting, cstate, run, runClient, stopped,
                 reachable>>

\* The catch block, the server having refused the COPY or its client having been
\* ended under it.
CopyFails ==
  /\ copy = "copy"
  /\ healthy \/ RoomFor(1)
  /\ StartRuns(IF healthy THEN 0 ELSE 1, cstate, run)
  /\ MayDispatch(healthy)
  /\ copyOn' = None
  /\ UNCHANGED <<client, healthy, runClient, stopped, reachable>>

-----------------------------------------------------------------------------
(* The error listener. *)

\* A connection is lost.  Its listener marks the writer unhealthy, whether or not
\* the client is still the writer's, and starts reconnect() unless a run is under
\* way; a COPY on it fails and starts one regardless; a run waiting for its SET
\* goes to its retry timer.
ClientLost(c) ==
  LET failed  == copy = "copy" /\ copyOn = c
      starts  == (IF reconnecting THEN 0 ELSE 1) + (IF failed THEN 1 ELSE 0)
      aborted == {l \in Runs : run[l] = "setting" /\ runClient[l] = c}
  IN /\ ~reachable
     /\ cstate[c] \in {"setting", "up"}
     /\ RoomFor(starts)
     /\ healthy' = FALSE
     /\ StartRuns(starts, [cstate EXCEPT ![c] = "lost"],
                  [l \in Runs |-> IF l \in aborted THEN "waiting" ELSE run[l]])
     /\ runClient' = [l \in Runs |-> IF l \in aborted THEN None ELSE runClient[l]]
     /\ copy' = IF failed THEN "idle" ELSE copy
     /\ copyOn' = IF failed THEN None ELSE copyOn
     /\ UNCHANGED <<client, stopped, reachable>>

-----------------------------------------------------------------------------
(* reconnect(). *)

\* Variant: a failed attempt is not tried again.
ConnectFailed_NoRetry(l) ==
  /\ run[l] = "connecting" /\ ~reachable
  /\ cstate' = [cstate EXCEPT ![runClient[l]] = "free"]
  /\ run' = [run EXCEPT ![l] = "free"]
  /\ runClient' = [runClient EXCEPT ![l] = None]
  /\ UNCHANGED <<client, healthy, reconnecting, copy, copyOn, stopped, reachable>>

\* Variant: the new client is the writer's before its SET is done.
Connected_AdoptEarly(l) ==
  /\ run[l] = "connecting" /\ reachable
  /\ cstate' = [cstate EXCEPT ![runClient[l]] = "setting"]
  /\ run' = [run EXCEPT ![l] = "setting"]
  /\ client' = runClient[l]
  /\ UNCHANGED <<healthy, reconnecting, copy, copyOn, runClient, stopped, reachable>>

\* client.end() is done: a new client starts to connect.
Connect(l) ==
  /\ run[l] = "ending"
  /\ \E c \in {x \in Clients : Unused(x) /\ \A y \in Clients : Unused(y) => x <= y} :
       /\ cstate' = [cstate EXCEPT ![c] = "connecting"]
       /\ runClient' = [runClient EXCEPT ![l] = c]
  /\ run' = [run EXCEPT ![l] = "connecting"]
  /\ UNCHANGED <<client, healthy, reconnecting, copy, copyOn, stopped, reachable>>

Connected(l) ==
  /\ run[l] = "connecting" /\ reachable
  /\ cstate' = [cstate EXCEPT ![runClient[l]] = "setting"]
  /\ run' = [run EXCEPT ![l] = "setting"]
  /\ UNCHANGED <<client, healthy, reconnecting, copy, copyOn, runClient, stopped,
                 reachable>>

\* connect() rejects: the retry timer is set.
ConnectFailed(l) ==
  /\ run[l] = "connecting" /\ ~reachable
  /\ cstate' = [cstate EXCEPT ![runClient[l]] = "free"]
  /\ run' = [run EXCEPT ![l] = "waiting"]
  /\ runClient' = [runClient EXCEPT ![l] = None]
  /\ UNCHANGED <<client, healthy, reconnecting, copy, copyOn, stopped, reachable>>

\* Variants: the reconnecting flag stays set; the run forgets its client first.
Adopt_FlagKept(l) ==
  /\ run[l] = "setting" /\ reachable
  /\ client' = runClient[l]
  /\ healthy' = TRUE
  /\ cstate' = [cstate EXCEPT ![runClient[l]] = "up"]
  /\ run' = [run EXCEPT ![l] = "free"]
  /\ runClient' = [runClient EXCEPT ![l] = None]
  /\ IF copy = "idle" THEN MayDispatch(TRUE) ELSE UNCHANGED copy
  /\ UNCHANGED <<reconnecting, copyOn, stopped, reachable>>

Adopt_ForgetFirst(l) ==
  /\ run[l] = "setting" /\ reachable
  /\ runClient' = [runClient EXCEPT ![l] = None]
  /\ client' = runClient'[l]
  /\ healthy' = TRUE
  /\ reconnecting' = FALSE
  /\ cstate' = [cstate EXCEPT ![runClient[l]] = "up"]
  /\ run' = [run EXCEPT ![l] = "free"]
  /\ IF copy = "idle" THEN MayDispatch(TRUE) ELSE UNCHANGED copy
  /\ UNCHANGED <<copyOn, stopped, reachable>>

\* SET synchronous_commit is done: the new client replaces whatever client the
\* writer has, and the writer may take a batch.
Adopt(l) ==
  /\ run[l] = "setting" /\ reachable
  /\ client' = runClient[l]
  /\ healthy' = TRUE
  /\ reconnecting' = FALSE
  /\ cstate' = [cstate EXCEPT ![runClient[l]] = "up"]
  /\ run' = [run EXCEPT ![l] = "free"]
  /\ runClient' = [runClient EXCEPT ![l] = None]
  /\ IF copy = "idle" THEN MayDispatch(TRUE) ELSE UNCHANGED copy
  /\ UNCHANGED <<copyOn, stopped, reachable>>

\* The retry timer: reconnect() from its first line, which ends the writer's
\* client once more.
Retry(l) ==
  /\ run[l] = "waiting"
  /\ run' = [run EXCEPT ![l] = IF stopped THEN "free" ELSE "ending"]
  /\ reconnecting' = (reconnecting \/ ~stopped)
  /\ cstate' = IF stopped THEN cstate ELSE EndClient(cstate)
  /\ UNCHANGED <<client, healthy, copy, copyOn, runClient, stopped, reachable>>

-----------------------------------------------------------------------------
(* The database and stop(). *)

Outage ==
  /\ reachable
  /\ reachable' = FALSE
  /\ UNCHANGED <<client, healthy, reconnecting, copy, copyOn, cstate, run,
                 runClient, stopped>>

OutageOver ==
  /\ ~reachable
  /\ reachable' = TRUE
  /\ UNCHANGED <<client, healthy, reconnecting, copy, copyOn, cstate, run,
                 runClient, stopped>>

Stop ==
  /\ CanStop /\ ~stopped
  /\ stopped' = TRUE
  /\ UNCHANGED <<client, healthy, reconnecting, copy, copyOn, cstate, run,
                 runClient, reachable>>

\* stop() ends the client when the writer is not busy or its deadline has passed.
StopEnds ==
  /\ stopped /\ cstate[client] = "up"
  /\ cstate' = EndClient(cstate)
  /\ UNCHANGED <<client, healthy, reconnecting, copy, copyOn, run, runClient,
                 stopped, reachable>>

RunStep(l) == Connect(l) \/ Connected(l) \/ ConnectFailed(l) \/ Adopt(l) \/ Retry(l)

Next ==
  \/ Dispatched \/ SendCopy \/ CopySucceeds \/ CopyFails
  \/ \E c \in Clients : ClientLost(c)
  \/ \E l \in Runs : RunStep(l)
  \/ Outage \/ OutageOver
  \/ Stop \/ StopEnds

Spec == Init /\ [][Next]_vars

\* Connection attempts end one way or the other and armed retry timers fire.
Fairness == \A l \in Runs : WF_vars(RunStep(l))

FairSpec == Spec /\ Fairness

-----------------------------------------------------------------------------
(* Properties. *)

\* attachErrorHandler() starts no run while one is under way, and every way out
\* of reconnect() must honour that: an unhealthy writer always has a run of
\* reconnect() working on it, or it would be out of service for ever.
RecoveryOwned == ~healthy /\ ~stopped => \E l \in Runs : run[l] # "free"

\* Whichever run wins, a COPY only ever goes to a client on which SET
\* synchronous_commit has succeeded: the durability of its rows depends on it.
CopyOnConfiguredClient == copy = "copy" => cstate[copyOn] \notin {"connecting", "setting"}

\* README.md, bottleneck 4: ingestion resumes automatically.  Once the database
\* stays reachable the writer ends up, for good, healthy, with a live client and
\* with no run of reconnect() left to disturb it.
RecoverySettles ==
  <>[]reachable =>
    <>[](\/ stopped
         \/ /\ healthy /\ cstate[client] = "up"
            /\ \A l \in Runs : run[l] = "free")

\* healthyWriterCount: "Writer connections currently able to accept a COPY."  A
\* writer counted healthy has not had its client ended by this program.  A second
\* run of reconnect() ends the client the first one has just put in place.
HealthyIsUsable == healthy /\ ~stopped => cstate[client] # "ended"
=============================================================================
