------------------------------ MODULE EventBus ------------------------------
(***************************************************************************)
(* How a run is narrated to the dashboard: EventBus with its bounded ring  *)
(* and its journal file, the stream endpoint with its three sources (the   *)
(* live queue, the ring, the file), and the browser's stream client, which *)
(* reconnects from the last sequence number it saw                         *)
(* (sentinel/api/livelab/bus.py, router.py stream, replay.py, and          *)
(* frontend/src/livelab/api.ts).                                           *)
(*                                                                         *)
(* A frame is its sequence number; log gives its event, of which only      *)
(* "done" and "error" change the client's course. The bus of a live run is *)
(* journaled, that of a replay writes no journal. The page folds the       *)
(* frames into its view one by one (state.ts).                             *)
(***************************************************************************)
EXTENDS Naturals, Sequences, SequencesExt

CONSTANTS Viewers,        \* browsers watching the run
          Ring,           \* capacity of the ring buffer
          MaxFrames,      \* bound on frames emitted before `done`
          MaxDrops,       \* bound on lost connections and page reloads
          MaxWriteErrors, \* bound on failed journal writes
          MaxDeaths       \* bound on deaths of the server process

ASSUME EventBusBounds == /\ Ring \in Nat \ {0}
                         /\ MaxFrames \in Nat
                         /\ MaxDrops \in Nat
                         /\ MaxWriteErrors \in Nat
                         /\ MaxDeaths \in Nat

VARIABLES
  journaled,                \* frames are written to events.jsonl
  emitter,                  \* the run thread, which emits and closes
  log,                      \* event of every frame emitted, by sequence number
  whole,                    \* history: the view of a page that saw every frame so far
  ring, disk,               \* sequence numbers in the deque, in the file
  closed,                   \* _closed
  conn, queue, lastSeq,     \* per viewer: its connection, frames on their way, lastSeq
  got, view,                \* per viewer: frames handed to onFrame since it opened, and
                            \* what the page has made of them
  drops, writeErrors, deaths

told   == <<log, whole>>
page   == <<lastSeq, got, view>>
bus    == <<journaled, emitter, told, ring, disk, closed>>
viewer == <<conn, queue, page>>
faults == <<drops, writeErrors, deaths>>
vars   == <<bus, viewer, faults>>

Events == {"phase", "error", "done"}
End    == 0                 \* the None that ends a subscription
Seqs   == 0..(MaxFrames + 1)

(* What the page makes of a frame. A frame it has counted already changes   *)
(* nothing; it begins anew when it opens a stream.                          *)
initialRunView == [lastSeq |-> 0, phases |-> <<>>, error |-> FALSE, done |-> FALSE]

reduce(state, frame) ==
  CASE frame.event = "reset"       -> initialRunView
    [] frame.event # "reset" /\ frame.seq # 0 /\ frame.seq <= state.lastSeq -> state
    [] OTHER ->
         [lastSeq |-> IF frame.seq > state.lastSeq THEN frame.seq ELSE state.lastSeq,
          phases  |-> IF frame.event = "phase" THEN Append(state.phases, frame.seq) ELSE state.phases,
          error   |-> state.error \/ frame.event = "error",
          done    |-> state.done \/ frame.event = "done"]

Frame(n, event) == [seq |-> n, event |-> event]

RunViews == [lastSeq : Seqs, phases : Seq(Seqs), error : BOOLEAN, done : BOOLEAN]

TypeOK ==
  /\ journaled \in BOOLEAN
  /\ emitter \in {"running", "closing", "closed", "exited", "dead"}
  /\ log \in Seq(Events)
  /\ ring \in Seq(Seqs) /\ Len(ring) <= Ring
  /\ disk \in Seq(Seqs)
  /\ closed \in BOOLEAN
  /\ conn \in [Viewers -> {"down", "live", "stored", "over"}]
  /\ queue \in [Viewers -> Seq(Seqs)]
  /\ lastSeq \in [Viewers -> Seqs]
  /\ got \in [Viewers -> Seq(Seqs)]
  /\ view \in [Viewers -> RunViews] /\ whole \in Seq(RunViews)
  /\ drops \in 0..MaxDrops
  /\ writeErrors \in 0..MaxWriteErrors
  /\ deaths \in 0..MaxDeaths

Init ==
  /\ journaled \in BOOLEAN
  /\ emitter = "running" /\ log = <<>> /\ whole = <<>> /\ ring = <<>> /\ disk = <<>>
  /\ closed = FALSE
  /\ conn = [v \in Viewers |-> "down"]
  /\ queue = [v \in Viewers |-> <<>>]
  /\ lastSeq = [v \in Viewers |-> 0]
  /\ got = [v \in Viewers |-> <<>>]
  /\ view = [v \in Viewers |-> initialRunView]
  /\ drops = 0 /\ writeErrors = 0 /\ deaths = 0
-----------------------------------------------------------------------------
next == Len(log) + 1

(* Slip for Pushed: the deque drops the newest frame. *)
PushedIfRoom(n) == IF Len(ring) < Ring THEN Append(ring, n) ELSE ring

(* deque(maxlen): the oldest frame makes room. *)
Pushed(n) == IF Len(ring) < Ring THEN Append(ring, n) ELSE Append(Tail(ring), n)

(* The frames newer than n: frames are in order, so those come last. *)
After(frames, n) ==
  LET older == {i \in 1..Len(frames) : frames[i] <= n}
  IN  SubSeq(frames, Max({0} \cup older) + 1, Len(frames))

Subscribed == {v \in Viewers : conn[v] = "live"}
Broadcast(n) ==
  queue' = [v \in Viewers |-> IF v \in Subscribed THEN Append(queue[v], n) ELSE queue[v]]

(* The view of a page that has seen the first n frames, each of them once. *)
WholeView(n) == IF n = 0 THEN initialRunView ELSE whole[n]

(* The frame gets its number and its place in the ring. *)
Numbered(event) ==
  /\ log' = Append(log, event)
  /\ whole' = Append(whole, reduce(WholeView(Len(log)), Frame(next, event)))
  /\ ring' = Pushed(next)

(* Slip for Emit: a buffered journal, one frame behind. *)
EmitBuffered(event) ==
  /\ Numbered(event)
  /\ disk' = IF journaled /\ next > 1 THEN Append(disk, Len(log)) ELSE disk
  /\ Broadcast(next)
  /\ UNCHANGED <<journaled, conn, page, faults>>

(* emit(), all of it under the lock. *)
Emit(event) ==
  /\ Numbered(event)
  /\ disk' = IF journaled THEN Append(disk, next) ELSE disk
  /\ Broadcast(next)
  /\ UNCHANGED <<journaled, conn, page, faults>>

(* The journal write raises: the frame is in the ring and nowhere else.     *)
EmitFails(event) ==
  /\ journaled
  /\ writeErrors < MaxWriteErrors
  /\ writeErrors' = writeErrors + 1
  /\ Numbered(event)
  /\ UNCHANGED <<journaled, disk, viewer, drops, deaths>>

(* The run, or the replay of one, emits its frames one after the other.     *)
Narrate(event) ==
  /\ emitter = "running"
  /\ Len(log) < MaxFrames
  /\ Emit(event) \/ EmitFails(event)
  /\ UNCHANGED <<emitter, closed>>

(* close(): the done frame, then the end of every subscription. When the    *)
(* write of the done frame raises, the thread ends and nothing is closed.   *)
CloseDone ==
  /\ emitter = "running"
  /\ \/ Emit("done") /\ emitter' = "closing"
     \/ EmitFails("done") /\ emitter' = "exited"
  /\ UNCHANGED closed

CloseSubs ==
  /\ emitter = "closing"
  /\ emitter' = "closed"
  /\ closed' = TRUE
  /\ Broadcast(End)
  /\ UNCHANGED <<journaled, told, ring, disk, conn, page, faults>>

Exit ==
  /\ emitter = "closed"
  /\ emitter' = "exited"
  /\ UNCHANGED <<journaled, told, ring, disk, closed, viewer, faults>>

(* The server process dies; the journal stays, the ring does not.           *)
Die ==
  /\ emitter # "dead"
  /\ deaths < MaxDeaths
  /\ deaths' = deaths + 1
  /\ emitter' = "dead"
  /\ ring' = <<>>
  /\ conn' = [v \in Viewers |-> IF conn[v] = "over" THEN "over" ELSE "down"]
  /\ queue' = [v \in Viewers |-> <<>>]
  /\ UNCHANGED <<journaled, told, disk, closed, page, drops, writeErrors>>
-----------------------------------------------------------------------------
(* Slip for Connect: the frames of the ring are sent whatever `after` says. *)
ConnectFromStart(v) ==
  /\ conn[v] = "down"
  /\ emitter \notin {"exited", "dead"}
  /\ conn' = [conn EXCEPT ![v] = "live"]
  /\ queue' = [queue EXCEPT ![v] = IF closed THEN Append(ring, End) ELSE ring]
  /\ UNCHANGED <<bus, page, faults>>

(* The client opens the stream from lastSeq. A run whose thread is alive is *)
(* subscribed to; one that is over is read from its journal, or from the    *)
(* ring when it has none. A replay is unknown after a restart: 404, and the *)
(* client tries again.                                                      *)
Connect(v) ==
  /\ conn[v] = "down"
  /\ LET live   == emitter \notin {"exited", "dead"}
         stored == IF journaled THEN disk ELSE ring
     IN  /\ live \/ journaled \/ emitter = "exited"
         /\ conn' = [conn EXCEPT ![v] = IF live THEN "live" ELSE "stored"]
         /\ queue' = [queue EXCEPT ![v] =
                        IF ~live THEN Append(After(stored, lastSeq[v]), End)
                        ELSE IF closed THEN Append(After(ring, lastSeq[v]), End)
                        ELSE After(ring, lastSeq[v])]
  /\ UNCHANGED <<bus, page, faults>>

(* A frame reaches the browser. Done ends the stream for good; a frame of   *)
(* event "error" also runs the connection's error handler, which reconnects.*)
Deliver(v) ==
  /\ conn[v] \in {"live", "stored"}
  /\ queue[v] # <<>> /\ Head(queue[v]) # End
  /\ LET n     == Head(queue[v])
         event == log[n]
         stays == event = "phase"
     IN  /\ lastSeq' = [lastSeq EXCEPT ![v] = IF n > @ THEN n ELSE @]
         /\ got' = [got EXCEPT ![v] = Append(@, n)]
         /\ view' = [view EXCEPT ![v] = reduce(@, Frame(n, event))]
         /\ conn' = [conn EXCEPT ![v] = IF event = "done" THEN "over"
                                        ELSE IF stays THEN @ ELSE "down"]
         /\ queue' = [queue EXCEPT ![v] = IF stays THEN Tail(@) ELSE <<>>]
  /\ UNCHANGED <<bus, faults>>

(* The server ends the response; the client takes that for an error too.    *)
StreamEnds(v) ==
  /\ conn[v] \in {"live", "stored"}
  /\ queue[v] # <<>> /\ Head(queue[v]) = End
  /\ conn' = [conn EXCEPT ![v] = "down"]
  /\ queue' = [queue EXCEPT ![v] = <<>>]
  /\ UNCHANGED <<bus, page, faults>>

(* The connection breaks, with whatever was on its way.                     *)
Drop(v) ==
  /\ conn[v] \in {"live", "stored"}
  /\ drops < MaxDrops
  /\ drops' = drops + 1
  /\ conn' = [conn EXCEPT ![v] = "down"]
  /\ queue' = [queue EXCEPT ![v] = <<>>]
  /\ UNCHANGED <<bus, page, writeErrors, deaths>>

(* The page is reloaded; it adopts the run again, from 0, if the run is     *)
(* still in flight.                                                         *)
Reload(v) ==
  /\ emitter \notin {"exited", "dead"}
  /\ drops < MaxDrops
  /\ drops' = drops + 1
  /\ conn' = [conn EXCEPT ![v] = "down"]
  /\ queue' = [queue EXCEPT ![v] = <<>>]
  /\ lastSeq' = [lastSeq EXCEPT ![v] = 0]
  /\ got' = [got EXCEPT ![v] = <<>>]
  /\ view' = [view EXCEPT ![v] = reduce(@, Frame(0, "reset"))]
  /\ UNCHANGED <<bus, writeErrors, deaths>>

EmitterStep == \/ \E event \in {"phase", "error"} : Narrate(event)
               \/ CloseDone \/ CloseSubs \/ Exit
ViewerStep(v) == Connect(v) \/ Deliver(v) \/ StreamEnds(v)

Next ==
  \/ EmitterStep
  \/ Die
  \/ \E v \in Viewers : ViewerStep(v) \/ Drop(v) \/ Reload(v)

Spec == Init /\ [][Next]_vars

(* The run thread goes on to its end and the browser keeps retrying.        *)
FairSpec == /\ Spec
            /\ WF_vars(EmitterStep)
            /\ \A v \in Viewers : WF_vars(ViewerStep(v))
-----------------------------------------------------------------------------
(* No frame is handed over twice or out of order, across reconnections,      *)
(* restarts and the change from the live queue to the journal (router.py     *)
(* stream; api.ts:79).                                                       *)
StrictlyForward ==
  \A v \in Viewers : \A i, j \in 1..Len(got[v]) : i < j => got[v][i] < got[v][j]

(* Whatever a viewer was shown is in the journal already, so that a restart  *)
(* or a replay never knows less than a screen did (bus.py:53-58).            *)
SeenIsJournaled ==
  journaled /\ writeErrors = 0 =>
    \A v \in Viewers : ToSet(got[v]) \subseteq ToSet(disk)

(* While the process lives and its journal can be written, a viewer skips    *)
(* only frames that have fallen out of the ring.                             *)
SkipsOnlyEvicted ==
  writeErrors = 0 =>
    \A v \in Viewers : \A n \in 1..lastSeq[v] :
      n \in ToSet(got[v]) \/ n \notin ToSet(ring)

(* Every viewer learns that the run is over, whatever connections break,     *)
(* unless the server dies or its journal cannot be written.                  *)
DoneReaches ==
  \A v \in Viewers : <>[](conn[v] = "over" \/ deaths > 0 \/ writeErrors > 0)

(* The page has counted with its stream and is done when that is; and if no  *)
(* frame was skipped it shows what one shows that saw the run from the       *)
(* beginning without a break, the page of a second viewer or of a replay     *)
(* (state.ts:56-105, useLiveLab.ts:72-86).                                   *)
ViewIsOfRun ==
  \A v \in Viewers :
    /\ view[v].lastSeq = lastSeq[v]
    /\ view[v].done = (conn[v] = "over")
    /\ Len(got[v]) = lastSeq[v] => view[v] = WholeView(lastSeq[v])

(* Nothing a viewer was shown is missing from the journal, and nothing but   *)
(* what left the ring is missing from what the viewer was shown and from     *)
(* what its page makes of it (bus.py:48-75).                                 *)
NothingIsLost == SeenIsJournaled /\ SkipsOnlyEvicted /\ ViewIsOfRun
=============================================================================
