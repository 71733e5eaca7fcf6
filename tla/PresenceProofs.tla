--------------------------- MODULE PresenceProofs ---------------------------
(***************************************************************************)
(* A connected agent misses no waiting job, for any number of connections, *)
(* jobs, commands and restarts of the API.  What makes it so is the order  *)
(* in authenticate(): the room is joined before the waiting jobs are       *)
(* looked up, so that a job is either found or announced to the room.      *)
(***************************************************************************)
EXTENDS KioskPresence, TLAPS

\* A socket that is open and past authenticate's first step is in the room.
RoomAgrees == \A c \in Conns : conn[c].up /\ conn[c].phase \notin {"unused", "auth"} => conn[c].room

\* What the agent has yet to hear of is on its way, or about to be sent.
Coming(c, j) ==
  \/ j \in heard \cup unsent \/ <<c, j>> \in wire
  \/ conn[c].phase = "emit" /\ j \in conn[c].found

CatchUpAgrees ==
  link \in Conns /\ conn[link].up /\ conn[link].phase \in {"emit", "ready"} =>
    \A j \in Jobs : job[j] = "queued" => Coming(link, j)

PresenceInv == TypeOK /\ RoomAgrees /\ CatchUpAgrees

\* The rows that the writers of the kiosk's row store are rows.
LEMMA RowFacts ==
  ASSUME row \in Rows
  PROVE  /\ Connected(row) \in Rows /\ Gone(row) \in Rows
         /\ \A b \in Beats : Heard(row, b) \in Rows
         /\ \A cmd : Commanded(row, cmd) \in Rows
<1>1. Connected(row) \in Rows /\ Gone(row) \in Rows
  BY DEF Connected, Gone, Rows
<1>2. ASSUME NEW b \in Beats PROVE Heard(row, b) \in Rows
  BY <1>1 DEF Heard, Rows, Beats
<1>3. ASSUME NEW cmd PROVE Commanded(row, cmd) \in Rows
  BY <1>1 DEF Commanded, Rows
<1> QED BY <1>1, <1>2, <1>3

\* At the start nobody is connected.
LEMMA InitPresence == PresenceInit => PresenceInv
<1> SUFFICES ASSUME PresenceInit PROVE PresenceInv
  OBVIOUS
<1>1. row \in Rows
  BY RowAssumption DEF PresenceInit, NewRow, Rows
<1>2. conn \in [Conns -> Sockets] /\ \A c \in Conns : ~conn[c].room /\ conn[c].phase = "unused"
  BY DEF PresenceInit, Unused, Sockets
<1>3. TypeOK
  BY <1>1, <1>2, PresenceAssumption DEF PresenceInit, TypeOK
<1> QED BY <1>2, <1>3 DEF PresenceInit, PresenceInv, RoomAgrees, CatchUpAgrees, Conns

\* Messages to the room reach the socket of every agent that has caught up.
LEMMA RoomHears ==
  ASSUME PresenceInv, NEW S \in SUBSET (Jobs \cup {Reboot}), ToRoom(S)
  PROVE  /\ wire' \subseteq Conns \X (Jobs \cup {Reboot}) /\ wire \subseteq wire'
         /\ \A c \in Conns : conn[c].room => \A m \in S : <<c, m>> \in wire'
  BY DEF PresenceInv, TypeOK, ToRoom, Room

\* The steps of authenticate().
LEMMA ConnectionSteps ==
  ASSUME PresenceInv, NEW c \in Conns,
         Connect(c) \/ Authenticate(c) \/ MarkOnline(c) \/ FindPending(c) \/ EmitPending(c)
  PROVE  PresenceInv'
<1> USE DEF agent, bounds
<1>0. TypeOK /\ conn[c] \in Sockets
  BY DEF PresenceInv, TypeOK
<1>1. CASE Connect(c)
  <2>1. conn' = [conn EXCEPT ![c].phase = "auth", ![c].up = TRUE] /\ link' = c
    BY <1>1 DEF Connect
  <2>2. /\ conn' \in [Conns -> Sockets] /\ conn'[c].phase = "auth" /\ conn'[c].up
        /\ conn'[c].room = conn[c].room
        /\ \A d \in Conns : d # c => conn'[d] = conn[d]
    BY <1>0, <2>1 DEF TypeOK, Sockets
  <2>3. TypeOK'
    BY <1>0, <1>1, <2>1, <2>2 DEF Connect, TypeOK
  <2> QED BY <2>1, <2>2, <2>3 DEF PresenceInv, RoomAgrees, CatchUpAgrees
<1>2. CASE Authenticate(c)
  <2>1. conn' = [conn EXCEPT ![c].phase = "mark", ![c].room = conn[c].up]
    BY <1>2 DEF Authenticate
  <2>2. /\ conn' \in [Conns -> Sockets] /\ conn'[c].phase = "mark" /\ conn'[c].up = conn[c].up
        /\ conn'[c].room = conn[c].up
        /\ \A d \in Conns : d # c => conn'[d] = conn[d]
    BY <1>0, <2>1 DEF TypeOK, Sockets
  <2>3. TypeOK'
    BY <1>0, <1>2, <2>2 DEF Authenticate, TypeOK
  <2> QED BY <1>2, <2>2, <2>3 DEF Authenticate, PresenceInv, RoomAgrees, CatchUpAgrees, Coming
<1>3. CASE MarkOnline(c)
  <2>1. conn' = [conn EXCEPT ![c].phase = "find"] /\ conn[c].phase = "mark"
    BY <1>3 DEF MarkOnline
  <2>2. /\ conn' \in [Conns -> Sockets] /\ conn'[c].phase = "find" /\ conn'[c].up = conn[c].up
        /\ conn'[c].room = conn[c].room
        /\ \A d \in Conns : d # c => conn'[d] = conn[d]
    BY <1>0, <2>1 DEF TypeOK, Sockets
  <2>3. TypeOK'
    BY <1>0, <1>3, <2>2, RowFacts DEF MarkOnline, TypeOK
  <2> QED BY <1>3, <2>1, <2>2, <2>3 DEF MarkOnline, PresenceInv, RoomAgrees, CatchUpAgrees, Coming
<1>4. CASE FindPending(c)
  <2>1. /\ conn' = [conn EXCEPT ![c].phase = "emit", ![c].found = {j \in Jobs : job[j] = "queued"}]
        /\ conn[c].phase = "find"
    BY <1>4 DEF FindPending
  <2>2. /\ conn' \in [Conns -> Sockets] /\ conn'[c].phase = "emit" /\ conn'[c].up = conn[c].up
        /\ conn'[c].room = conn[c].room /\ conn'[c].found = {j \in Jobs : job[j] = "queued"}
        /\ \A d \in Conns : d # c => conn'[d] = conn[d]
    BY <1>0, <2>1 DEF TypeOK, Sockets
  <2>3. TypeOK'
    BY <1>0, <1>4, <2>2 DEF FindPending, TypeOK
  <2> QED BY <1>4, <2>1, <2>2, <2>3 DEF FindPending, PresenceInv, RoomAgrees, CatchUpAgrees, Coming
<1>5. CASE EmitPending(c)
  <2>1. /\ conn' = [conn EXCEPT ![c].phase = "ready", ![c].found = {}]
        /\ conn[c].phase = "emit" /\ conn[c].found \subseteq Jobs
    BY <1>0, <1>5 DEF EmitPending, Sockets
  <2>2. /\ conn' \in [Conns -> Sockets] /\ conn'[c].phase = "ready" /\ conn'[c].up = conn[c].up
        /\ conn'[c].room = conn[c].room
        /\ \A d \in Conns : d # c => conn'[d] = conn[d]
    BY <1>0, <2>1 DEF TypeOK, Sockets
  <2>3. /\ wire' \subseteq Conns \X (Jobs \cup {Reboot}) /\ wire \subseteq wire'
        /\ conn[c].room => \A j \in conn[c].found : <<c, j>> \in wire'
    BY <1>5, <2>1, RoomHears DEF EmitPending
  <2>4. TypeOK'
    BY <1>0, <1>5, <2>2, <2>3 DEF EmitPending, TypeOK
  <2>5. RoomAgrees'
    BY <2>1, <2>2 DEF PresenceInv, RoomAgrees
  <2>6. CatchUpAgrees'
    <3>1. UNCHANGED <<job, unsent, heard, link>>
      BY <1>5 DEF EmitPending
    <3>2. CASE link = c
      BY <2>1, <2>2, <2>3, <3>1, <3>2 DEF PresenceInv, RoomAgrees, CatchUpAgrees, Coming
    <3>3. CASE link # c
      BY <2>2, <2>3, <3>1, <3>3 DEF PresenceInv, CatchUpAgrees, Coming
    <3> QED BY <3>2, <3>3
  <2> QED BY <2>4, <2>5, <2>6 DEF PresenceInv
<1> QED BY <1>1, <1>2, <1>3, <1>4, <1>5

\* Connections that end: whoever catches up later starts anew.
LEMMA EndSteps ==
  ASSUME PresenceInv,
         \/ CutAtAgent \/ RestartAPI \/ \E again \in BOOLEAN : AgentStops(again)
         \/ \E c \in Conns : Close(c) \/ DeliverReboot(c)
  PROVE  PresenceInv'
<1> USE DEF agent, bounds
<1>0. TypeOK
  BY DEF PresenceInv
<1>z. 0 \notin Conns
  BY DEF Conns
<1>1. CASE CutAtAgent \/ (\E again \in BOOLEAN : AgentStops(again)) \/ \E c \in Conns : DeliverReboot(c)
  <2>1. /\ link' = 0 /\ wire' \subseteq wire /\ heard' \subseteq heard /\ on' \in BOOLEAN
        /\ UNCHANGED <<row, conn, job, unsent, beats, bounds>>
    BY <1>0, <1>1 DEF CutAtAgent, AgentStops, DeliverReboot, OffLine, TypeOK
  <2>2. TypeOK'
    BY <1>0, <2>1 DEF TypeOK
  <2> QED BY <1>z, <2>1, <2>2 DEF PresenceInv, RoomAgrees, CatchUpAgrees
<1>2. ASSUME NEW c \in Conns, Close(c) PROVE PresenceInv'
  <2>1. /\ conn' \in [Conns -> Sockets] /\ ~conn'[c].up /\ ~conn'[c].room
        /\ \A d \in Conns : d # c => conn'[d] = conn[d]
    <3>1. PICK t \in {"never", "armed"} :
            conn' = [conn EXCEPT ![c].up = FALSE, ![c].room = FALSE, ![c].timer = t]
      BY <1>2 DEF Close, Closed
    <3>2. conn \in [Conns -> Sockets]
      BY <1>0 DEF TypeOK
    <3> DEFINE s == [conn[c] EXCEPT !.up = FALSE, !.room = FALSE, !.timer = t]
    <3>3. s \in Sockets /\ ~s.up /\ ~s.room
      BY <3>2 DEF Sockets
    <3>4. conn' = [conn EXCEPT ![c] = s]
      BY <3>1, <3>2
    <3> HIDE DEF s
    <3> QED BY <3>2, <3>3, <3>4
  <2>2. /\ wire' \subseteq wire /\ \A m \in wire : m[1] # c => m \in wire'
        /\ beats' \subseteq beats /\ UNCHANGED <<row, job, unsent, on, link, heard, bounds>>
    BY <1>2 DEF Close, OffLine
  <2>3. TypeOK'
    BY <1>0, <2>1, <2>2 DEF TypeOK
  <2>4. RoomAgrees'
    BY <2>1 DEF PresenceInv, RoomAgrees
  <2>5. CatchUpAgrees'
    <3>1. \A j : <<link, j>> \in wire /\ link # c => <<link, j>> \in wire'
      BY <2>2
    <3> QED BY <2>1, <2>2, <3>1 DEF PresenceInv, CatchUpAgrees, Coming
  <2> QED BY <2>3, <2>4, <2>5 DEF PresenceInv
<1>3. CASE RestartAPI
  <2>1. conn' \in [Conns -> Sockets] /\ \A c \in Conns : ~conn'[c].up /\ ~conn'[c].room
    BY <1>0, <1>3 DEF RestartAPI, Unused, TypeOK, Sockets
  <2>2. restarts' \in 0 .. MaxRestarts
    <3>1. restarts \in 0 .. MaxRestarts /\ restarts < MaxRestarts /\ restarts' = restarts + 1
      BY <1>0, <1>3 DEF RestartAPI, TypeOK
    <3> QED BY <3>1, PresenceAssumption
  <2>3. TypeOK'
    BY <1>0, <1>3, <2>1, <2>2 DEF RestartAPI, TypeOK
  <2> QED BY <2>1, <2>3 DEF PresenceInv, RoomAgrees, CatchUpAgrees
<1> QED BY <1>1, <1>2, <1>3

\* The timer of handleDisconnect and heartbeats change neither jobs nor messages.
LEMMA TimerSteps ==
  ASSUME PresenceInv, Beat \/ \E c \in Conns : LookForOthers(c) \/ MarkOffline(c) \/ StoreBeat(c)
  PROVE  PresenceInv'
<1> USE DEF agent, bounds
<1>0. TypeOK
  BY DEF PresenceInv
<1>1. /\ UNCHANGED <<job, unsent, wire, on, link, heard, restarts, commands>>
      /\ row' \in Rows /\ beats' \subseteq Conns
  BY <1>0, RowFacts DEF Beat, LookForOthers, MarkOffline, StoreBeat, TypeOK
<1>2. /\ conn' \in [Conns -> Sockets]
      /\ \A c \in Conns : /\ conn'[c].up = conn[c].up /\ conn'[c].room = conn[c].room
                         /\ conn'[c].phase = conn[c].phase /\ conn'[c].found = conn[c].found
  <2>1. UNCHANGED conn \/ \E c \in Conns : \E t \in {"write", "done"} : conn' = [conn EXCEPT ![c].timer = t]
    BY DEF Beat, LookForOthers, MarkOffline, StoreBeat
  <2>2. conn \in [Conns -> Sockets]
    BY <1>0 DEF TypeOK
  <2>3. ASSUME NEW c \in Conns, NEW t \in {"write", "done"}, conn' = [conn EXCEPT ![c].timer = t]
        PROVE  /\ conn' \in [Conns -> Sockets]
               /\ \A d \in Conns : /\ conn'[d].up = conn[d].up /\ conn'[d].room = conn[d].room
                                  /\ conn'[d].phase = conn[d].phase /\ conn'[d].found = conn[d].found
    BY <2>2, <2>3 DEF Sockets
  <2> QED BY <2>1, <2>2, <2>3
<1>3. TypeOK'
  BY <1>0, <1>1, <1>2 DEF TypeOK
<1> QED BY <1>1, <1>2, <1>3 DEF PresenceInv, RoomAgrees, CatchUpAgrees, Coming

\* Jobs, announcements, commands and what the agent hears.
LEMMA JobSteps ==
  ASSUME PresenceInv,
         \/ \E j \in Jobs : Queue(j) \/ Announce(j) \/ Leave(j)
         \/ \E cmd \in Commands : Command(cmd)
         \/ \E c \in Conns, j \in Jobs : DeliverJob(c, j)
  PROVE  PresenceInv'
<1> USE DEF agent, bounds
<1>0. TypeOK
  BY DEF PresenceInv
<1>1. ASSUME NEW j \in Jobs, Queue(j) \/ Leave(j) PROVE PresenceInv'
  <2>1. /\ UNCHANGED <<row, conn, wire, beats, on, link, heard, restarts, commands>>
        /\ unsent \subseteq unsent' /\ unsent' \subseteq Jobs
    BY <1>0, <1>1 DEF Queue, Leave, TypeOK
  <2>2. /\ job' \in [Jobs -> {"new", "queued", "left"}]
        /\ \A i \in Jobs : job'[i] = "queued" => job[i] = "queued" \/ i \in unsent'
    BY <1>0, <1>1 DEF Queue, Leave, TypeOK
  <2>3. TypeOK'
    BY <1>0, <2>1, <2>2 DEF TypeOK
  <2> QED BY <2>1, <2>2, <2>3 DEF PresenceInv, RoomAgrees, CatchUpAgrees, Coming
<1>2. ASSUME NEW j \in Jobs, Announce(j) PROVE PresenceInv'
  <2>1. /\ wire' \subseteq Conns \X (Jobs \cup {Reboot}) /\ wire \subseteq wire'
        /\ \A c \in Conns : conn[c].room => <<c, j>> \in wire'
    BY <1>2, RoomHears DEF Announce
  <2>2. /\ unsent' = unsent \ {j}
        /\ UNCHANGED <<row, conn, job, beats, on, link, heard, restarts, commands>>
    BY <1>2 DEF Announce
  <2>3. TypeOK'
    BY <1>0, <2>1, <2>2 DEF TypeOK
  <2> QED BY <2>1, <2>2, <2>3 DEF PresenceInv, RoomAgrees, CatchUpAgrees, Coming
<1>3. ASSUME NEW cmd \in Commands, Command(cmd) PROVE PresenceInv'
  <2>1. wire' \subseteq Conns \X (Jobs \cup {Reboot}) /\ wire \subseteq wire'
    BY <1>3, RoomHears DEF Command
  <2>2. row' \in Rows /\ commands' \in 0 .. MaxCommands
    BY <1>0, <1>3, RowFacts, PresenceAssumption DEF Command, TypeOK
  <2>3. UNCHANGED <<conn, job, unsent, beats, on, link, heard, restarts>>
    BY <1>3 DEF Command
  <2>4. TypeOK'
    BY <1>0, <2>1, <2>2, <2>3 DEF TypeOK
  <2> QED BY <2>1, <2>3, <2>4 DEF PresenceInv, RoomAgrees, CatchUpAgrees, Coming
<1>4. ASSUME NEW c \in Conns, NEW j \in Jobs, DeliverJob(c, j) PROVE PresenceInv'
  <2>1. /\ wire' = wire \ {<<c, j>>} /\ heard' = heard \cup {j}
        /\ UNCHANGED <<row, conn, job, unsent, beats, on, link, restarts, commands>>
    BY <1>4 DEF DeliverJob
  <2>2. TypeOK'
    BY <1>0, <2>1 DEF TypeOK
  <2>3. \A i : i # j /\ <<link, i>> \in wire => <<link, i>> \in wire'
    BY <2>1
  <2> QED BY <2>1, <2>2, <2>3 DEF PresenceInv, RoomAgrees, CatchUpAgrees, Coming
<1> QED BY <1>1, <1>2, <1>3, <1>4

\* Every step keeps what connections and messages say of each other.
LEMMA NextPresence == PresenceInv /\ [PresenceNext]_presenceVars => PresenceInv'
<1> SUFFICES ASSUME PresenceInv, [PresenceNext]_presenceVars PROVE PresenceInv'
  OBVIOUS
<1>1. CASE UNCHANGED presenceVars
  BY <1>1 DEF presenceVars, PresenceInv, TypeOK, RoomAgrees, CatchUpAgrees, Coming
<1> QED BY <1>1, ConnectionSteps, EndSteps, TimerSteps, JobSteps DEF PresenceNext, Handlers, Deliver

\* The types of the state of KioskPresence, and the room: a socket that has gone is
\* in no room, also when it went while authenticate() was at work.
THEOREM PresenceTypes == PresenceSpec => []TypeOK
<1>1. PresenceInv => TypeOK
  BY DEF PresenceInv
<1> QED BY <1>1, InitPresence, NextPresence, PTL DEF PresenceSpec

\* An agent whose connection is authenticated and caught up misses no job that
\* waits at its kiosk, whatever ended before and whenever jobs were queued.
THEOREM NoJobFallsBetween == PresenceSpec => []NoJobIsMissed
<1>1. PresenceInv => NoJobIsMissed
  BY DEF PresenceInv, CatchUpAgrees, Coming, NoJobIsMissed, Served
<1> QED BY <1>1, InitPresence, NextPresence, PTL DEF PresenceSpec
=============================================================================
