---------------------------- MODULE KioskPresence -----------------------------
(***************************************************************************)
(* How the API follows one kiosk (kiosk.gateway.ts): the connections of    *)
(* its agent, the row that says whether it is there, and the announcement  *)
(* of jobs that were paid for.  Either end may notice first that a         *)
(* connection is gone; the API and the agent may restart.                  *)
(***************************************************************************)
EXTENDS KioskRow

CONSTANTS
  Jobs,          \* jobs of this kiosk
  MaxConns,      \* bound: connections of the agent
  MaxRestarts,   \* bound: restarts of the API
  MaxCommands    \* bound: commands of administrators

ASSUME PresenceAssumption == MaxConns \in Nat /\ MaxRestarts \in Nat /\ MaxCommands \in Nat

Conns == 1 .. MaxConns

VARIABLES
  row,        \* the kiosk's row
  conn,       \* the API's sockets
  job,        \* new, queued (paid for, with a code that is valid), or left
  unsent,     \* jobs that markPaidAndQueue has stored and has yet to announce
  wire,       \* <<connection, message>>, on their way to the agent
  beats,      \* connections with a heartbeat on its way or being stored
  on, link,   \* the agent: is it switched on; its connection, or 0
  heard,      \* the agent: the jobs it knows of
  restarts, commands
presenceVars == <<row, conn, job, unsent, wire, beats, on, link, heard, restarts, commands>>
agent  == <<on, link, heard>>
bounds == <<restarts, commands>>

\* phase: where authenticate() is; found: what its query has found; room: the
\* socket has joined the kiosk's room; timer: the one that handleDisconnect
\* sets, "never" if it had no kioskId to set one for, "lost" in a restart.
Sockets == [phase : {"unused", "auth", "mark", "find", "emit", "ready"}, up : BOOLEAN,
            room : BOOLEAN, found : SUBSET Jobs,
            timer : {"none", "armed", "write", "done", "never", "lost"}]
Unused  == [phase |-> "unused", up |-> FALSE, room |-> FALSE, found |-> {}, timer |-> "none"]

PresenceInit ==
  /\ row = NewRow /\ conn = [c \in Conns |-> Unused] /\ job = [j \in Jobs |-> "new"]
  /\ unsent = {} /\ wire = {} /\ beats = {} /\ on = TRUE /\ link = 0 /\ heard = {}
  /\ restarts = 0 /\ commands = 0

Reboot == "reboot_agent"
Room == {c \in Conns : conn[c].room}
ToRoom(messages) == wire' = wire \cup (Room \X messages)

(***************************************************************************)
(* A connection: authenticate(), one step per await.                       *)
(***************************************************************************)
Connect(c) ==
  /\ on /\ link = 0 /\ conn[c].phase = "unused" /\ \A d \in Conns : d < c => conn[d].phase # "unused"
  /\ link' = c /\ conn' = [conn EXCEPT ![c].phase = "auth", ![c].up = TRUE]
  /\ UNCHANGED <<row, job, unsent, wire, beats, on, heard, bounds>>

\* The secret is right: the socket gets its kioskId and joins the room, unless
\* it has gone in the meantime (join is then without effect).
Authenticate(c) ==
  /\ conn[c].phase = "auth"
  /\ conn' = [conn EXCEPT ![c].phase = "mark", ![c].room = conn[c].up]
  /\ UNCHANGED <<row, job, unsent, wire, beats, agent, bounds>>

\* Mutant: no catch-up for a kiosk that is back before it was marked OFFLINE.
MarkOnlineOnce(c) ==
  /\ conn[c].phase = "mark"
  /\ row' = Connected(row)
  /\ conn' = [conn EXCEPT ![c].phase = IF row.status = "ONLINE" THEN "ready" ELSE "find"]
  /\ UNCHANGED <<job, unsent, wire, beats, agent, bounds>>

MarkOnline(c) ==
  /\ conn[c].phase = "mark"
  /\ row' = Connected(row) /\ conn' = [conn EXCEPT ![c].phase = "find"]
  /\ UNCHANGED <<job, unsent, wire, beats, agent, bounds>>

FindPending(c) ==
  /\ conn[c].phase = "find"
  /\ conn' = [conn EXCEPT ![c].phase = "emit", ![c].found = {j \in Jobs : job[j] = "queued"}]
  /\ UNCHANGED <<row, job, unsent, wire, beats, agent, bounds>>

EmitPending(c) ==
  /\ conn[c].phase = "emit"
  /\ ToRoom(conn[c].found)
  /\ conn' = [conn EXCEPT ![c].phase = "ready", ![c].found = {}]
  /\ UNCHANGED <<row, job, unsent, beats, agent, bounds>>

(***************************************************************************)
(* Connections end: at the agent's side, at the API's, or by a restart.    *)
(* While no spare connection is left of the bound, the last one lasts until *)
(* the agent is switched off.                                              *)
(***************************************************************************)
Spare == \E c \in Conns : conn[c].phase = "unused"

OffLine(c) == wire' = {m \in wire : m[1] # c}

CutAtAgent ==
  /\ link \in Conns /\ (Spare \/ ~conn[link].up)
  /\ link' = 0 /\ OffLine(link)
  /\ UNCHANGED <<row, conn, job, unsent, beats, on, heard, bounds>>

\* The API closes the socket.  A heartbeat that was on its way is lost, one
\* whose handler runs is not.
Closed(c) ==
  [conn EXCEPT ![c].up = FALSE, ![c].room = FALSE,
               ![c].timer = IF conn[c].phase = "auth" THEN "never" ELSE "armed"]

Close(c) ==
  /\ conn[c].up /\ (link # c \/ Spare)
  /\ conn' = Closed(c) /\ OffLine(c) /\ beats' \in {beats, beats \ {c}}
  /\ UNCHANGED <<row, job, unsent, agent, bounds>>

AgentStops(again) ==
  /\ on /\ (again => Spare)
  /\ on' = again /\ link' = 0 /\ heard' = {} /\ OffLine(link)
  /\ UNCHANGED <<row, conn, job, unsent, beats, bounds>>

\* Handlers, timers and rooms are lost; the agent notices later.
RestartAPI ==
  /\ restarts < MaxRestarts /\ restarts' = restarts + 1 /\ Spare
  /\ conn' = [c \in Conns |-> IF conn[c].phase = "unused" THEN Unused
                              ELSE [Unused EXCEPT !.phase = "ready",
                                      !.timer = IF conn[c].timer = "done" THEN "done" ELSE "lost"]]
  /\ unsent' = {} /\ wire' = {} /\ beats' = {}
  /\ UNCHANGED <<row, job, agent, commands>>

(***************************************************************************)
(* The timer of handleDisconnect.  Its two seconds are taken to be longer  *)
(* than what the socket's own handlers still have to do.                   *)
(***************************************************************************)
\* Mutant: no delay.
LookForOthersAtOnce(c) ==
  /\ conn[c].timer = "armed"
  /\ conn' = [conn EXCEPT ![c].timer = IF Room = {} THEN "write" ELSE "done"]
  /\ UNCHANGED <<row, job, unsent, wire, beats, agent, bounds>>

LookForOthers(c) ==
  /\ conn[c].timer = "armed" /\ conn[c].phase = "ready" /\ c \notin beats
  /\ conn' = [conn EXCEPT ![c].timer = IF Room = {} THEN "write" ELSE "done"]
  /\ UNCHANGED <<row, job, unsent, wire, beats, agent, bounds>>

MarkOffline(c) ==
  /\ conn[c].timer = "write"
  /\ row' = Gone(row) /\ conn' = [conn EXCEPT ![c].timer = "done"]
  /\ UNCHANGED <<job, unsent, wire, beats, agent, bounds>>

(***************************************************************************)
(* Heartbeats, jobs and commands.                                          *)
(***************************************************************************)
Beat ==
  /\ link \in Conns /\ conn[link].up /\ link \notin beats
  /\ beats' = beats \cup {link}
  /\ UNCHANGED <<row, conn, job, unsent, wire, agent, bounds>>

\* onHeartbeat waits until the socket is authenticated.
StoreBeat(c) ==
  /\ c \in beats /\ conn[c].phase = "ready" /\ beats' = beats \ {c}
  /\ \E b \in Beats : row' = Heard(row, b)
  /\ UNCHANGED <<conn, job, unsent, wire, agent, bounds>>

\* markPaidAndQueue stores the job and tells the room later.
Queue(j) ==
  /\ job[j] = "new" /\ job' = [job EXCEPT ![j] = "queued"] /\ unsent' = unsent \cup {j}
  /\ UNCHANGED <<row, conn, wire, beats, agent, bounds>>

\* Mutant: a job is announced only to a kiosk that the row has as ONLINE.
AnnounceOnline(j) ==
  /\ j \in unsent /\ unsent' = unsent \ {j}
  /\ ToRoom(IF row.status = "ONLINE" THEN {j} ELSE {})
  /\ UNCHANGED <<row, conn, job, beats, agent, bounds>>

Announce(j) ==
  /\ j \in unsent /\ unsent' = unsent \ {j} /\ ToRoom({j})
  /\ UNCHANGED <<row, conn, job, beats, agent, bounds>>

\* It is claimed, or its code expires.
Leave(j) ==
  /\ job[j] = "queued" /\ job' = [job EXCEPT ![j] = "left"]
  /\ UNCHANGED <<row, conn, unsent, wire, beats, agent, bounds>>

Command(cmd) ==
  /\ commands < MaxCommands /\ commands' = commands + 1
  /\ row' = Commanded(row, cmd) /\ ToRoom({cmd} \cap {Reboot})
  /\ UNCHANGED <<conn, job, unsent, beats, agent, restarts>>

\* The agent lists the job.
DeliverJob(c, j) ==
  /\ <<c, j>> \in wire /\ wire' = wire \ {<<c, j>>} /\ heard' = heard \cup {j}
  /\ UNCHANGED <<row, conn, job, unsent, beats, on, link, bounds>>

\* The agent's process ends, and systemd starts it again.  (Other commands
\* change what the kiosk shows or prints, see KioskAgent.)
DeliverReboot(c) ==
  /\ <<c, Reboot>> \in wire /\ Spare
  /\ link' = 0 /\ heard' = {} /\ OffLine(c)
  /\ UNCHANGED <<row, conn, job, unsent, beats, on, bounds>>

------------------------------------------------------------------------------
Handlers(c) ==
  \/ Authenticate(c) \/ MarkOnline(c) \/ FindPending(c) \/ EmitPending(c)
  \/ LookForOthers(c) \/ MarkOffline(c) \/ StoreBeat(c)

Deliver(c) == (\E j \in Jobs : DeliverJob(c, j)) \/ DeliverReboot(c)

PresenceNext ==
  \/ \E c \in Conns : Connect(c) \/ Close(c) \/ Handlers(c) \/ Deliver(c)
  \/ CutAtAgent \/ RestartAPI \/ Beat
  \/ \E again \in BOOLEAN : AgentStops(again)
  \/ \E j \in Jobs : Queue(j) \/ Announce(j) \/ Leave(j)
  \/ \E cmd \in Commands : Command(cmd)

PresenceSpec == PresenceInit /\ [][PresenceNext]_presenceVars

\* The agent reconnects and beats for as long as it runs, both ends notice that
\* the other one has gone, and handlers, timers and messages get on.
Fairness ==
  /\ \A c \in Conns :
       /\ WF_presenceVars(Connect(c)) /\ WF_presenceVars(link # c /\ Close(c))
       /\ \A j \in Jobs : WF_presenceVars(DeliverJob(c, j))
       /\ WF_presenceVars(DeliverReboot(c))
       /\ WF_presenceVars(Authenticate(c)) /\ WF_presenceVars(MarkOnline(c))
       /\ WF_presenceVars(FindPending(c)) /\ WF_presenceVars(EmitPending(c))
       /\ WF_presenceVars(LookForOthers(c)) /\ WF_presenceVars(MarkOffline(c))
       /\ WF_presenceVars(StoreBeat(c))
  /\ WF_presenceVars(link \in Conns /\ ~conn[link].up /\ CutAtAgent)
  /\ WF_presenceVars(Beat)
  /\ \A j \in Jobs : WF_presenceVars(Announce(j))

FairPresence == PresenceSpec /\ Fairness

------------------------------------------------------------------------------
(***************************************************************************)
(* Properties.                                                             *)
(***************************************************************************)

\* Types; and only a socket that is open is in the kiosk's room.
TypeOK ==
  /\ row \in Rows /\ conn \in [Conns -> Sockets] /\ job \in [Jobs -> {"new", "queued", "left"}]
  /\ unsent \subseteq Jobs /\ wire \subseteq Conns \X (Jobs \cup {Reboot}) /\ beats \subseteq Conns
  /\ on \in BOOLEAN /\ link \in Conns \cup {0} /\ heard \subseteq Jobs
  /\ restarts \in 0 .. MaxRestarts /\ commands \in 0 .. MaxCommands
  /\ \A c \in Conns : conn[c].room => conn[c].up

\* Once authenticate() is done with the connection that the agent uses, the agent
\* misses no job: it has listed each one that waits, or a message is on its way,
\* or markPaidAndQueue has yet to send it.  (The room is joined before the query
\* for waiting jobs, so that none falls between catch-up and announcement.)
Served(c) == c \in Conns /\ conn[c].up /\ conn[c].phase = "ready"
NoJobIsMissed ==
  Served(link) => \A j \in Jobs :
    job[j] = "queued" => j \in heard \cup unsent \/ <<link, j>> \in wire

\* A job that was paid for is made known to the agent, also when the agent was
\* away, or either side has restarted, at the time (authenticate's catch-up).
QueuedIsHeard ==
  \A j \in Jobs : (job[j] = "queued") ~> (j \in heard \/ job[j] # "queued" \/ ~on)

\* While the agent stays connected its kiosk ends ONLINE, whatever the timers
\* of its earlier connections and the administrators have written.
ConnectedEndsOnline == <>[](link # 0) => <>[](row.status = "ONLINE")

\* A kiosk that is switched off ends not ONLINE, unless a connection of its was
\* cut before it was authenticated, or the API restarted: no timer then runs.
Missed == \E c \in Conns : conn[c].timer \in {"never", "lost"}
GoneEndsOffline == <>[](~on) => <>[](row.status # "ONLINE" \/ Missed)
===============================================================================
