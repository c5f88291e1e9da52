------------------------------- MODULE Settings -------------------------------
(***************************************************************************)
(* The settings, from the window to the file and back: DaemonController    *)
(* and IpcClient of the desktop UI (ui/src), the daemon's side of the      *)
(* command socket and the settings main() keeps in memory and in           *)
(* /etc/ds4-translator.conf (src/main.cpp).                                *)
(*                                                                         *)
(* Every command is a connection of its own.  The daemon serves them one   *)
(* at a time in the order they were accepted, also those whose client has  *)
(* given up.  What a changed type or backend does to the virtual device is *)
(* Daemon's matter.                                                        *)
(***************************************************************************)
EXTENDS Integers, Sequences, FiniteSets

CONSTANTS
  Settings,    \* the settings the window asks for: records [key, to]
  Commands,    \* those of other clients; also [key |-> "virtual", to |-> type]
               \* for "create-virtual" and "silence" for nothing at all
  Backlog,     \* what listen() is told: connections that wait to be accepted
  MaxEvents,   \* commands, dialogues, restarts, slow answers and failures of a
               \* behaviour (bound)
  Faults       \* what may fail: "monitor" (the uevent socket), "open" (the
               \* file), "kill" (the daemon, in write_config)

Emulated == {"ds4", "dualsense"}
Values ==
  [type |-> Emulated \cup {"none", "hidden"},
   backend_ds4 |-> {"uhid", "functionfs"}, backend_dualsense |-> {"uhid", "functionfs"},
   hide_method |-> {"legacy", "unbind"},
   name_ds4 |-> {"default", "custom", "marked"}, name_dualsense |-> {"default", "custom", "marked"}]
Keys == DOMAIN Values

ASSUME SettingsAssumption ==
  /\ Backlog \in Nat /\ MaxEvents \in Nat
  /\ \A s \in Settings : s.key \in Keys /\ s.to \in Values[s.key]
  /\ \A c \in Commands :
       \/ c.key \in Keys /\ c.to \in Values[c.key]
       \/ c.key = "virtual" /\ c.to \in Emulated
       \/ c.key = "silence"

Status == [key |-> "status", to |-> "-"]
Led == [key |-> "led", to |-> "-"]                     \* "led ...", "identify"
Silence == [key |-> "silence", to |-> "-"]             \* a client that sends nothing
Idle == [key |-> "none", to |-> "-"]

VARIABLES
  \* the daemon
  up, mem, file,
  pending_type,      \* pending_type_change
  monitor,           \* g_hid_uevent_fd >= 0
  backlog,           \* connections it has not served: [client, command]
  \* the window
  queue, current,    \* IpcClient's m_queue and m_current
  conn,              \* its connection: "none", "connecting" (blocked there), "waiting",
                     \* or what it will read: "ok", "refused", "status", "closed"
  snapshot,          \* the settings in a status answer
  pendingCommands, interactions, online, lastMessage, view,
  \* history
  asked,             \* what the clients were told the settings are
  excused,           \* settings the file may hold another value of
  budget

daemon == <<up, mem, file, pending_type, monitor>>
client == <<queue, current, conn, snapshot>>
window == <<pendingCommands, online, lastMessage>>
history == <<asked, excused>>
vars == <<daemon, backlog, client, window, interactions, view, history, budget>>

-----------------------------------------------------------------------------
(* The configuration file *)

\* What read_config(), read_backend_config(), read_hide_method_config() and
\* read_name_config() find for a key that is not in the file.
Default ==
  [type |-> "ds4", backend_ds4 |-> "functionfs", backend_dualsense |-> "uhid",
   hide_method |-> "unbind", name_ds4 |-> "default", name_dualsense |-> "default"]

Read(f) == [k \in Keys |-> IF f[k] = "absent" THEN Default[k] ELSE f[k]]

\* A name that is not overridden has no line.
Lines(m) ==
  [k \in Keys |-> IF k \in {"name_ds4", "name_dualsense"} /\ m[k] = "default"
                  THEN "absent" ELSE m[k]]

NoLines == [k \in Keys |-> "absent"]

Spend == budget > 0 /\ budget' = budget - 1

Mut_write_config(m) ==
  /\ file' = [Lines(m) EXCEPT !.name_ds4 = IF m.type = "ds4" THEN @ ELSE "absent"]
  /\ UNCHANGED <<up, budget>>

\* The file is truncated when it is opened and written when it is closed;
\* nobody is told that it could not be opened.
write_config(m) ==
  \/ file' = Lines(m) /\ UNCHANGED <<up, budget>>
  \/ "open" \in Faults /\ Spend /\ UNCHANGED <<file, up>>
  \/ "kill" \in Faults /\ Spend /\ file' = NoLines /\ up' = FALSE

Written == UNCHANGED <<up, budget>>

-----------------------------------------------------------------------------
(* IpcClient: one connection at a time. *)

IsSetting(c) == c.key \in Keys
Unanswered(q) == Cardinality({i \in DOMAIN q : IsSetting(q[i])})
Errors == {"refused", "failure"}

\* A failed status keeps the text of the command the user ran.
Failed(m, q) ==
  IF m = "" \/ \E i \in DOMAIN q : q[i] # Status THEN "failure" ELSE m

\* The daemon waits in read() for a client that sends nothing.
Stuck(lines) == up /\ lines # <<>> /\ Head(lines) = [client |-> "ctl", command |-> Silence]

\* The kernel queues one connection more than listen() says, besides the one
\* that is being served.
Room(lines) == Len(lines) <= Backlog + (IF Stuck(lines) THEN 1 ELSE 0)

\* send() and startNext() with the commands q to come: the next one is connected,
\* which blocks while the kernel's queue is full, and written; without a daemon
\* every one of them fails here.
startNext(q, p, on, m, lines) ==
  /\ snapshot' = Default
  /\ IF q # <<>> /\ up
     THEN /\ current' = Head(q) /\ queue' = Tail(q)
          /\ conn' = IF Room(lines) THEN "waiting" ELSE "connecting"
          /\ backlog' = IF Room(lines)
                        THEN Append(lines, [client |-> "ui", command |-> Head(q)])
                        ELSE lines
     ELSE /\ current' = Idle /\ conn' = "none" /\ queue' = <<>>
          /\ backlog' = lines
  /\ IF q # <<>> /\ ~up
     THEN /\ pendingCommands' = p - Unanswered(q)
          /\ online' = FALSE
          /\ lastMessage' = Failed(m, q)
     ELSE pendingCommands' = p /\ online' = on /\ lastMessage' = m

send(c, p) ==
  IF conn = "none"
  THEN startNext(<<c>>, p, online, lastMessage, backlog)
  ELSE /\ queue' = Append(queue, c)
       /\ pendingCommands' = p
       /\ UNCHANGED <<backlog, current, conn, snapshot, online, lastMessage>>

Mut_Settled(c) == pendingCommands - 1

\* One command fewer is waited for, if a setting was.
Settled(c) == IF IsSetting(c) THEN pendingCommands - 1 ELSE pendingCommands

Mut_fails ==
  /\ startNext(<<>>, Settled(current), FALSE, Failed(lastMessage, <<current>>),
               [i \in DOMAIN backlog |->
                  IF backlog[i].client = "ui" THEN [backlog[i] EXCEPT !.client = "gone"]
                  ELSE backlog[i]])
  /\ UNCHANGED view

\* finish(false) and onReplyReady(): the connection is closed, whatever becomes
\* of the command.
fails ==
  /\ startNext(queue, Settled(current), FALSE, Failed(lastMessage, <<current>>),
               [i \in DOMAIN backlog |->
                  IF backlog[i].client = "ui" THEN [backlog[i] EXCEPT !.client = "gone"]
                  ELSE backlog[i]])
  /\ UNCHANGED view

\* setOnline(true): an error shown while the daemon was away goes.
Recovered == IF ~online /\ lastMessage \in Errors THEN "" ELSE lastMessage

\* The daemon's view is read again after each setting, not after a test.
answered ==
  IF IsSetting(current)
  THEN /\ startNext(Append(queue, Status), Settled(current), TRUE, conn, backlog)
       /\ UNCHANGED view
  ELSE /\ startNext(queue, Settled(current), TRUE,
                    IF conn = "refused" THEN conn ELSE Recovered, backlog)
       /\ view' = IF conn = "status" THEN snapshot ELSE view

\* The daemon closes every connection after its answer.
onReadable ==
  /\ conn \notin {"none", "connecting", "waiting"}
  /\ IF conn = "closed" THEN fails ELSE answered
  /\ UNCHANGED <<daemon, interactions, history, budget>>

\* connect() returns; the window did nothing else meanwhile.
connects ==
  /\ conn = "connecting"
  /\ IF up
     THEN /\ Room(backlog)
          /\ conn' = "waiting"
          /\ backlog' = Append(backlog, [client |-> "ui", command |-> current])
          /\ UNCHANGED <<queue, current, snapshot, window, view>>
     ELSE fails
  /\ UNCHANGED <<daemon, interactions, history, budget>>

\* Ten seconds without an answer: the daemon is stuck or busy.
onTimeout ==
  /\ conn = "waiting"
  /\ IF Stuck(backlog) THEN UNCHANGED budget ELSE Spend
  /\ fails
  /\ UNCHANGED <<daemon, interactions, history>>

-----------------------------------------------------------------------------
(* DaemonController *)

isBusy == conn # "none" \/ queue # <<>>

Mut_refreshStatus ==
  /\ ~isBusy /\ interactions = 0
  /\ ~online
  /\ send(Status, pendingCommands)
  /\ UNCHANGED <<daemon, interactions, view, history, budget>>

\* Every two seconds.
refreshStatus ==
  /\ ~isBusy /\ interactions = 0
  /\ send(Status, pendingCommands)
  /\ UNCHANGED <<daemon, interactions, view, history, budget>>

\* sendCommand(), from the setters and the tests of the invokables.
sendCommand ==
  /\ conn # "connecting" /\ Spend
  /\ \E c \in Settings \cup {Led} :
       send(c, IF IsSetting(c) THEN pendingCommands + 1 ELSE pendingCommands)
  /\ UNCHANGED <<daemon, interactions, view, history>>

beginInteraction ==
  /\ conn # "connecting" /\ interactions = 0
  /\ Spend
  /\ interactions' = 1
  /\ UNCHANGED <<daemon, backlog, client, window, view, history>>

endInteraction ==
  /\ conn # "connecting" /\ interactions > 0
  /\ interactions' = interactions - 1
  /\ UNCHANGED <<daemon, backlog, client, window, view, history, budget>>

-----------------------------------------------------------------------------
(* The daemon serves one command: read, act, answer, close. *)

\* What the window shows of a setting: a custom name with the mark of a default
\* one is taken for it.
Shown(m) == [k \in Keys |-> IF m[k] = "marked" THEN "default" ELSE m[k]]

\* What the window will read, if it is still there to read it.
answer(to, what) ==
  IF to # "ui" THEN UNCHANGED <<conn, snapshot>>
  ELSE /\ conn' = what
       /\ snapshot' = IF what = "status" THEN Shown(mem) ELSE snapshot

\* A daemon that dies in the middle takes every connection with it.
serves(to, what) ==
  IF up' THEN backlog' = Tail(backlog) /\ answer(to, what)
  ELSE /\ backlog' = <<>>
       /\ conn' = IF conn = "waiting" THEN "closed" ELSE conn
       /\ UNCHANGED snapshot

\* A change of the backend in use also applies whatever type was pending.
Changed(c) ==
  LET m == [mem EXCEPT ![c.key] = c.to]
      inUse == (c.key = "backend_ds4" /\ mem.type = "ds4")
               \/ (c.key = "backend_dualsense" /\ mem.type = "dualsense")
  IN  IF inUse THEN [m EXCEPT !.type = pending_type] ELSE m

\* set-type, set-backend, set-name and set-hide-method: the file gets the new
\* value with all the others as they are in memory.
sets(to, c) ==
  /\ mem[c.key] # c.to
  /\ mem' = Changed(c)
  /\ pending_type' = IF c.key = "type" THEN c.to ELSE pending_type
  /\ monitor' = (monitor \/ c = [key |-> "hide_method", to |-> "unbind"])
  /\ write_config([mem EXCEPT ![c.key] = c.to])
  /\ serves(to, "ok")
  /\ asked' = [asked EXCEPT ![c.key] = c.to]
  /\ excused' = LET behind == {k \in {"type"} : c.key # k /\ mem'.type # mem.type}
                IN  IF Written THEN {k \in excused \ {c.key} : mem[k] # asked[k]} \cup behind
                    ELSE IF up' THEN excused \cup {c.key} \cup behind
                    ELSE Keys

\* Without the uevent socket the unbind method is refused.
refuses(to, c) ==
  /\ c = [key |-> "hide_method", to |-> "unbind"] /\ mem.hide_method # "unbind"
  /\ ~monitor /\ "monitor" \in Faults
  /\ UNCHANGED <<daemon, history, budget>>
  /\ serves(to, "refused")

already_set(to, c) ==
  /\ mem[c.key] = c.to
  /\ UNCHANGED <<daemon, history, budget>>
  /\ serves(to, "ok")

\* The new type is not written to the file.
create_virtual(c) ==
  /\ mem' = [mem EXCEPT !.type = c.to]
  /\ excused' = excused \cup {"type"}
  /\ backlog' = Tail(backlog)
  /\ UNCHANGED <<up, file, pending_type, monitor, conn, snapshot, asked, budget>>

serve ==
  /\ up /\ backlog # <<>> /\ ~Stuck(backlog)
  /\ LET to == Head(backlog).client
         c == Head(backlog).command
     IN  \/ IsSetting(c) /\ (sets(to, c) \/ refuses(to, c) \/ already_set(to, c))
         \/ c.key = "virtual" /\ create_virtual(c)
         \/ c.key = "led" /\ UNCHANGED <<daemon, history, budget>>
              /\ (serves(to, "ok") \/ serves(to, "refused"))
         \/ c.key \in {"status", "silence"} /\ UNCHANGED <<daemon, history, budget>>
              /\ serves(to, "status")
  /\ UNCHANGED <<queue, current, window, interactions, view>>

\* ds4-ctl, or any other client of the socket.
send_command ==
  /\ up /\ Room(backlog) /\ Spend
  /\ \E c \in Commands :
       backlog' = Append(backlog, [client |-> "ctl", command |-> c])
  /\ UNCHANGED <<daemon, client, window, interactions, view, history>>

\* It times out or is interrupted.
client_leaves ==
  /\ Stuck(backlog)
  /\ backlog' = <<[client |-> "gone", command |-> Silence]>> \o Tail(backlog)
  /\ UNCHANGED <<daemon, client, window, interactions, view, history, budget>>

\* SIGTERM, between two commands.
stop ==
  /\ up /\ Spend
  /\ up' = FALSE
  /\ backlog' = <<>>
  /\ conn' = IF conn = "waiting" THEN "closed" ELSE conn
  /\ UNCHANGED <<mem, file, pending_type, monitor, queue, current, snapshot, window,
                 interactions, view, history>>

\* main() up to its loop; without the uevent socket the legacy method is used.
start ==
  /\ ~up
  /\ up' = TRUE
  /\ \/ /\ mem' = Read(file)
        /\ monitor' = (mem'.hide_method = "unbind")
        /\ excused' = {}
     \/ /\ "monitor" \in Faults /\ Read(file).hide_method = "unbind"
        /\ mem' = [Read(file) EXCEPT !.hide_method = "legacy"]
        /\ monitor' = FALSE
        /\ excused' = {"hide_method"}
  /\ pending_type' = mem'.type
  /\ asked' = [k \in Keys |-> IF k \in excused THEN Read(file)[k] ELSE asked[k]]
  /\ UNCHANGED <<file, backlog, client, window, interactions, view, budget>>

-----------------------------------------------------------------------------

\* The window's constructor asks for the status at once.
Init ==
  /\ up \in BOOLEAN
  /\ file = NoLines /\ mem = Read(file) /\ pending_type = mem.type
  /\ monitor = TRUE
  /\ queue = <<>> /\ snapshot = Default /\ view = [k \in Keys |-> "-"]
  /\ IF up
     THEN /\ backlog = <<[client |-> "ui", command |-> Status]>>
          /\ current = Status /\ conn = "waiting" /\ lastMessage = ""
     ELSE /\ backlog = <<>>
          /\ current = Idle /\ conn = "none" /\ lastMessage = "failure"
  /\ pendingCommands = 0 /\ interactions = 0 /\ online = FALSE
  /\ asked = mem /\ excused = {}
  /\ budget = MaxEvents

Window ==
  \/ connects \/ onReadable \/ onTimeout
  \/ refreshStatus \/ sendCommand \/ beginInteraction \/ endInteraction
Others == serve \/ send_command \/ client_leaves \/ stop \/ start

Next == Window \/ Others
Spec == Init /\ [][Next]_vars

\* The event loop runs, its timers fire, a daemon that is not stuck serves.
FairSpec ==
  Spec /\ WF_vars(connects) /\ WF_vars(onReadable) /\ WF_vars(onTimeout /\ Stuck(backlog))
       /\ WF_vars(refreshStatus) /\ WF_vars(serve)

-----------------------------------------------------------------------------
(* Properties *)

\* Every variable has its type.
TypeOK ==
  /\ up \in BOOLEAN /\ monitor \in BOOLEAN /\ online \in BOOLEAN
  /\ DOMAIN mem = Keys /\ \A k \in Keys : mem[k] \in Values[k]
  /\ DOMAIN file = Keys /\ \A k \in Keys : file[k] \in Values[k] \cup {"absent"}
  /\ pending_type \in Values.type
  /\ conn \in {"none", "connecting", "waiting", "ok", "refused", "status", "closed"}
  /\ lastMessage \in {"", "ok", "refused", "failure"}
  /\ interactions \in {0, 1} /\ pendingCommands \in Nat
  /\ excused \subseteq Keys

\* replyReady() comes exactly once for each command: the busy indicator counts
\* the setting commands that have no answer yet, through failures, timeouts and
\* restarts of the daemon.
BusyWhileUnanswered == pendingCommands = Unanswered(Append(queue, current))

\* Each command the user gives is answered or times out, even if the daemon is
\* stuck or restarted ("exactly one replyReady()"), unless connect() blocks.
CommandsAnswered == pendingCommands > 0 ~> pendingCommands = 0 \/ conn = "connecting"

\* connect() is "immediate on a Unix socket whose server is listening", "so the
\* window never freezes while the daemon works" (ipcclient.cpp, ipcclient.h): the
\* window does not wait in it for a daemon that waits for another client.
NeverFrozen == ~(conn = "connecting" /\ Stuck(backlog))

\* When everybody leaves the settings alone, the window ends up showing what the
\* daemon has, or that there is no daemon; changes other clients made included.
ViewConverges ==
  <>[](interactions = 0 /\ ~Stuck(backlog)) => <>[](online = up /\ (up => view = mem))

\* The next daemon runs with the settings the clients were told.  Excused are a
\* setting changed behind their backs, one whose write could not open the file,
\* until a later command writes them all, and everything in a file a crash left
\* empty (write_config() at each command, read_*config() at the start).
SettingsSurvive ==
  [][~up /\ up' => \A k \in Keys \ (excused \cup excused') : mem'[k] = asked[k]]_vars

\* "a refresh cannot move the selection out from under them" (refreshStatus()).
SelectionStays == [][interactions > 0 => view' = view]_vars
=============================================================================
