-------------------------- MODULE CursorConnection --------------------------
(***************************************************************************)
(* The connection of Cursor through a public tunnel (cursor_tunnel.rs).    *)
(* A click runs one of two commands, neither of which waits for another:   *)
(* connect opens a bridge and a tunnel, which takes up to half a minute,   *)
(* and then writes a record of what it takes over and Cursor's settings;   *)
(* restore gives the settings back.  Both ask once, at their start,        *)
(* whether Cursor is running.                                              *)
(*                                                                         *)
(* The two rows of Cursor's database change in one transaction and are one *)
(* value: own is the version of what the user has chosen there, ours the   *)
(* tunnel the endpoint names, 0 for none.  A bridge and the cloudflared in *)
(* front of it start and stop together and are one tunnel.                 *)
(***************************************************************************)
EXTENDS Naturals

CONSTANTS Clicks,    \* threads that may run a command
          MaxClicks, \* bound on the commands of an instance
          MaxChanges \* bound on the changes the user makes in Cursor

ASSUME CursorAssumption == 0 \notin Clicks /\ MaxClicks \in Nat /\ MaxChanges \in Nat

VARIABLES
    settings, \* what Cursor's database holds
    cursor,   \* the settings a running Cursor has in memory
    taken,    \* active.json, the record of the connection
    backup,   \* settings-backup.json
    slot,     \* CursorTunnelState: the current tunnel, 0 for none
    tunnels,  \* tunnels that are open
    click,    \* where each thread is, its tunnel and the settings it keeps
    clicks,   \* how many commands there were
    changes,  \* how often the user changed something in Cursor
    disturbed \* history: two commands overlapped, or Cursor was opened beside one

cursorVars == <<settings, cursor, taken, backup, slot, tunnels, click, clicks, changes,
                disturbed>>

Nobody == [own |-> 0, ours |-> 0]   \* no settings: none kept, or Cursor is closed
Official == [own |-> 1, ours |-> 0] \* as they were before there was Token Station
Ready == [pc |-> "idle", tunnel |-> 0, kept |-> Nobody]

-----------------------------------------------------------------------------
(* Commands.                                                               *)

Reaches(c, pc) == click' = [click EXCEPT ![c].pc = pc]
Ends(c) == click' = [click EXCEPT ![c] = Ready]

Clicked(c) ==
    /\ click[c] = Ready /\ clicks < MaxClicks
    /\ clicks' = clicks + 1
    /\ disturbed' = (disturbed \/ \E d \in Clicks : click[d] # Ready)
    /\ cursor = Nobody

\* status_view finds a tunnel whose process has ended, or settings that name another
\* one, and stops it; a tunnel it keeps changes nothing.
StatusLooks ==
    /\ slot # 0
    /\ slot' = 0 /\ tunnels' = tunnels \ {slot}
    /\ UNCHANGED <<settings, cursor, taken, backup, click, clicks, changes, disturbed>>

\* Not connected and Cursor is not running: the bridge is started.
ConnectBegins(c) ==
    /\ Clicked(c)
    /\ slot' = 0 /\ tunnels' = (tunnels \ {slot}) \union {clicks'}
    /\ click' = [click EXCEPT ![c] = [Ready EXCEPT !.pc = "tunnel", !.tunnel = clicks']]
    /\ UNCHANGED <<settings, cursor, taken, backup, changes>>

\* pending.stop() and the shutdown of the bridge after every error.
GiveUp(c) ==
    /\ tunnels' = tunnels \ {click[c].tunnel}
    /\ Ends(c)

\* ensure_cloudflared and start_cloudflared, which ends its process itself when no
\* address comes or the process is gone by then.
OpenTunnel(c) ==
    /\ click[c].pc = "tunnel"
    /\ \/ Reaches(c, "look") /\ UNCHANGED tunnels
       \/ GiveUp(c)
    /\ UNCHANGED <<settings, cursor, taken, backup, slot, clicks, changes, disturbed>>

\* Mutant of EarlierBackup: a connection that is still recorded is not looked for.
EarlierBackupOverlooked == Nobody

\* read_record before a connect: what an earlier connection kept.
EarlierBackup == taken

\* The backup of a connection that is still recorded is used again.
ReadRecord(c) ==
    /\ click[c].pc = "look"
    /\ \/ /\ UNCHANGED tunnels
          /\ IF EarlierBackup = Nobody
             THEN Reaches(c, "read")
             ELSE click' = [click EXCEPT ![c].pc = "save", ![c].kept = EarlierBackup]
       \/ GiveUp(c)
    /\ UNCHANGED <<settings, cursor, taken, backup, slot, clicks, changes, disturbed>>

\* read_cursor_backup.
ReadSettings(c) ==
    /\ click[c].pc = "read"
    /\ \/ /\ click' = [click EXCEPT ![c].pc = "save", ![c].kept = settings]
          /\ UNCHANGED tunnels
       \/ GiveUp(c)
    /\ UNCHANGED <<settings, cursor, taken, backup, slot, clicks, changes, disturbed>>

\* write_atomic_private: done, nothing done, or done and reported as failed.
WriteBackup(c) ==
    /\ click[c].pc = "save"
    /\ \/ backup' = click[c].kept /\ Reaches(c, "record") /\ UNCHANGED tunnels
       \/ backup' \in {backup, click[c].kept} /\ GiveUp(c)
    /\ UNCHANGED <<settings, cursor, taken, slot, clicks, changes, disturbed>>

WriteRecord(c) ==
    /\ click[c].pc = "record"
    /\ \/ taken' = click[c].kept /\ Reaches(c, "write") /\ UNCHANGED tunnels
       \/ taken' \in {taken, click[c].kept} /\ GiveUp(c)
    /\ UNCHANGED <<settings, cursor, backup, slot, clicks, changes, disturbed>>

\* write_cursor_database: the settings that are kept, with our endpoint in them.
WriteSettings(c) ==
    /\ click[c].pc = "write"
    /\ \/ /\ settings' = [click[c].kept EXCEPT !.ours = click[c].tunnel]
          /\ Reaches(c, "launch")
       \/ UNCHANGED settings /\ Reaches(c, "undo")
    /\ UNCHANGED <<cursor, taken, backup, slot, tunnels, clicks, changes, disturbed>>

LaunchCursor(c) ==
    /\ click[c].pc = "launch"
    /\ \/ cursor' = (IF cursor = Nobody THEN settings ELSE cursor) /\ Reaches(c, "publish")
       \/ UNCHANGED cursor /\ Reaches(c, "undo")
    /\ UNCHANGED <<settings, taken, backup, slot, tunnels, clicks, changes, disturbed>>

\* The settings are put back after an error; the record goes only then.
UndoConnect(c) ==
    /\ click[c].pc = "undo"
    /\ \/ settings' = click[c].kept /\ Reaches(c, "forget") /\ UNCHANGED tunnels
       \/ UNCHANGED settings /\ GiveUp(c)
    /\ UNCHANGED <<cursor, taken, backup, slot, clicks, changes, disturbed>>

\* Mutant of PublishTunnel: the tunnel that is replaced is not stopped.
PublishLeavesPrevious(c) ==
    /\ click[c].pc = "publish"
    /\ slot' = click[c].tunnel /\ Ends(c)
    /\ UNCHANGED <<tunnels, settings, cursor, taken, backup, clicks, changes, disturbed>>

PublishTunnel(c) ==
    /\ click[c].pc = "publish"
    /\ slot' = click[c].tunnel /\ tunnels' = tunnels \ {slot}
    /\ Ends(c)
    /\ UNCHANGED <<settings, cursor, taken, backup, clicks, changes, disturbed>>

RestoreBegins(c) ==
    /\ Clicked(c)
    /\ taken # Nobody
    /\ click' = [click EXCEPT ![c] = [Ready EXCEPT !.pc = "restore", !.kept = taken]]
    /\ UNCHANGED <<settings, cursor, taken, backup, slot, tunnels, changes>>

GiveBack(c) ==
    /\ click[c].pc = "restore"
    /\ \/ settings' = click[c].kept /\ Reaches(c, "close")
       \/ UNCHANGED settings /\ Ends(c)
    /\ UNCHANGED <<cursor, taken, backup, slot, tunnels, clicks, changes, disturbed>>

CloseTunnel(c) ==
    /\ click[c].pc = "close"
    /\ slot' = 0 /\ tunnels' = tunnels \ {slot}
    /\ Reaches(c, "forget")
    /\ UNCHANGED <<settings, cursor, taken, backup, clicks, changes, disturbed>>

\* remove_file, the end of restore and of a connect that was undone.
ForgetRecord(c) ==
    /\ click[c].pc = "forget"
    /\ taken' \in {taken, Nobody}
    /\ GiveUp(c)
    /\ UNCHANGED <<settings, cursor, backup, slot, clicks, changes, disturbed>>

Command(c) ==
    \/ ConnectBegins(c) \/ OpenTunnel(c) \/ ReadRecord(c) \/ ReadSettings(c)
    \/ WriteBackup(c) \/ WriteRecord(c) \/ WriteSettings(c) \/ LaunchCursor(c)
    \/ UndoConnect(c) \/ PublishTunnel(c)
    \/ RestoreBegins(c) \/ GiveBack(c) \/ CloseTunnel(c) \/ ForgetRecord(c)

-----------------------------------------------------------------------------
(* Cursor, its user, and the end of the program.                           *)

CursorOpens ==
    /\ cursor = Nobody
    /\ cursor' = settings
    /\ disturbed' = (disturbed \/ \E c \in Clicks : click[c] # Ready)
    /\ UNCHANGED <<settings, taken, backup, slot, tunnels, click, clicks, changes>>

\* The user changes something beside the endpoint, or the endpoint too.
UserChanges ==
    /\ cursor # Nobody /\ changes < MaxChanges
    /\ changes' = changes + 1
    /\ \E t \in {0, cursor.ours} : cursor' = [own |-> changes + 2, ours |-> t]
    /\ UNCHANGED <<settings, taken, backup, slot, tunnels, click, clicks, disturbed>>

\* A running Cursor writes what it has in memory.
CursorSaves ==
    /\ cursor # Nobody
    /\ settings' = cursor
    /\ UNCHANGED <<cursor, taken, backup, slot, tunnels, click, clicks, changes, disturbed>>

CursorCloses ==
    /\ cursor # Nobody
    /\ cursor' = Nobody
    /\ UNCHANGED <<settings, taken, backup, slot, tunnels, click, clicks, changes, disturbed>>

\* Whatever was under way; the bridges end with the process.
DesktopEnds ==
    /\ slot # 0 \/ \E c \in Clicks : click[c] # Ready
    /\ slot' = 0 /\ tunnels' = {}
    /\ click' = [c \in Clicks |-> Ready]
    /\ UNCHANGED <<settings, cursor, taken, backup, clicks, changes, disturbed>>

CursorInit ==
    /\ settings = Official /\ cursor = Nobody /\ taken = Nobody /\ backup = Nobody
    /\ slot = 0 /\ tunnels = {}
    /\ click = [c \in Clicks |-> Ready]
    /\ clicks = 0 /\ changes = 0 /\ disturbed = FALSE

CursorNext ==
    \/ \E c \in Clicks : Command(c)
    \/ StatusLooks \/ CursorOpens \/ UserChanges \/ CursorSaves \/ CursorCloses
    \/ DesktopEnds

CursorSpec == CursorInit /\ [][CursorNext]_cursorVars

-----------------------------------------------------------------------------
Choices == [own : 0..(MaxChanges + 1), ours : 0..MaxClicks]
CursorPoints == {"idle", "tunnel", "look", "read", "save", "record", "write", "launch",
                 "undo", "publish", "restore", "close", "forget"}

CursorTypeOK ==
    /\ {settings, cursor, taken, backup} \subseteq Choices
    /\ slot \in 0..MaxClicks /\ tunnels \subseteq 1..MaxClicks
    /\ click \in [Clicks -> [pc : CursorPoints, tunnel : 0..MaxClicks, kept : Choices]]
    /\ clicks \in 0..MaxClicks /\ changes \in 0..MaxChanges /\ disturbed \in BOOLEAN

\* A public address leads to this machine only while its tunnel is the current one or
\* its connect is under way, whichever commands overlap and wherever one fails
\* (ActiveTunnel::stop on every path).
TunnelsOwned ==
    tunnels = ({slot} \union {click[c].tunnel : c \in Clicks}) \ {0}

\* While Cursor's settings are ours, the record can give back the user's own, which
\* were never taken for ours (existing.backup, preserve_record_after_failed_restore):
\* as long as one command runs at a time and Cursor stays closed beside it.
OfficialKept ==
    ~disturbed /\ settings.ours # 0 => taken # Nobody /\ taken.ours = 0

=============================================================================
