----------------------------- MODULE Switching ------------------------------
(***************************************************************************)
(* The operator's scripts that move both machines between transports and   *)
(* between LiteVPN and WireGuard: set-vpn-transport.sh, run-tun-smoke.sh   *)
(* (which calls it twice) and run-vpn-mode.sh.                             *)
(*                                                                         *)
(* What they change is the transport in the client's and in the server's   *)
(* configuration file, the server's service, and WireGuard on both sides;  *)
(* remote commands run in a shell at the far end of ssh.  A script may be  *)
(* interrupted at every command.  A remote shell whose ssh is cut may die  *)
(* with it or finish its commands, while the next script is at work.       *)
(* Bound: one such stray shell at a time.                                  *)
(***************************************************************************)
EXTENDS Naturals, Sequences

VARIABLES pc,       \* where the running script is, or "idle"
          job,      \* the running script and its settings, or the last one
          phase,    \* which use of set-vpn-transport.sh this is
          ok,       \* set-vpn-transport.sh, run on its own, exited with 0
          local,    \* vpn_transport of the client's configuration file
          remote,   \* vpn_transport of the server's
          loaded,   \* the transport of the server process that listens, if any
          wanted,   \* the unit is started: systemd restarts the process
          wg,       \* WireGuard is up on the server
          localWg,  \* and on the client
          flag,     \* LOCAL_WG_UP
          cleaned,  \* CLEANED_UP
          back,     \* where the script goes on after cleanup_wireguard
          shell,    \* the remote shell of the running ssh
          stray,    \* a remote shell whose ssh is gone
          trouble   \* what went wrong in a way the script cannot repair

server == <<remote, loaded, wanted, wg>>
script == <<job, phase>>
wireguard == <<localWg, flag, cleaned, back>>
vars == <<pc, script, ok, local, server, wireguard, shell, stray, trouble>>

Transports == {"datagram", "stream"}
Sides == {"local", "remote"}

Set(mode, sides) == [script |-> "set", mode |-> mode, sides |-> sides, restore |-> "none"]
Smoke(mode, restore) ==
  [script |-> "smoke", mode |-> mode, sides |-> Sides, restore |-> restore]
VpnMode(name, restore) ==
  [script |-> name, mode |-> "none", sides |-> Sides, restore |-> restore]

\* LOCAL_ONLY, REMOTE_ONLY, RESTORE_ON_EXIT and RESTORE_LITEVPN are settings.
Jobs ==
  {Set(mode, sides) : mode \in Transports, sides \in SUBSET Sides}
  \cup {Smoke(mode, restore) : mode \in Transports, restore \in Transports \cup {"none"}}
  \cup {VpnMode(name, restore) : name \in {"wireguard", "litevpn", "off"},
                                 restore \in {"litevpn", "none"}}

Shell(cmds) == [todo |-> cmds, mode |-> "none", errexit |-> FALSE, ok |-> TRUE]
NoShell == Shell(<<>>)

\* A mistake: the service is restarted before its configuration is installed.
SetShellRestartsFirst(mode) ==
  [todo |-> <<"backup", "restart", "install", "is-active">>,
   mode |-> mode, errexit |-> TRUE, ok |-> TRUE]

\* The remote commands, in the order of the scripts.
SetShell(mode) ==
  [todo |-> <<"backup", "install", "restart", "is-active">>,
   mode |-> mode, errexit |-> TRUE, ok |-> TRUE]
WgShell == Shell(<<"stop", "wg-down", "wg-up", "wg-show">>)
LiteShell == IF job.restore = "none" THEN NoShell ELSE Shell(<<"wg-down", "start">>)

Init ==
  /\ pc = "idle" /\ job = VpnMode("off", "litevpn") /\ phase = "only" /\ ok = TRUE
  /\ local \in Transports /\ remote = local /\ loaded = local /\ wanted = TRUE
  /\ wg = FALSE /\ localWg = FALSE
  /\ flag = FALSE /\ cleaned = FALSE /\ back = "idle"
  /\ shell = NoShell /\ stray = NoShell /\ trouble = {}

-----------------------------------------------------------------------------
(* The server machine. *)

\* One remote command and its success.  A service that was told to start is
\* "active" at once, whether or not it will get its port.  `wg-quick down .. || true`
\* ends with 0 whether WireGuard went down or not.
Command(cmd, mode, good) ==
  \/ cmd = "backup" /\ UNCHANGED server
  \/ cmd = "install" /\ remote' = (IF good THEN mode ELSE remote) /\ UNCHANGED <<loaded, wanted, wg>>
  \/ cmd = "restart" /\ (IF good THEN loaded' = "none" /\ wanted' = TRUE
                        ELSE loaded' \in {loaded, "none"} /\ UNCHANGED wanted)
                     /\ UNCHANGED <<remote, wg>>
  \/ cmd = "is-active" /\ (loaded # "none" => good) /\ UNCHANGED server
  \/ cmd = "stop" /\ (IF good THEN loaded' = "none" /\ wanted' = FALSE
                     ELSE UNCHANGED <<loaded, wanted>>) /\ UNCHANGED <<remote, wg>>
  \/ cmd = "start" /\ wanted' = (wanted \/ good) /\ UNCHANGED <<remote, loaded, wg>>
  \/ cmd = "wg-down" /\ good /\ wg' \in {FALSE, wg} /\ UNCHANGED <<remote, loaded, wanted>>
  \/ cmd = "wg-up" /\ (good => loaded = "none" /\ ~wg) /\ wg' = (wg \/ good)
                     /\ UNCHANGED <<remote, loaded, wanted>>
  \/ cmd = "wg-show" /\ good = wg /\ UNCHANGED server

\* What is left of a shell: `set -e` ends the one of set-vpn-transport.sh.
After(sh, good) ==
  [sh EXCEPT !.ok = good, !.todo = IF sh.errexit /\ ~good THEN <<>> ELSE Tail(@)]

Runs(sh, good) == sh.todo # <<>> /\ Command(Head(sh.todo), sh.mode, good)

\* WireGuard stays up on the server where LiteVPN is being restored, unnoticed.
Kept == Head(shell.todo) = "wg-down" /\ wg' /\ pc # "wg-remote"

ShellRuns ==
  /\ \E good \in BOOLEAN : Runs(shell, good) /\ shell' = After(shell, good)
  /\ trouble' = trouble \cup (IF Kept THEN {"kept"} ELSE {})
  /\ UNCHANGED <<pc, script, ok, local, wireguard, stray>>

StrayRuns ==
  /\ \E good \in BOOLEAN : Runs(stray, good) /\ stray' = After(stray, good)
  /\ UNCHANGED <<pc, script, ok, local, wireguard, shell, trouble>>

\* The server's main: the configuration is read, then the port is taken, which
\* fails as long as WireGuard has it; systemd tries again.
ServiceStarts ==
  /\ wanted /\ loaded = "none" /\ ~wg
  /\ loaded' = remote
  /\ UNCHANGED <<pc, script, ok, local, remote, wanted, wg, wireguard, shell, stray, trouble>>

\* External: the process dies.
ServiceDies ==
  /\ loaded # "none"
  /\ loaded' = "none"
  /\ UNCHANGED <<pc, script, ok, local, remote, wanted, wg, wireguard, shell, stray, trouble>>

-----------------------------------------------------------------------------
(* set-vpn-transport.sh, alone or from run-tun-smoke.sh. *)

\* What is left of earlier trouble when a script begins.
StillTrouble(j) ==
  {x \in trouble : \/ x = "stray" /\ stray.todo # <<>>
                   \/ x \in {"race", "local"} /\ localWg /\ j.script # "off"}

\* A script that fails its checks (arguments, files, `sudo -v`) has changed nothing
\* and is no step.
Begin(j) ==
  /\ pc = "idle"
  /\ job' = j
  /\ phase' = IF j.script = "smoke" THEN "switch" ELSE "only"
  /\ pc' = CASE j.script \in {"set", "smoke"} -> "set-local"
             [] j.script = "wireguard" -> "wg-start"
             [] OTHER -> "lite"
  /\ shell' = NoShell
  /\ flag' = FALSE /\ cleaned' = FALSE /\ back' = "idle"
  /\ trouble' = StillTrouble(j)
  /\ UNCHANGED <<ok, local, server, localWg, stray>>

Exit(good) == pc' = "idle" /\ ok' = good /\ UNCHANGED script

\* A mistake: RESTORE_MODE is used for both calls.
TargetForgotten == job.restore

\* MODE as the caller passes it.
Target == IF phase = "restore" THEN job.restore ELSE job.mode

\* run-tun-smoke.sh's EXIT trap.
Restore ==
  IF job.restore = "none" THEN Exit(FALSE)
  ELSE pc' = "set-local" /\ phase' = "restore" /\ UNCHANGED <<job, ok>>

\* A mistake: the trap is set only once the switch has succeeded.
SetFailedNoTrap == Exit(FALSE)

\* set-vpn-transport.sh ended with an error, or was interrupted.
SetFailed == IF phase = "switch" THEN Restore ELSE Exit(FALSE)

SetSucceeded ==
  IF phase = "switch" THEN pc' = "client" /\ UNCHANGED <<script, ok>> ELSE Exit(TRUE)

\* What a failed restore leaves cannot be repaired.
Damage == IF phase = "restore" THEN {"restore"} ELSE {}

SetLocal ==
  /\ pc = "set-local"
  /\ local' = IF "local" \in job.sides THEN Target ELSE local
  /\ IF "remote" \in job.sides
       THEN pc' = "set-remote" /\ shell' = SetShell(Target) /\ UNCHANGED <<script, ok>>
       ELSE SetSucceeded /\ UNCHANGED shell
  /\ UNCHANGED <<server, wireguard, stray, trouble>>

SetLocalFails ==
  /\ pc = "set-local"
  /\ SetFailed
  /\ trouble' = trouble \cup Damage
  /\ UNCHANGED <<local, server, wireguard, shell, stray>>

\* ssh ends with the status of the remote shell.
SetRemote ==
  /\ pc = "set-remote" /\ shell.todo = <<>>
  /\ IF shell.ok THEN SetSucceeded /\ UNCHANGED trouble
                 ELSE SetFailed /\ trouble' = trouble \cup Damage
  /\ UNCHANGED <<local, server, wireguard, shell, stray>>

\* ssh is cut, by a signal or by the network: the remote shell dies or strays.
Cut(damage) ==
  /\ shell' = NoShell
  /\ \/ stray' = stray /\ trouble' = trouble \cup damage
     \/ /\ stray.todo = <<>> /\ shell.todo # <<>>
        /\ stray' = shell /\ trouble' = trouble \cup damage \cup {"stray"}

SetCut ==
  /\ pc = "set-remote"
  /\ SetFailed /\ Cut(Damage)
  /\ UNCHANGED <<local, server, wireguard>>

\* The client of run-tun-smoke.sh ends, by Ctrl-C or by itself.
ClientEnds ==
  /\ pc = "client"
  /\ Restore
  /\ UNCHANGED <<local, server, wireguard, shell, stray, trouble>>

-----------------------------------------------------------------------------
(* run-vpn-mode.sh. *)

\* The script goes on at `to`, or is through.
GoOn(to) == IF to = "idle" THEN Exit(TRUE) ELSE pc' = to /\ UNCHANGED <<script, ok>>

\* cleanup_wireguard is called, and the script goes on at `to` after it.
Cleanup(to) ==
  IF cleaned
    THEN GoOn(to) /\ UNCHANGED <<cleaned, back>>
    ELSE pc' = "wg-down" /\ cleaned' = TRUE /\ back' = to /\ UNCHANGED <<script, ok>>

\* The trap is set, ssh begins.  After a clean-up nothing restores the server again.
WgStart ==
  /\ pc = "wg-start"
  /\ pc' = "wg-remote" /\ shell' = WgShell
  /\ trouble' = trouble \cup (IF cleaned THEN {"restore"} ELSE {})
  /\ UNCHANGED <<script, ok, local, server, wireguard, stray>>

\* A signal in between: the trap runs, and the script goes on.
WgStartTerm ==
  /\ pc = "wg-start" /\ ~cleaned
  /\ Cleanup("wg-start")
  /\ UNCHANGED <<local, server, localWg, flag, shell, stray, trouble>>

\* A mistake: a remote failure ends the script before the trap is set.
WgRemoteUntrapped ==
  /\ pc = "wg-remote" /\ shell.todo = <<>>
  /\ IF shell.ok THEN pc' = "wg-local" /\ UNCHANGED <<script, ok, cleaned, back>>
                 ELSE Exit(FALSE) /\ UNCHANGED <<cleaned, back>>
  /\ UNCHANGED <<local, server, localWg, flag, shell, stray, trouble>>

\* Without `set -e` on the server, the status is that of `wg show`.
WgRemote ==
  /\ pc = "wg-remote" /\ shell.todo = <<>>
  /\ IF shell.ok THEN pc' = "wg-local" /\ UNCHANGED <<script, ok, cleaned, back>>
                 ELSE Cleanup("idle")
  /\ UNCHANGED <<local, server, localWg, flag, shell, stray, trouble>>

\* SIGTERM alone while ssh runs, or a signal right after: the trap waits for ssh, restores
\* LiteVPN, and the script goes on to bring up WireGuard.
WgRemoteTerm ==
  /\ pc = "wg-remote" /\ shell.todo = <<>> /\ shell.ok
  /\ Cleanup("wg-local")
  /\ UNCHANGED <<local, server, localWg, flag, shell, stray, trouble>>

WgRemoteCut ==
  /\ pc = "wg-remote"
  /\ Cut({}) /\ Cleanup("idle")
  /\ UNCHANGED <<local, server, localWg, flag>>

\* wg-quick up, then LOCAL_WG_UP=1.  After a clean-up nothing takes it down again.
WgUp ==
  /\ pc = "wg-local" /\ ~localWg
  /\ localWg' = TRUE /\ flag' = TRUE
  /\ trouble' = trouble \cup (IF cleaned THEN {"race"} ELSE {})
  /\ pc' = "wg-wait"
  /\ UNCHANGED <<script, ok, local, server, cleaned, back, shell, stray>>

\* It fails, as it does when the interface is already up, or is interrupted.
WgUpFails ==
  /\ pc = "wg-local"
  /\ Cleanup("idle")
  /\ UNCHANGED <<local, server, localWg, flag, shell, stray, trouble>>

\* A signal arrives while wg-quick succeeds: the trap runs before the flag is set.
WgUpRaced ==
  /\ pc = "wg-local" /\ ~localWg
  /\ localWg' = TRUE
  /\ Cleanup("wg-wait")
  /\ flag' = cleaned
  /\ trouble' = trouble \cup {"race"}
  /\ UNCHANGED <<local, server, shell, stray>>

\* Ctrl-C also ends `sleep`, and with it the script; after SIGTERM alone the
\* loop goes on.
WgSignal ==
  /\ pc = "wg-wait"
  /\ \E to \in {"idle", "wg-wait"} : Cleanup(to)
  /\ UNCHANGED <<local, server, localWg, flag, shell, stray, trouble>>

\* The local half of cleanup_wireguard; its failure is ignored.
WgDown ==
  /\ pc = "wg-down"
  /\ \/ localWg' = (localWg /\ ~flag) /\ UNCHANGED trouble
     \/ flag /\ UNCHANGED localWg /\ trouble' = trouble \cup {"local"}
  /\ pc' = "wg-restore" /\ shell' = LiteShell
  /\ UNCHANGED <<script, ok, local, server, flag, cleaned, back, stray>>

\* The trap returns: the script exits or goes on, to LOCAL_WG_UP=1 if that is next.
WgRestored ==
  /\ pc = "wg-restore"
  /\ \/ /\ shell.todo = <<>> /\ UNCHANGED <<shell, stray>>
        /\ trouble' = trouble \cup (IF shell.ok THEN {} ELSE {"restore"})
     \/ shell.todo # <<>> /\ Cut({"restore"})
  /\ GoOn(back)
  /\ flag' = (flag \/ back = "wg-wait")
  /\ UNCHANGED <<local, server, localWg, cleaned, back>>

\* --mode litevpn and --mode off: only the second takes WireGuard down here.
Lite ==
  /\ pc = "lite"
  /\ \/ localWg' = (localWg /\ job.script # "off") /\ UNCHANGED trouble
     \/ job.script = "off" /\ UNCHANGED localWg /\ trouble' = trouble \cup {"local"}
  /\ pc' = "lite-remote" /\ shell' = LiteShell
  /\ UNCHANGED <<script, ok, local, server, flag, cleaned, back, stray>>

\* Then the client runs, or nothing is left to do.
LiteRestored ==
  /\ pc = "lite-remote"
  /\ \/ /\ shell.todo = <<>> /\ UNCHANGED <<shell, stray>>
        /\ trouble' = trouble \cup (IF shell.ok THEN {} ELSE {"restore"})
     \/ shell.todo # <<>> /\ Cut({"restore"})
  /\ Exit(TRUE)
  /\ UNCHANGED <<local, server, wireguard>>

Next ==
  \/ \E j \in Jobs : Begin(j)
  \/ SetLocal \/ SetLocalFails \/ SetRemote \/ SetCut \/ ClientEnds
  \/ WgStart \/ WgStartTerm \/ WgRemote \/ WgRemoteTerm \/ WgRemoteCut
  \/ WgUp \/ WgUpFails \/ WgUpRaced \/ WgSignal \/ WgDown \/ WgRestored \/ Lite \/ LiteRestored
  \/ ShellRuns \/ StrayRuns \/ ServiceStarts \/ ServiceDies

Spec == Init /\ [][Next]_vars

-----------------------------------------------------------------------------
Phases == {"idle", "set-local", "set-remote", "client", "lite", "lite-remote",
           "wg-start", "wg-remote", "wg-local", "wg-wait", "wg-down", "wg-restore"}

TypeOK ==
  /\ pc \in Phases /\ job \in Jobs /\ phase \in {"only", "switch", "restore"}
  /\ local \in Transports /\ remote \in Transports /\ loaded \in Transports \cup {"none"}
  /\ {ok, wanted, wg, localWg, flag, cleaned} \subseteq BOOLEAN
  /\ back \in {"idle", "wg-start", "wg-local", "wg-wait"}
  /\ \A sh \in {shell, stray} : Len(sh.todo) \in 0..4 /\ sh.mode \in Transports \cup {"none"}
  /\ trouble \subseteq {"stray", "restore", "kept", "local", "race"}

\* The server's file says `mode`, its unit is started, and a process that is up has
\* read the file as it is.
ServerHas(mode) == remote = mode /\ wanted /\ loaded \in {mode, "none"}

\* Whatever earlier, half-done or interrupted switches left behind, a
\* set-vpn-transport.sh that succeeds leaves the sides it was told to set in one
\* transport, the running server included (set-vpn-transport.sh:134-194), unless a
\* shell of an interrupted run is still at work on the server.
SwitchAgrees ==
  pc = "idle" /\ job.script = "set" /\ ok /\ "stray" \notin trouble =>
    /\ "local" \in job.sides => local = job.mode
    /\ "remote" \in job.sides => ServerHas(job.mode)

\* However run-tun-smoke.sh ends - its switch failed half-way or was interrupted, the
\* client was stopped - both sides are back in RESTORE_MODE (run-tun-smoke.sh:74-97),
\* unless the restoring run itself was harmed or raced with a stray shell.
SmokeRestores ==
  pc = "idle" /\ job.script = "smoke" /\ job.restore # "none"
    /\ trouble \cap {"stray", "restore"} = {} =>
    local = job.restore /\ ServerHas(job.restore)

\* When run-vpn-mode.sh is through with WireGuard (cleanup_wireguard or --mode off), it
\* is down on the client, unless wg-quick down failed there or a signal came before
\* LOCAL_WG_UP was set; and if LiteVPN is to be restored it has the server, unless the
\* clean-up there failed, was cut or was over before WireGuard was started, its
\* wg-quick down failed behind `|| true`, or a stray shell is at work
\* (run-vpn-mode.sh:82-100, :114-122, :140-145).
WireguardIsGone ==
  pc = "idle" /\ job.script \in {"wireguard", "off"} =>
    /\ trouble \cap {"local", "race"} = {} => ~localWg
    /\ job.restore = "litevpn" /\ trouble \cap {"stray", "restore", "kept"} = {} => ~wg /\ wanted
=============================================================================
