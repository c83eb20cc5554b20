------------------------------ MODULE EdgeHosts ------------------------------
(***************************************************************************)
(* The two hosts of the public edge as ansible/site.yml configures them:   *)
(* first the VPS, then the connector, each with the roles common,          *)
(* firewall, wireguard and haproxy, the VPS with gatus as well.  A role    *)
(* writes a file, sees that its service is started, and notifies a handler *)
(* if the file changed; handlers run when all tasks of the play are done,  *)
(* in the order of the roles.  A play that fails drops what was notified,  *)
(* and ends the playbook.  Hosts reboot, and unattended upgrades restart   *)
(* services: both load what is on disk.                                    *)
(* An operator named "...Mutant" is a wrong variant of the one after it.   *)
(***************************************************************************)
EXTENDS Naturals, Sequences

CONSTANT MaxIncidents  \* bound: changes of the variables or templates, failures,
                       \* reboots and restarts

ASSUME EdgeAssumption == MaxIncidents \in Nat

Hosts    == {"vps", "connector"}
Services == {"ssh", "nftables", "wireguard", "haproxy", "gatus"}

Roles(h) == IF h = "vps" THEN <<"ssh", "nftables", "wireguard", "haproxy", "gatus">>
            ELSE <<"ssh", "nftables", "wireguard", "haproxy">>

Parts(h) == IF h = "vps" THEN Services ELSE Services \ {"gatus"}

(* Texts of a file: its service rejects "bad"; a "placeholder" is a key    *)
(* still to be filled in.                                                  *)
Texts == {"none", "old", "new", "bad", "placeholder"}

VARIABLES
    wanted,    \* [Services -> text that the templates render]
    disk,      \* [Hosts -> [Services -> text of the file]]
    running,   \* [Hosts -> [Services -> text the service has loaded, or "down"]]
    play,      \* step, host, the role it is at, the services notified
    lost,      \* [Hosts -> services whose notification a failed play dropped and that
               \* have not loaded their file since] (history)
    incidents

edgeVars == <<wanted, disk, running, play, lost, incidents>>

Active == play.step \notin {"idle", "done", "failed"}

EdgeTypeOK ==
    /\ wanted \in [Services -> Texts \ {"none"}]
    /\ \A s \in Services \ {"wireguard"} : wanted[s] # "placeholder"
    /\ disk \in [Hosts -> [Services -> Texts]]
    /\ running \in [Hosts -> [Services -> Texts \cup {"down"}]]
    /\ play \in [step : {"idle", "configure", "enable", "validate", "reload", "done", "failed"},
                 host : Hosts, at : 1 .. 5, notified : SUBSET Services]
    /\ play.at <= Len(Roles(play.host))
    /\ lost \in [Hosts -> SUBSET Services]
    /\ incidents \in Nat

(* The connector is new or not; sshd runs before the first play.           *)
EdgeInit ==
    /\ wanted = [s \in Services |-> "old"]
    /\ \E new \in {{}, {"connector"}} :
         disk = [h \in Hosts |-> [s \in Services |->
                    IF h \in new \/ s \notin Parts(h) THEN "none" ELSE "old"]]
    /\ running = [h \in Hosts |-> [s \in Services |->
                     IF disk[h][s] = "none" /\ s # "ssh" THEN "down" ELSE disk[h][s]]]
    /\ play = [step |-> "idle", host |-> "vps", at |-> 1, notified |-> {}]
    /\ lost = [h \in Hosts |-> {}]
    /\ incidents = 0

-----------------------------------------------------------------------------
(* Services.                                                               *)

(* sshd does without the drop-in.  Gatus has no readiness: its unit counts *)
(* as started, and is restarted again and again, with a bad text too.      *)
Loads(s, text) == \/ text \in {"old", "new"}
                  \/ s = "ssh" /\ text = "none"
                  \/ s = "gatus" /\ text = "bad"

Started(s, text) == IF Loads(s, text) THEN text ELSE "down"

(* The connector's HAProxy listens on an address of the tunnel, so it can  *)
(* only be started while the tunnel is up.                                 *)
Tied(h, s) == h = "connector" /\ s = "haproxy"
Binds(h, s) == Tied(h, s) => running[h]["wireguard"] # "down"

Start(h, s) == IF Binds(h, s) THEN Started(s, disk[h][s]) ELSE "down"

(* After a reboot nothing orders HAProxy and the tunnel: it may be early.  *)
Booted(h, s, early) ==
    IF Tied(h, s) /\ (early \/ ~Loads("wireguard", disk[h]["wireguard"])) THEN "down"
    ELSE Started(s, disk[h][s])

(* nftables and HAProxy keep what they have if the new text is bad (and    *)
(* HAProxy its sockets); sshd starts itself anew, and the others are       *)
(* restarted: WireGuard with a text that nothing has looked at.            *)
Reloaded(h, s) ==
    IF s \in {"nftables", "haproxy"} /\ running[h][s] # "down"
    THEN IF Loads(s, disk[h][s]) THEN disk[h][s] ELSE running[h][s]
    ELSE Start(h, s)

-----------------------------------------------------------------------------
(* The playbook.                                                           *)

Host == play.host
Role == Roles(Host)[play.at]
Calm == UNCHANGED incidents
Incident == incidents < MaxIncidents /\ incidents' = incidents + 1

(* A failed task or handler: the other handlers of the play do not run.    *)
FailPlay(h, now) ==
    /\ play' = [play EXCEPT !.step = "failed", !.notified = {}]
    /\ lost' = [lost EXCEPT ![h] = @ \cup {s \in play.notified : now[h][s] # disk[h][s]}]

StartSite ==
    /\ ~Active
    /\ play' = [step |-> "configure", host |-> "vps", at |-> 1, notified |-> {}]
    /\ UNCHANGED <<wanted, disk, running, lost>> /\ Calm

On(step) == play.step = step /\ running[Host]["ssh"] # "down" /\ UNCHANGED wanted /\ Calm

(* Refused before it is installed: WireGuard keys still to be filled in,   *)
(* by an assert, and what "validate: haproxy -c" rejects.  The rest of     *)
(* wg0.conf is not checked.  Mutant: HAProxy's template without "validate".*)
Unfilled(s) == s = "wireguard" /\ wanted[s] = "placeholder"
RefusedMutant(s) == Unfilled(s)
Refused(s) == Unfilled(s) \/ (s = "haproxy" /\ wanted[s] = "bad")

(* The template task.  Mutant: without "notify" for Gatus.                 *)
NotifiesMutant(s) == disk[Host][s] # wanted[s] /\ s # "gatus"
Notifies(s) == disk[Host][s] # wanted[s]

Configure ==
    /\ On("configure") /\ UNCHANGED running
    /\ \/ Refused(Role) /\ FailPlay(Host, running) /\ UNCHANGED disk
       \/ /\ ~Refused(Role)
          /\ disk' = [disk EXCEPT ![Host][Role] = wanted[Role]]
          /\ play' = [play EXCEPT !.step = "enable",
                         !.notified = @ \cup IF Notifies(Role) THEN {Role} ELSE {}]
          /\ UNCHANGED lost

(* After the last task of a play its handlers, after those the next play.  *)
NextTask == play' = IF play.at < Len(Roles(Host))
                    THEN [play EXCEPT !.step = "configure", !.at = @ + 1]
                    ELSE [play EXCEPT !.step = "validate", !.at = 1]

NextPlay == play' = IF Host = "vps"
                    THEN [step |-> "configure", host |-> "connector", at |-> 1, notified |-> {}]
                    ELSE [play EXCEPT !.step = "done"]

(* "state: started"; the common role has no such task for sshd.            *)
Enable ==
    /\ On("enable") /\ UNCHANGED disk
    /\ LET now == [running EXCEPT ![Host][Role] =
                     IF Role # "ssh" /\ @ = "down" THEN Start(Host, Role) ELSE @]
       IN /\ running' = now
          /\ \/ now[Host][Role] = "down" /\ FailPlay(Host, now)
             \/ now[Host][Role] # "down" /\ NextTask /\ UNCHANGED lost

(* The handlers "Validate ...": sshd -t, nft -c, haproxy -c.               *)
(* Mutant: no such handler for sshd.                                       *)
InvalidMutant(s) == s \in {"nftables", "haproxy"} /\ disk[Host][s] = "bad"
Invalid(s) == s \in {"ssh", "nftables", "haproxy"} /\ disk[Host][s] = "bad"

Validate ==
    /\ On("validate") /\ UNCHANGED <<disk, running>>
    /\ \/ Role \in play.notified /\ Invalid(Role) /\ FailPlay(Host, running)
       \/ /\ Role \in play.notified => ~Invalid(Role)
          /\ play' = [play EXCEPT !.step = "reload"] /\ UNCHANGED lost

(* The handlers "Reload ..." and "Restart ...".                            *)
Reload ==
    /\ On("reload") /\ UNCHANGED disk
    /\ LET now == [running EXCEPT ![Host][Role] =
                     IF Role \in play.notified THEN Reloaded(Host, Role) ELSE @]
       IN /\ running' = now
          /\ \/ /\ Role \in play.notified /\ now[Host][Role] # disk[Host][Role]
                /\ FailPlay(Host, now)
             \/ /\ Role \in play.notified => now[Host][Role] = disk[Host][Role]
                /\ lost' = [lost EXCEPT ![Host] = @ \ (play.notified \cap {Role})]
                /\ IF play.at < Len(Roles(Host))
                   THEN play' = [play EXCEPT !.step = "validate", !.at = @ + 1]
                   ELSE NextPlay

-----------------------------------------------------------------------------
(* Everything else.                                                        *)

(* Variables and templates change between runs of the playbook.            *)
ChangeTemplate ==
    /\ ~Active /\ Incident
    /\ \/ \E s \in Services, text \in {"new", "bad"} : wanted' = [wanted EXCEPT ![s] = text]
       \/ wanted' = [wanted EXCEPT !["wireguard"] = "placeholder"]
    /\ UNCHANGED <<disk, running, play, lost>>

(* A package or connection fails, or somebody interrupts the playbook.     *)
Interrupt ==
    /\ Active /\ Incident /\ FailPlay(Host, running)
    /\ UNCHANGED <<wanted, disk, running>>

(* Without sshd there is no connection.                                    *)
Unreachable ==
    /\ Active /\ running[Host]["ssh"] = "down" /\ FailPlay(Host, running)
    /\ UNCHANGED <<wanted, disk, running>> /\ Calm

Reboot(h) ==
    /\ Incident
    /\ \E early \in BOOLEAN :
         running' = [running EXCEPT ![h] = [s \in Services |-> Booted(h, s, early)]]
    /\ IF Active /\ Host = h
       THEN play' = [play EXCEPT !.step = "failed", !.notified = {}] ELSE UNCHANGED play
    /\ lost' = [lost EXCEPT ![h] = {}]
    /\ UNCHANGED <<wanted, disk>>

RestartService(h, s) ==
    /\ Incident /\ running[h][s] # "down"
    /\ running' = [running EXCEPT ![h][s] = Start(h, s)]
    /\ lost' = [lost EXCEPT ![h] = @ \ {s}]
    /\ UNCHANGED <<wanted, disk, play>>

PlaybookStep == StartSite \/ Configure \/ Enable \/ Validate \/ Reload \/ Unreachable

EdgeNext ==
    \/ PlaybookStep \/ ChangeTemplate \/ Interrupt
    \/ \E h \in Hosts : Reboot(h) \/ \E s \in Services : RestartService(h, s)

EdgeSpec == EdgeInit /\ [][EdgeNext]_edgeVars

-----------------------------------------------------------------------------
(* Properties.                                                             *)

(* When a run of the playbook ends well, every file is what the templates  *)
(* say and every service has loaded it, over any number of failed runs and *)
(* reboots before it, with two exceptions.  The services whose             *)
(* notification a failed play dropped: no rerun reloads those, nor         *)
(* validates the file that it finds unchanged.  And the connector's        *)
(* HAProxy while the tunnel is down: such a tunnel, by itself restarted    *)
(* after its own task, and then HAProxy as well.                           *)
SuccessIsLoaded ==
    [][play'.step = "done" /\ play.step # "done"
          => \A h \in Hosts : \A s \in Parts(h) :
                 /\ disk'[h][s] = wanted[s]
                 /\ \/ running'[h][s] = Started(s, disk'[h][s])
                    \/ s \in lost'[h]
                    \/ ~Binds(h, s)']_edgeVars

(* What the playbook does by itself takes no service down, with one        *)
(* exception: the handler "Restart WireGuard" stops a tunnel that runs and *)
(* loads a wg0.conf which nothing has validated.  If that is bad the       *)
(* tunnel stays down, and the play fails with it (wireguard/tasks/         *)
(* main.yml:53-60, wireguard/handlers/main.yml:2-5).                       *)
PlaybookStopsNothing ==
    [][Calm => \A h \in Hosts, s \in Services :
                   running'[h][s] = "down" /\ running[h][s] # "down"
                       => /\ s = "wireguard" /\ disk[h][s] = "bad"
                          /\ play'.step = "failed"]_edgeVars

(* The file of a service that runs would load again after a reboot:        *)
(* HAProxy's always, the others' unless their handlers are still to run or *)
(* were dropped, or rejected the file.  WireGuard has no handler that      *)
(* rejects one.  (Whether HAProxy then finds its address is another        *)
(* matter: see Booted.)                                                    *)
FilesSurviveReboot ==
    \A h \in Hosts, s \in Services :
        running[h][s] # "down" /\ ~Loads(s, disk[h][s])
            => /\ s \in {"ssh", "nftables", "wireguard"}
               /\ s \in lost[h] \/ (Active /\ Host = h /\ s \in play.notified)
=============================================================================
