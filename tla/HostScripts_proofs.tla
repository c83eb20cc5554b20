-------------------------- MODULE HostScripts_proofs --------------------------
(***************************************************************************)
(* The playbook of the edge hosts and the import of the external cluster,  *)
(* for any number of incidents, failures, imports and generations.         *)
(***************************************************************************)
EXTENDS EdgeHosts, ClusterImport, TLAPS

-----------------------------------------------------------------------------
(* The playbook (EdgeHosts).                                               *)

LEMMA RoleFacts ==
    ASSUME NEW h \in Hosts
    PROVE  /\ Len(Roles(h)) \in {4, 5} /\ Parts(h) \subseteq Services
           /\ \A i \in 1 .. Len(Roles(h)) : Roles(h)[i] \in Parts(h)
           /\ \A s \in Parts(h) : \E i \in 1 .. Len(Roles(h)) : Roles(h)[i] = s
<1>1. CASE h = "vps"
  <2>1. Roles(h) = <<"ssh", "nftables", "wireguard", "haproxy", "gatus">>
    BY <1>1 DEF Roles
  <2> QED
    BY <1>1, <2>1 DEF Parts, Services
<1>2. CASE h = "connector"
  <2>1. Roles(h) = <<"ssh", "nftables", "wireguard", "haproxy">>
    BY <1>2 DEF Roles
  <2> QED
    BY <1>2, <2>1 DEF Parts, Services
<1> QED
  BY <1>1, <1>2 DEF Hosts

LEMMA RoleCount ==
    \A h \in Hosts : Len(Roles(h)) \in Nat /\ 1 <= Len(Roles(h)) /\ Len(Roles(h)) <= 5
  BY RoleFacts

Steps == {"idle", "configure", "enable", "validate", "reload", "done", "failed"}

(* Where the playbook is, as far as the types need to know.                *)
PlayTyped(p) == /\ p \in [step : Steps, host : Hosts, at : 1 .. 5, notified : SUBSET Services]
                /\ p.at <= Len(Roles(p.host))

Running == [Hosts -> [Services -> Texts \cup {"down"}]]

(* Only WireGuard has keys to be filled in.                                *)
Wanting == {w \in [Services -> Texts \ {"none"}] :
               \A s \in Services \ {"wireguard"} : w[s] # "placeholder"}

LEMMA EdgeTypeParts ==
    EdgeTypeOK <=> /\ wanted \in Wanting
                   /\ disk \in [Hosts -> [Services -> Texts]]
                   /\ running \in Running /\ PlayTyped(play)
                   /\ lost \in [Hosts -> SUBSET Services] /\ incidents \in Nat
  BY DEF EdgeTypeOK, PlayTyped, Steps, Running, Wanting

LEMMA StepNames ==
    /\ "idle" \in Steps /\ "configure" \in Steps /\ "enable" \in Steps /\ "validate" \in Steps
    /\ "reload" \in Steps /\ "done" \in Steps /\ "failed" \in Steps
    /\ "vps" \in Hosts /\ "connector" \in Hosts /\ {} \in SUBSET Services
  BY DEF Steps, Hosts

LEMMA PlayMoves ==
    ASSUME NEW p, PlayTyped(p), NEW step \in Steps, NEW n \in SUBSET Services
    PROVE  /\ PlayTyped([p EXCEPT !.step = step])
           /\ PlayTyped([p EXCEPT !.step = step, !.notified = n])
           /\ PlayTyped([p EXCEPT !.step = step, !.at = 1])
           /\ p.at < Len(Roles(p.host)) => PlayTyped([p EXCEPT !.step = step, !.at = p.at + 1])
<1>1. Len(Roles(p.host)) \in Nat /\ 1 <= Len(Roles(p.host)) /\ Len(Roles(p.host)) <= 5
  BY RoleCount DEF PlayTyped
<1>2. [p EXCEPT !.step = step].host = p.host /\ [p EXCEPT !.step = step].at = p.at
  BY DEF PlayTyped
<1>3. /\ [p EXCEPT !.step = step, !.notified = n].host = p.host
      /\ [p EXCEPT !.step = step, !.notified = n].at = p.at
  BY DEF PlayTyped
<1>4. /\ [p EXCEPT !.step = step, !.at = 1].host = p.host
      /\ [p EXCEPT !.step = step, !.at = 1].at = 1
  BY DEF PlayTyped
<1>5. /\ [p EXCEPT !.step = step, !.at = p.at + 1].host = p.host
      /\ [p EXCEPT !.step = step, !.at = p.at + 1].at = p.at + 1
  BY DEF PlayTyped
<1>6. PlayTyped([p EXCEPT !.step = step])
  BY <1>2 DEF PlayTyped
<1>7. PlayTyped([p EXCEPT !.step = step, !.notified = n])
  BY <1>3 DEF PlayTyped
<1>8. PlayTyped([p EXCEPT !.step = step, !.at = 1])
  <2>1. [p EXCEPT !.step = step, !.at = 1]
           \in [step : Steps, host : Hosts, at : 1 .. 5, notified : SUBSET Services]
    <3>1. 1 \in 1 .. 5
      OBVIOUS
    <3> QED
      BY <3>1 DEF PlayTyped
  <2> QED
    BY <1>1, <1>4, <2>1 DEF PlayTyped
<1>9. p.at < Len(Roles(p.host)) => PlayTyped([p EXCEPT !.step = step, !.at = p.at + 1])
  <2> SUFFICES ASSUME p.at < Len(Roles(p.host))
               PROVE  PlayTyped([p EXCEPT !.step = step, !.at = p.at + 1])
    OBVIOUS
  <2>1. p.at \in 1 .. 5 /\ p.at + 1 \in 1 .. 5 /\ p.at + 1 <= Len(Roles(p.host))
    BY <1>1 DEF PlayTyped
  <2>2. [p EXCEPT !.step = step, !.at = p.at + 1]
           \in [step : Steps, host : Hosts, at : 1 .. 5, notified : SUBSET Services]
    BY <2>1 DEF PlayTyped
  <2> QED
    BY <1>5, <2>1, <2>2 DEF PlayTyped
<1> QED
  BY <1>6, <1>7, <1>8, <1>9

LEMMA Started_Typed ==
    ASSUME NEW s, NEW text \in Texts
    PROVE  Started(s, text) \in Texts \cup {"down"} /\ Started(s, text) \in {text, "down"}
  BY DEF Started

LEMMA StartTyped ==
    ASSUME disk \in [Hosts -> [Services -> Texts]], NEW h \in Hosts, NEW s \in Services,
           NEW early
    PROVE  /\ Start(h, s) \in Texts \cup {"down"} /\ Booted(h, s, early) \in Texts \cup {"down"}
           /\ Start(h, s) = Started(s, disk[h][s]) \/ (Tied(h, s) /\ Start(h, s) = "down")
           /\ \/ Booted(h, s, early) = Started(s, disk[h][s])
              \/ Tied(h, s) /\ Booted(h, s, early) = "down"
<1>1. Started(s, disk[h][s]) \in Texts \cup {"down"}
  BY Started_Typed
<1> QED
  BY <1>1 DEF Start, Booted, Binds

LEMMA PlayStarts ==
    ASSUME NEW h \in Hosts, NEW step \in Steps
    PROVE  PlayTyped([step |-> step, host |-> h, at |-> 1, notified |-> {}])
<1>1. [step |-> step, host |-> h, at |-> 1, notified |-> {}]
         \in [step : Steps, host : Hosts, at : 1 .. 5, notified : SUBSET Services]
  OBVIOUS
<1> QED
  BY <1>1, RoleCount DEF PlayTyped

LEMMA EdgeTypeStarts == EdgeInit => EdgeTypeOK
<1> SUFFICES ASSUME EdgeInit
             PROVE  EdgeTypeOK
  OBVIOUS
<1>1. PICK new \in {{}, {"connector"}} :
         disk = [h \in Hosts |-> [s \in Services |->
                    IF h \in new \/ s \notin Parts(h) THEN "none" ELSE "old"]]
  BY DEF EdgeInit
<1>2. disk \in [Hosts -> [Services -> Texts]]
  BY <1>1 DEF Texts
<1>3. running \in Running
  BY <1>2 DEF EdgeInit, Running
<1>4. PlayTyped(play)
  BY PlayStarts, StepNames DEF EdgeInit
<1>5. wanted \in Wanting /\ lost \in [Hosts -> SUBSET Services]
      /\ incidents \in Nat
  BY DEF EdgeInit, Texts, Wanting
<1> QED
  BY <1>2, <1>3, <1>4, <1>5, EdgeTypeParts

LEMMA EdgeTypeKept == EdgeTypeOK /\ [EdgeNext]_edgeVars => EdgeTypeOK'
<1> SUFFICES ASSUME EdgeTypeOK, [EdgeNext]_edgeVars
             PROVE  EdgeTypeOK'
  OBVIOUS
<1>0. /\ wanted \in Wanting
      /\ disk \in [Hosts -> [Services -> Texts]]
      /\ running \in Running /\ PlayTyped(play)
      /\ lost \in [Hosts -> SUBSET Services] /\ incidents \in Nat
  BY EdgeTypeParts
<1>01. ASSUME wanted' \in Wanting,
              disk' \in [Hosts -> [Services -> Texts]],
              running' \in Running, PlayTyped(play'),
              lost' \in [Hosts -> SUBSET Services], incidents' \in Nat
       PROVE  EdgeTypeOK'
  BY <1>01 DEF EdgeTypeOK, PlayTyped, Steps, Running, Wanting
<1>1. Host \in Hosts /\ Role \in Services
  BY <1>0, RoleFacts DEF Host, Role, PlayTyped
<1>02. /\ \A step \in Steps : PlayTyped([play EXCEPT !.step = step])
       /\ PlayTyped([play EXCEPT !.step = "failed", !.notified = {}])
       /\ PlayTyped([play EXCEPT !.step = "validate", !.at = 1])
       /\ play.at < Len(Roles(play.host)) =>
             /\ PlayTyped([play EXCEPT !.step = "configure", !.at = play.at + 1])
             /\ PlayTyped([play EXCEPT !.step = "validate", !.at = play.at + 1])
       /\ \A h \in Hosts :
             PlayTyped([step |-> "configure", host |-> h, at |-> 1, notified |-> {}])
  BY <1>0, PlayMoves, PlayStarts, StepNames
<1>2. \A h \in Hosts : \A now :
         FailPlay(h, now) => lost' \in [Hosts -> SUBSET Services] /\ PlayTyped(play')
  <2>1. play.notified \in SUBSET Services
    BY <1>0 DEF PlayTyped
  <2> QED
    BY <1>0, <1>02, <2>1 DEF FailPlay
<1>3. CASE StartSite
  BY <1>0, <1>01, <1>3, <1>02, StepNames DEF StartSite, Calm
<1>4. CASE Configure
  <2>0. wanted[Role] \in Texts
    BY <1>0, <1>1 DEF Wanting
  <2>1. disk' \in [Hosts -> [Services -> Texts]]
    <3>1. CASE disk' = disk
      BY <1>0, <3>1
    <3>2. CASE disk' = [disk EXCEPT ![Host][Role] = wanted[Role]]
      BY <1>0, <1>1, <2>0, <3>2
    <3> QED
      BY <1>4, <3>1, <3>2 DEF Configure
  <2>2. (play.notified \cup IF Notifies(Role) THEN {Role} ELSE {}) \in SUBSET Services
    BY <1>0, <1>1 DEF PlayTyped
  <2>3. PlayTyped([play EXCEPT !.step = "enable",
                      !.notified = play.notified \cup IF Notifies(Role) THEN {Role} ELSE {}])
    BY <1>0, <2>2, PlayMoves, StepNames
  <2>4. lost' \in [Hosts -> SUBSET Services] /\ PlayTyped(play')
    BY <1>0, <1>1, <1>2, <1>4, <2>3 DEF Configure
  <2> QED
    BY <1>0, <1>01, <1>4, <2>1, <2>4 DEF Configure, On, Calm
<1>5. CASE Enable
  <2>1. running' \in Running
    BY <1>0, <1>1, <1>5, StartTyped DEF Enable, Running
  <2>2. NextTask => PlayTyped(play')
    BY <1>0, <1>02, StepNames DEF NextTask, Host
  <2>3. lost' \in [Hosts -> SUBSET Services] /\ PlayTyped(play')
    BY <1>0, <1>1, <1>2, <1>5, <2>2 DEF Enable
  <2> QED
    BY <1>0, <1>01, <1>5, <2>1, <2>3 DEF Enable, On, Calm
<1>6. CASE Validate
  <2>1. lost' \in [Hosts -> SUBSET Services] /\ PlayTyped(play')
    BY <1>0, <1>1, <1>2, <1>6, <1>02, StepNames DEF Validate
  <2> QED
    BY <1>0, <1>01, <1>6, <2>1 DEF Validate, On, Calm
<1>7. CASE Reload
  <2>1. running' \in Running
    <3>1. Reloaded(Host, Role) \in Texts \cup {"down"}
      BY <1>0, <1>1, StartTyped DEF Reloaded, Running
    <3> QED
      BY <1>0, <1>1, <1>7, <3>1 DEF Reload, Running
  <2>2. NextPlay => PlayTyped(play')
    BY <1>0, <1>02, StepNames DEF NextPlay
  <2>3. play.at < Len(Roles(Host)) =>
           PlayTyped([play EXCEPT !.step = "validate", !.at = play.at + 1])
    BY <1>0, <1>02, StepNames DEF Host
  <2>4. lost' \in [Hosts -> SUBSET Services] /\ PlayTyped(play')
    <3>1. [lost EXCEPT ![Host] = lost[Host] \ (play.notified \cap {Role})]
             \in [Hosts -> SUBSET Services]
      BY <1>0, <1>1
    <3> QED
      BY <1>1, <1>2, <1>7, <2>2, <2>3, <3>1 DEF Reload
  <2> QED
    BY <1>0, <1>01, <1>7, <2>1, <2>4 DEF Reload, On, Calm
<1>8. CASE ChangeTemplate
  <2>1. wanted' \in Wanting
    BY <1>0, <1>8 DEF ChangeTemplate, Texts, Services, Wanting
  <2> QED
    BY <1>0, <1>01, <1>8, <2>1 DEF ChangeTemplate, Incident
<1>9. CASE Interrupt \/ Unreachable
  BY <1>0, <1>01, <1>1, <1>2, <1>9 DEF Interrupt, Unreachable, Incident, Calm
<1>10. ASSUME NEW h \in Hosts, Reboot(h)
       PROVE  EdgeTypeOK'
  <2>1. running' \in Running
    BY <1>0, <1>10, StartTyped DEF Reboot, Running
  <2>2. PlayTyped(play')
    BY <1>0, <1>10, <1>02, StepNames DEF Reboot
  <2>3. lost' \in [Hosts -> SUBSET Services]
    BY <1>0, <1>10 DEF Reboot
  <2> QED
    BY <1>0, <1>01, <1>10, <2>1, <2>2, <2>3 DEF Reboot, Incident
<1>11. ASSUME NEW h \in Hosts, NEW s \in Services, RestartService(h, s)
       PROVE  EdgeTypeOK'
  <2>1. running' \in Running
    BY <1>0, <1>11, StartTyped DEF RestartService, Running
  <2>2. lost' \in [Hosts -> SUBSET Services]
    BY <1>0, <1>11 DEF RestartService
  <2> QED
    BY <1>0, <1>01, <1>11, <2>1, <2>2 DEF RestartService, Incident
<1>12. CASE UNCHANGED edgeVars
  BY <1>12 DEF edgeVars, EdgeTypeOK
<1> QED
  BY <1>3, <1>4, <1>5, <1>6, <1>7, <1>8, <1>9, <1>10, <1>11, <1>12 DEF EdgeNext, PlaybookStep

(* What is known of a service: a text that can be on disk, what it runs,   *)
(* and that it runs what it would start with, unless a notification is     *)
(* pending or was dropped; the connector's HAProxy may have found its      *)
(* address missing.                                                        *)
Known(h, s) ==
    /\ disk[h][s] # "placeholder"
    /\ s = "haproxy" => disk[h][s] # "bad"
    /\ disk[h][s] = "none" /\ s # "ssh" => running[h][s] = "down"
    /\ running[h][s] # "down" => Loads(s, running[h][s])

AsStarted(h, s) == \/ running[h][s] = Started(s, disk[h][s])
                   \/ Tied(h, s) /\ running[h][s] = "down"
Loaded(h, s) ==
    AsStarted(h, s) \/ s \in lost[h] \/ (Active /\ Host = h /\ s \in play.notified)

(* What is known of the play: the handlers before the present one did      *)
(* their work, the present one is not run on an invalid file, and the      *)
(* templates are on disk as far as the tasks have come.                    *)
Handled ==
    play.step \in {"validate", "reload"} =>
        \A i \in 1 .. Len(Roles(Host)) :
            i < play.at /\ Roles(Host)[i] \in play.notified => AsStarted(Host, Roles(Host)[i])
Validated == play.step = "reload" /\ Role \in play.notified => ~Invalid(Role)
Written ==
    Active =>
      /\ play.notified \subseteq Parts(Host)
      /\ Host = "connector" => \A s \in Parts("vps") : disk["vps"][s] = wanted[s]
      /\ \A i \in 1 .. Len(Roles(Host)) :
            play.step \in {"validate", "reload"} \/ i < play.at
                \/ (play.step = "enable" /\ i = play.at)
              => disk[Host][Roles(Host)[i]] = wanted[Roles(Host)[i]]

EdgeInv == /\ EdgeTypeOK
           /\ \A h \in Hosts, s \in Services : Known(h, s) /\ Loaded(h, s)
           /\ Handled /\ Validated /\ Written

LEMMA StartedFacts ==
    ASSUME NEW s, NEW text \in Texts
    PROVE  /\ text # "down"
           /\ Started(s, text) # "down" => Started(s, text) = text /\ Loads(s, text)
           /\ Loads(s, text) => Started(s, text) = text
           /\ text = "none" /\ s # "ssh" => ~Loads(s, text) /\ Started(s, text) = "down"
  BY DEF Started, Texts, Loads

(* A play that fails: what it had notified is in "lost", or loaded.        *)
LEMMA FailingKeeps ==
    ASSUME EdgeInv, EdgeTypeOK', FailPlay(Host, running'), UNCHANGED <<wanted, disk>>,
           \A h \in Hosts, s \in Services : Known(h, s)',
           \A h \in Hosts, s \in Services : h # Host \/ s \notin play.notified
               => AsStarted(h, s)' \/ s \in lost[h]
    PROVE  EdgeInv'
<1>0. /\ disk \in [Hosts -> [Services -> Texts]] /\ lost \in [Hosts -> SUBSET Services]
      /\ PlayTyped(play)
  BY EdgeTypeParts DEF EdgeInv
<1>1. play'.step = "failed"
  BY <1>0 DEF FailPlay, PlayTyped
<1>2. ASSUME NEW h \in Hosts, NEW s \in Services
      PROVE  Loaded(h, s)'
  <2>1. lost[h] \subseteq lost'[h]
    BY <1>0, <1>2 DEF FailPlay
  <2>2. CASE h = Host /\ s \in play.notified
    <3>1. CASE running'[h][s] # disk[h][s]
      BY <1>0, <1>2, <2>2, <3>1 DEF FailPlay, Loaded
    <3>2. CASE running'[h][s] = disk[h][s]
      <4>1. disk[h][s] \in Texts
        BY <1>0, <1>2
      <4>2. Loads(s, disk[h][s])
        BY <1>2, <3>2, <4>1, StartedFacts DEF Known
      <4> QED
        BY <3>2, <4>1, <4>2, StartedFacts DEF Loaded, AsStarted
    <3> QED
      BY <3>1, <3>2
  <2>3. CASE h # Host \/ s \notin play.notified
    BY <1>2, <2>1, <2>3 DEF Loaded
  <2> QED
    BY <2>2, <2>3
<1> QED
  BY <1>1, <1>2 DEF EdgeInv, Handled, Validated, Written, Active

LEMMA EdgeStarts == EdgeInit => EdgeInv
<1> SUFFICES ASSUME EdgeInit
             PROVE  EdgeInv
  OBVIOUS
<1>1. EdgeTypeOK
  BY EdgeTypeStarts
<1>2. play.step = "idle"
  BY DEF EdgeInit
<1>3. ASSUME NEW h \in Hosts, NEW s \in Services
      PROVE  Known(h, s) /\ Loaded(h, s)
  <2>1. disk[h][s] \in {"none", "old"}
    BY <1>3 DEF EdgeInit
  <2>2. running[h][s] = IF disk[h][s] = "none" /\ s # "ssh" THEN "down" ELSE disk[h][s]
    BY <1>3 DEF EdgeInit
  <2> QED
    BY <2>1, <2>2 DEF Known, Loaded, AsStarted, Started, Loads
<1> QED
  BY <1>1, <1>2, <1>3 DEF EdgeInv, Handled, Validated, Written, Active

(* The steps of the playbook.                                              *)
LEMMA ConfigureKeeps == EdgeInv /\ EdgeTypeOK' /\ Configure => EdgeInv'
<1> SUFFICES ASSUME EdgeInv, EdgeTypeOK', Configure
             PROVE  EdgeInv'
  OBVIOUS
<1>0. /\ disk \in [Hosts -> [Services -> Texts]] /\ lost \in [Hosts -> SUBSET Services]
      /\ PlayTyped(play) /\ Host \in Hosts /\ Role \in Parts(Host) /\ Role \in Services
      /\ wanted \in Wanting
  BY EdgeTypeParts, RoleFacts DEF EdgeInv, PlayTyped, Host, Role
<1>1. play.step = "configure" /\ Active /\ UNCHANGED <<wanted, running>>
  BY DEF Configure, On, Active
<1>2. CASE Refused(Role)
  <2>1. FailPlay(Host, running) /\ UNCHANGED disk
    BY <1>2 DEF Configure
  <2>2. \A h \in Hosts, s \in Services : Known(h, s)'
    BY <1>1, <2>1 DEF EdgeInv, Known
  <2> QED
    BY <1>1, <2>1, <2>2, FailingKeeps DEF EdgeInv, Loaded, AsStarted
<1>3. CASE ~Refused(Role)
  <2>1. /\ disk' = [disk EXCEPT ![Host][Role] = wanted[Role]] /\ lost' = lost
        /\ play' = [play EXCEPT !.step = "enable", !.notified =
                       play.notified \cup IF Notifies(Role) THEN {Role} ELSE {}]
    BY <1>3 DEF Configure
  <2>2. /\ play'.step = "enable" /\ play'.at = play.at /\ Host' = Host /\ Active'
        /\ play'.notified = play.notified \cup IF Notifies(Role) THEN {Role} ELSE {}
    BY <1>0, <2>1 DEF PlayTyped, Host, Active
  <2>3. disk'[Host][Role] = wanted[Role]
    BY <1>0, <2>1
  <2>4. \A h \in Hosts, s \in Services : h # Host \/ s # Role => disk'[h][s] = disk[h][s]
    BY <1>0, <2>1
  <2>5. ASSUME NEW h \in Hosts, NEW s \in Services
        PROVE  Known(h, s)'
    <3>1. s = Role => /\ wanted[s] # "placeholder" /\ wanted[s] # "none"
                      /\ s = "haproxy" => wanted[s] # "bad"
      BY <1>0, <1>3, <2>5 DEF Refused, Unfilled, Wanting
    <3> QED
      BY <1>0, <1>1, <2>3, <2>4, <2>5, <3>1 DEF EdgeInv, Known
  <2>6. ASSUME NEW h \in Hosts, NEW s \in Services
        PROVE  Loaded(h, s)'
    <3>1. CASE h = Host /\ s = Role
      BY <1>1, <2>1, <2>2, <2>3, <2>6, <3>1 DEF EdgeInv, Loaded, AsStarted, Notifies
    <3>2. CASE h # Host \/ s # Role
      BY <1>1, <2>1, <2>2, <2>4, <2>6, <3>2 DEF EdgeInv, Loaded, AsStarted
    <3> QED
      BY <3>1, <3>2
  <2>7. Written'
    <3>1. \A i \in 1 .. Len(Roles(Host)) : i < play.at \/ i = play.at =>
             disk'[Host][Roles(Host)[i]] = wanted[Roles(Host)[i]]
      <4> TAKE i \in 1 .. Len(Roles(Host))
      <4>1. Roles(Host)[i] \in Services
        BY <1>0, RoleFacts
      <4>2. Role = Roles(Host)[play.at]
        BY DEF Role
      <4>3. i < play.at => disk[Host][Roles(Host)[i]] = wanted[Roles(Host)[i]]
        BY <1>1 DEF EdgeInv, Written
      <4> QED
        BY <1>0, <2>3, <2>4, <4>1, <4>2, <4>3
    <3>2. Host = "connector" => \A s \in Parts("vps") : disk'["vps"][s] = wanted[s]
      BY <1>0, <1>1, <2>4, RoleFacts, StepNames DEF EdgeInv, Written
    <3> QED
      BY <1>0, <1>1, <2>2, <3>1, <3>2 DEF EdgeInv, Written
  <2> QED
    BY <2>2, <2>5, <2>6, <2>7 DEF EdgeInv, Handled, Validated
<1> QED
  BY <1>2, <1>3

LEMMA EnableKeeps == EdgeInv /\ EdgeTypeOK' /\ Enable => EdgeInv'
<1> SUFFICES ASSUME EdgeInv, EdgeTypeOK', Enable
             PROVE  EdgeInv'
  OBVIOUS
<1>0. /\ disk \in [Hosts -> [Services -> Texts]] /\ lost \in [Hosts -> SUBSET Services]
      /\ running \in Running
      /\ PlayTyped(play) /\ Host \in Hosts /\ Role \in Parts(Host) /\ Role \in Services
  BY EdgeTypeParts, RoleFacts DEF EdgeInv, PlayTyped, Host, Role
<1>1. play.step = "enable" /\ Active /\ UNCHANGED <<wanted, disk>>
  BY DEF Enable, On, Active
<1>2. running'[Host][Role] = IF Role # "ssh" /\ running[Host][Role] = "down"
                             THEN Start(Host, Role) ELSE running[Host][Role]
  BY <1>0 DEF Enable, Running
<1>3. \A h \in Hosts, s \in Services : h # Host \/ s # Role => running'[h][s] = running[h][s]
  BY <1>0 DEF Enable, Running
<1>4. ASSUME NEW h \in Hosts, NEW s \in Services
      PROVE  Known(h, s)' /\ (running'[h][s] = running[h][s] \/ AsStarted(h, s)')
  <2>1. disk[h][s] \in Texts
    BY <1>0, <1>4
  <2>2. CASE running'[h][s] = running[h][s]
    BY <1>1, <1>4, <2>2 DEF EdgeInv, Known
  <2>3. CASE h = Host /\ s = Role /\ s # "ssh" /\ running'[h][s] = Start(h, s)
    <3>1. AsStarted(h, s)'
      BY <1>0, <1>1, <1>4, <2>3, StartTyped DEF AsStarted, Tied
    <3> QED
      BY <1>1, <1>4, <2>1, <3>1, StartedFacts DEF EdgeInv, Known, AsStarted
  <2> QED
    BY <1>2, <1>3, <1>4, <2>2, <2>3
<1>5. CASE FailPlay(Host, running')
  BY <1>1, <1>4, <1>5, FailingKeeps DEF EdgeInv, Loaded, AsStarted
<1>6. CASE NextTask /\ UNCHANGED lost
  <2>1. play' = IF play.at < Len(Roles(Host))
                THEN [play EXCEPT !.step = "configure", !.at = play.at + 1]
                ELSE [play EXCEPT !.step = "validate", !.at = 1]
    BY <1>6 DEF NextTask
  <2>2. /\ play'.step = IF play.at < Len(Roles(Host)) THEN "configure" ELSE "validate"
        /\ play'.at = IF play.at < Len(Roles(Host)) THEN play.at + 1 ELSE 1
        /\ play'.notified = play.notified /\ Host' = Host /\ Active'
    BY <1>0, <2>1 DEF PlayTyped, Host, Active
  <2>3. ASSUME NEW h \in Hosts, NEW s \in Services
        PROVE  Loaded(h, s)'
    BY <1>1, <1>4, <1>6, <2>2, <2>3 DEF EdgeInv, Loaded, AsStarted
  <2>4. Handled'
    BY <1>0, <2>2, RoleCount DEF Handled
  <2>5. Written'
    <3>1. play.at \in 1 .. Len(Roles(Host)) /\ Len(Roles(Host)) \in Nat
      BY <1>0, RoleCount DEF PlayTyped, Host
    <3>2. \A i \in 1 .. Len(Roles(Host)) : i < play.at \/ i = play.at =>
             disk[Host][Roles(Host)[i]] = wanted[Roles(Host)[i]]
      BY <1>1 DEF EdgeInv, Written
    <3>3. ASSUME NEW i \in 1 .. Len(Roles(Host)),
                 play'.step \in {"validate", "reload"} \/ i < play'.at
          PROVE  i < play.at \/ i = play.at
      BY <2>2, <3>1, <3>3
    <3> QED
      BY <1>1, <2>2, <3>2, <3>3 DEF EdgeInv, Written
  <2> QED
    BY <1>4, <2>2, <2>3, <2>4, <2>5 DEF EdgeInv, Validated
<1> QED
  BY <1>5, <1>6 DEF Enable

LEMMA ValidateKeeps == EdgeInv /\ EdgeTypeOK' /\ Validate => EdgeInv'
<1> SUFFICES ASSUME EdgeInv, EdgeTypeOK', Validate
             PROVE  EdgeInv'
  OBVIOUS
<1>0. PlayTyped(play)
  BY EdgeTypeParts DEF EdgeInv
<1>1. play.step = "validate" /\ Active /\ UNCHANGED <<wanted, disk, running>>
  BY DEF Validate, On, Active
<1>2. \A h \in Hosts, s \in Services : Known(h, s)'
  BY <1>1 DEF EdgeInv, Known
<1>3. CASE FailPlay(Host, running)
  BY <1>1, <1>2, <1>3, FailingKeeps DEF EdgeInv, Loaded, AsStarted
<1>4. CASE /\ Role \in play.notified => ~Invalid(Role)
           /\ play' = [play EXCEPT !.step = "reload"] /\ UNCHANGED lost
  <2>1. /\ play'.step = "reload" /\ play'.at = play.at /\ play'.notified = play.notified
        /\ Host' = Host /\ Role' = Role /\ Active'
    BY <1>0, <1>4 DEF PlayTyped, Host, Role, Active
  <2>2. ASSUME NEW h \in Hosts, NEW s \in Services
        PROVE  Loaded(h, s)'
    BY <1>1, <1>4, <2>1, <2>2 DEF EdgeInv, Loaded, AsStarted
  <2>3. Handled' /\ Validated'
    BY <1>1, <1>4, <2>1 DEF EdgeInv, Handled, Validated, Invalid, AsStarted
  <2>4. Written'
    BY <1>1, <1>4, <2>1 DEF EdgeInv, Written
  <2> QED
    BY <1>2, <2>2, <2>3, <2>4 DEF EdgeInv
<1> QED
  BY <1>3, <1>4 DEF Validate

LEMMA ReloadKeeps == EdgeInv /\ EdgeTypeOK' /\ Reload => EdgeInv'
<1> SUFFICES ASSUME EdgeInv, EdgeTypeOK', Reload
             PROVE  EdgeInv'
  OBVIOUS
<1>0. /\ disk \in [Hosts -> [Services -> Texts]] /\ lost \in [Hosts -> SUBSET Services]
      /\ running \in Running
      /\ PlayTyped(play) /\ Host \in Hosts /\ Role \in Parts(Host) /\ Role \in Services
  BY EdgeTypeParts, RoleFacts DEF EdgeInv, PlayTyped, Host, Role
<1>1. play.step = "reload" /\ Active /\ UNCHANGED <<wanted, disk>>
  BY DEF Reload, On, Active
<1>2. running'[Host][Role] = IF Role \in play.notified
                             THEN Reloaded(Host, Role)
                             ELSE running[Host][Role]
  BY <1>0 DEF Reload, Running
<1>3. \A h \in Hosts, s \in Services : h # Host \/ s # Role => running'[h][s] = running[h][s]
  BY <1>0 DEF Reload, Running
<1>4. ASSUME NEW h \in Hosts, NEW s \in Services
      PROVE  Known(h, s)'
  <2>1. disk[h][s] \in Texts
    BY <1>0, <1>4
  <2>2. CASE running'[h][s] = running[h][s]
    BY <1>1, <1>4, <2>2 DEF EdgeInv, Known
  <2>3. CASE running'[h][s] = Reloaded(h, s)
    <3>1. \/ running'[h][s] = running[h][s]
          \/ running'[h][s] = Started(s, disk[h][s])
          \/ running'[h][s] = "down"
      BY <1>0, <1>4, <2>3, StartTyped DEF Reloaded, Started
    <3>2. CASE running'[h][s] = Started(s, disk[h][s])
      BY <1>1, <1>4, <2>1, <3>2, StartedFacts DEF EdgeInv, Known
    <3>3. CASE running'[h][s] = "down"
      BY <1>1, <1>4, <3>3 DEF EdgeInv, Known
    <3> QED
      BY <2>2, <3>1, <3>2, <3>3
  <2> QED
    BY <1>2, <1>3, <1>4, <2>2, <2>3
<1>5. CASE /\ Role \in play.notified
           /\ FailPlay(Host, running')
  BY <1>1, <1>3, <1>4, <1>5, FailingKeeps DEF EdgeInv, Loaded, AsStarted
<1>6. CASE /\ Role \in play.notified => running'[Host][Role] = disk[Host][Role]
           /\ lost' = [lost EXCEPT ![Host] = lost[Host] \ (play.notified \cap {Role})]
           /\ IF play.at < Len(Roles(Host))
              THEN play' = [play EXCEPT !.step = "validate", !.at = play.at + 1]
              ELSE NextPlay
  <2>1. \A h \in Hosts, s \in Services :
           running'[h][s] # "down" => Loads(s, running'[h][s])
    BY <1>4 DEF Known
  <2>2. \A h \in Hosts, s \in Services :
           h # Host \/ s # Role \/ Role \notin play.notified => (s \in lost[h] => s \in lost'[h])
    BY <1>0, <1>6
  <2>3. \A h \in Hosts, s \in Services :
           AsStarted(h, s)' \/ s \in lost'[h] \/ (h = Host /\ s \in play.notified)
    <3> TAKE h \in Hosts, s \in Services
    <3>1. CASE h = Host /\ s = Role /\ Role \in play.notified
      BY <3>1
    <3>2. CASE ~(h = Host /\ s = Role /\ Role \in play.notified)
      BY <1>1, <1>2, <1>3, <2>2, <3>2 DEF EdgeInv, Loaded, AsStarted
    <3> QED
      BY <3>1, <3>2
  <2>4. Role = Roles(Host)[play.at]
    BY DEF Role
  <2>5. \A i \in 1 .. Len(Roles(Host)) :
           i <= play.at /\ Roles(Host)[i] \in play.notified =>
              \/ running'[Host][Roles(Host)[i]]
                   = Started(Roles(Host)[i], disk[Host][Roles(Host)[i]])
              \/ Tied(Host, Roles(Host)[i]) /\ running'[Host][Roles(Host)[i]] = "down"
    <3> TAKE i \in 1 .. Len(Roles(Host))
    <3>1. Roles(Host)[i] \in Services
      BY <1>0, RoleFacts
    <3>2. Role \in play.notified =>
             running'[Host][Role] = Started(Role, disk[Host][Role])
      <4>1. disk[Host][Role] \in Texts
        BY <1>0
      <4>2. running'[Host][Role] # "down" => Loads(Role, running'[Host][Role])
        BY <1>0, <2>1
      <4> QED
        BY <1>6, <4>1, <4>2, StartedFacts
    <3>3. i < play.at /\ Roles(Host)[i] \in play.notified => AsStarted(Host, Roles(Host)[i])
      BY <1>1 DEF EdgeInv, Handled
    <3>4. play.at \in Nat /\ i \in Nat
      BY <1>0 DEF PlayTyped
    <3> QED
      BY <1>0, <1>3, <2>4, <3>1, <3>2, <3>3, <3>4 DEF AsStarted
  <2>6. play.at \in 1 .. Len(Roles(Host)) /\ Len(Roles(Host)) \in Nat
    BY <1>0, RoleCount DEF PlayTyped, Host
  <2>7. CASE play.at < Len(Roles(Host))
    <3>1. /\ play'.step = "validate" /\ play'.at = play.at + 1
          /\ play'.notified = play.notified /\ Host' = Host /\ Active'
      BY <1>0, <1>6, <2>7 DEF PlayTyped, Host, Active
    <3>2. ASSUME NEW h \in Hosts, NEW s \in Services
          PROVE  Loaded(h, s)'
      BY <2>3, <3>1, <3>2 DEF Loaded
    <3>3. Handled'
      BY <1>1, <2>5, <2>6, <3>1 DEF Handled, AsStarted, Tied
    <3>4. Written'
      BY <1>1, <3>1 DEF EdgeInv, Written
    <3> QED
      BY <1>4, <3>1, <3>2, <3>3, <3>4 DEF EdgeInv, Validated
  <2>8. CASE ~(play.at < Len(Roles(Host)))
    <3>1. play.at = Len(Roles(Host))
      BY <2>6, <2>8
    <3>2. \A s \in Parts(Host) : \E i \in 1 .. Len(Roles(Host)) : Roles(Host)[i] = s
      BY <1>0, RoleFacts
    <3>3. play.notified \subseteq Parts(Host)
      BY <1>1 DEF EdgeInv, Written
    <3>4. ASSUME NEW h \in Hosts, NEW s \in Services
          PROVE  AsStarted(h, s)' \/ s \in lost'[h]
      <4>1. CASE h = Host /\ s \in play.notified
        <5>1. PICK i \in 1 .. Len(Roles(Host)) : Roles(Host)[i] = s
          BY <3>2, <3>3, <4>1
        <5>2. i <= play.at
          BY <2>6, <3>1
        <5> QED
          BY <1>1, <2>5, <4>1, <5>1, <5>2 DEF AsStarted, Tied
      <4>2. CASE ~(h = Host /\ s \in play.notified)
        BY <2>3, <3>4, <4>2
      <4> QED
        BY <4>1, <4>2
    <3>5. Host = "vps" => \A s \in Parts("vps") : disk["vps"][s] = wanted[s]
      BY <1>1, <3>2 DEF EdgeInv, Written
    <3>6. /\ Host = "vps" => play' = [step |-> "configure", host |-> "connector", at |-> 1,
                                      notified |-> {}]
          /\ Host # "vps" => play'.step = "done"
      BY <1>0, <1>6, <2>8 DEF NextPlay, PlayTyped
    <3>7. play'.step \in {"configure", "done"}
      BY <3>6
    <3>8. Written'
      <4>1. CASE Host = "vps"
        <5>1. play'.step = "configure" /\ Host' = "connector" /\ play'.at = 1
              /\ play'.notified = {}
          BY <3>6, <4>1 DEF Host
        <5>2. \A i \in 1 .. Len(Roles("connector")) : ~(i < 1)
          BY RoleCount, StepNames
        <5> QED
          BY <1>1, <3>5, <4>1, <5>1, <5>2 DEF Written
      <4>2. CASE Host # "vps"
        BY <3>6, <4>2 DEF Written, Active
      <4> QED
        BY <4>1, <4>2
    <3> QED
      BY <1>4, <3>4, <3>7, <3>8 DEF EdgeInv, Handled, Validated, Loaded
  <2> QED
    BY <2>7, <2>8
<1> QED
  BY <1>5, <1>6 DEF Reload

(* Everything else.                                                        *)
LEMMA AroundKeeps ==
    ASSUME EdgeInv, EdgeTypeOK',
           \/ StartSite \/ ChangeTemplate \/ Interrupt \/ Unreachable \/ UNCHANGED edgeVars
           \/ \E h \in Hosts : Reboot(h) \/ \E s \in Services : RestartService(h, s)
    PROVE  EdgeInv'
<1>0. /\ disk \in [Hosts -> [Services -> Texts]] /\ lost \in [Hosts -> SUBSET Services]
      /\ running \in Running /\ PlayTyped(play) /\ Host \in Hosts
  BY EdgeTypeParts, RoleFacts DEF EdgeInv, PlayTyped, Host
<1>1. CASE StartSite
  <2>1. /\ play'.step = "configure" /\ play'.at = 1 /\ play'.notified = {} /\ Host' = "vps"
        /\ Active' /\ ~Active /\ UNCHANGED <<wanted, disk, running, lost>>
    BY <1>1 DEF StartSite, Host, Active
  <2>2. Written'
    <3>1. \A i \in 1 .. Len(Roles("vps")) : ~(i < 1)
      BY RoleCount, StepNames
    <3> QED
      BY <2>1, <3>1 DEF Written
  <2> QED
    BY <2>1, <2>2 DEF EdgeInv, Known, Loaded, AsStarted, Handled, Validated
<1>2. CASE ChangeTemplate
  <2>1. ~Active /\ UNCHANGED <<disk, running, play, lost>>
    BY <1>2 DEF ChangeTemplate
  <2>2. ~Active' /\ play.step \notin {"validate", "reload"}
    BY <2>1 DEF Active
  <2> QED
    BY <2>1, <2>2 DEF EdgeInv, Known, Loaded, AsStarted, Handled, Validated, Written
<1>3. CASE Interrupt \/ Unreachable
  <2>1. FailPlay(Host, running) /\ UNCHANGED <<wanted, disk, running>>
    BY <1>3 DEF Interrupt, Unreachable
  <2>2. \A h \in Hosts, s \in Services : Known(h, s)'
    BY <2>1 DEF EdgeInv, Known
  <2> QED
    BY <2>1, <2>2, FailingKeeps DEF EdgeInv, Loaded, AsStarted
<1>4. ASSUME NEW h \in Hosts, Reboot(h)
      PROVE  EdgeInv'
  <2>1. UNCHANGED <<wanted, disk>>
    BY <1>4 DEF Reboot
  <2>2. /\ \A s \in Services :
              /\ s \notin lost'[h]
              /\ \/ running'[h][s] = Started(s, disk[h][s])
                 \/ Tied(h, s) /\ running'[h][s] = "down"
        /\ \A g \in Hosts \ {h} : running'[g] = running[g] /\ lost'[g] = lost[g]
    BY <1>0, <1>4, StartTyped DEF Reboot, Running
  <2>3. ASSUME NEW g \in Hosts, NEW s \in Services
        PROVE  Known(g, s)'
    <3>1. disk[g][s] \in Texts
      BY <1>0, <2>3
    <3> QED
      BY <2>1, <2>2, <2>3, <3>1, StartedFacts DEF EdgeInv, Known
  <2>4. CASE Active /\ Host = h
    <3>1. play'.step = "failed"
      BY <1>0, <1>4, <2>4 DEF Reboot, PlayTyped
    <3>2. ASSUME NEW g \in Hosts, NEW s \in Services
          PROVE  Loaded(g, s)'
      BY <2>1, <2>2, <2>4, <3>2 DEF EdgeInv, Loaded, AsStarted
    <3> QED
      BY <2>3, <3>1, <3>2 DEF EdgeInv, Handled, Validated, Written, Active
  <2>5. CASE ~(Active /\ Host = h)
    <3>1. UNCHANGED play /\ Host' = Host /\ Role' = Role /\ (Active' <=> Active)
      BY <1>4, <2>5 DEF Reboot, Host, Role, Active
    <3>2. ASSUME NEW g \in Hosts, NEW s \in Services
          PROVE  Loaded(g, s)'
      BY <2>1, <2>2, <3>1, <3>2 DEF EdgeInv, Loaded, AsStarted
    <3>3. Handled'
      <4> SUFFICES ASSUME play.step \in {"validate", "reload"}
                   PROVE  Handled'
        BY <3>1 DEF Handled
      <4>1. Active
        BY DEF Active
      <4>2. running'[Host] = running[Host]
        BY <1>0, <2>2, <2>5, <4>1
      <4> QED
        BY <2>1, <3>1, <4>2 DEF EdgeInv, Handled, AsStarted
    <3> QED
      BY <2>1, <2>3, <3>1, <3>2, <3>3 DEF EdgeInv, Validated, Invalid, Written
  <2> QED
    BY <2>4, <2>5
<1>5. ASSUME NEW h \in Hosts, NEW s \in Services, RestartService(h, s)
      PROVE  EdgeInv'
  <2>1. /\ UNCHANGED <<wanted, disk, play>>
        /\ Host' = Host /\ Role' = Role /\ (Active' <=> Active)
    BY <1>5 DEF RestartService, Host, Role, Active
  <2>2. /\ \/ running'[h][s] = Started(s, disk[h][s])
           \/ Tied(h, s) /\ running'[h][s] = "down"
        /\ \A g \in Hosts, q \in Services : g # h \/ q # s =>
              running'[g][q] = running[g][q] /\ (q \in lost[g] => q \in lost'[g])
    BY <1>0, <1>5, StartTyped DEF RestartService, Running
  <2>3. ASSUME NEW g \in Hosts, NEW q \in Services
        PROVE  Known(g, q)' /\ Loaded(g, q)'
    <3>1. disk[g][q] \in Texts
      BY <1>0, <2>3
    <3> QED
      BY <2>1, <2>2, <2>3, <3>1, StartedFacts DEF EdgeInv, Known, Loaded, AsStarted
  <2>4. Handled'
    <3>1. \A i \in 1 .. Len(Roles(Host)) : Roles(Host)[i] \in Services
      BY <1>0, RoleFacts
    <3> QED
      BY <1>0, <2>1, <2>2, <3>1 DEF EdgeInv, Handled, AsStarted
  <2> QED
    BY <2>1, <2>3, <2>4 DEF EdgeInv, Validated, Invalid, Written
<1>6. CASE UNCHANGED edgeVars
  BY <1>6 DEF edgeVars, EdgeInv, Known, Loaded, AsStarted, Handled, Validated, Invalid,
              Written, Active, Host, Role
<1> QED
  BY <1>1, <1>2, <1>3, <1>4, <1>5, <1>6

LEMMA EdgeKept == EdgeInv /\ [EdgeNext]_edgeVars => EdgeInv'
<1>1. EdgeInv /\ [EdgeNext]_edgeVars => EdgeTypeOK'
  BY EdgeTypeKept DEF EdgeInv
<1> QED
  BY <1>1, ConfigureKeeps, EnableKeeps, ValidateKeeps, ReloadKeeps, AroundKeeps
     DEF EdgeNext, PlaybookStep

LEMMA EdgeInvariant == EdgeSpec => []EdgeInv
  BY EdgeStarts, EdgeKept, PTL DEF EdgeSpec

(* Whatever fails, reboots or is restarted, the file of a service that     *)
(* runs would load again, but for sshd's, nftables' and WireGuard's while  *)
(* their handlers are to run, or were dropped, or rejected the file.       *)
THEOREM FilesSurvive == EdgeSpec => []FilesSurviveReboot
<1>1. EdgeInv => FilesSurviveReboot
  <2> SUFFICES ASSUME EdgeInv, NEW h \in Hosts, NEW s \in Services,
                      running[h][s] # "down", ~Loads(s, disk[h][s])
               PROVE  /\ s \in {"ssh", "nftables", "wireguard"}
                      /\ s \in lost[h] \/ (Active /\ Host = h /\ s \in play.notified)
    BY DEF FilesSurviveReboot
  <2>1. disk[h][s] \in Texts
    BY EdgeTypeParts DEF EdgeInv
  <2>2. Known(h, s) /\ Loaded(h, s)
    BY DEF EdgeInv
  <2>3. s \in {"ssh", "nftables", "wireguard"}
    BY <2>1, <2>2 DEF Known, Loads, Texts, Services
  <2> QED
    BY <2>2, <2>3 DEF Loaded, AsStarted, Started
<1> QED
  BY <1>1, EdgeInvariant, PTL

(* No step of the playbook takes a service down, but for a tunnel that is  *)
(* restarted with a bad file.                                              *)
THEOREM PlaybookIsSafe == EdgeSpec => PlaybookStopsNothing
<1>1. EdgeInv /\ [EdgeNext]_edgeVars =>
         [Calm => \A h \in Hosts, s \in Services :
                     running'[h][s] = "down" /\ running[h][s] # "down"
                         => /\ s = "wireguard" /\ disk[h][s] = "bad"
                            /\ play'.step = "failed"]_edgeVars
  <2> SUFFICES ASSUME EdgeInv, EdgeNext, Calm, NEW h \in Hosts, NEW s \in Services,
                      running'[h][s] = "down", running[h][s] # "down"
               PROVE  /\ s = "wireguard" /\ disk[h][s] = "bad"
                      /\ play'.step = "failed"
    OBVIOUS
  <2>0. /\ disk \in [Hosts -> [Services -> Texts]] /\ disk[h][s] \in Texts
        /\ running \in Running /\ Host \in Hosts /\ Role \in Services
        /\ incidents \in Nat /\ PlayTyped(play)
    BY EdgeTypeParts, RoleFacts DEF EdgeInv, PlayTyped, Host, Role
  <2>1. ~Incident
    BY <2>0 DEF Incident, Calm
  <2>2. ~Enable
    BY <2>0 DEF Enable, Running
  <2>3. CASE Reload
    <3>1. Known(h, s) /\ Validated /\ play.step = "reload"
      BY <2>3 DEF EdgeInv, Reload, On
    <3>2. h = Host /\ s = Role /\ Role \in play.notified
      BY <2>0, <2>3 DEF Reload, Running
    <3>3. running'[h][s] = Reloaded(h, s) /\ ~Invalid(s)
      BY <2>0, <2>3, <3>1, <3>2 DEF Reload, Running, Validated
    <3>4. s \notin {"nftables", "haproxy"}
      BY <2>0, <3>3, StartedFacts DEF Reloaded
    <3>5. Started(s, disk[h][s]) = "down"
      <4>1. Start(h, s) = "down"
        BY <3>3, <3>4 DEF Reloaded
      <4> QED
        BY <3>4, <4>1 DEF Start, Binds, Tied
    <3>6. s = "wireguard" /\ disk[h][s] = "bad"
      BY <2>0, <3>1, <3>2, <3>3, <3>4, <3>5
         DEF Started, Loads, Invalid, Known, Texts, Services
    <3>7. running'[Host][Role] # disk[Host][Role]
      BY <3>2, <3>6
    <3> QED
      BY <2>0, <2>3, <3>2, <3>6, <3>7 DEF Reload, FailPlay, PlayTyped
  <2>4. CASE StartSite \/ Configure \/ Validate \/ Unreachable
    BY <2>4 DEF StartSite, Configure, Validate, Unreachable
  <2> QED
    BY <2>1, <2>2, <2>3, <2>4
       DEF EdgeNext, PlaybookStep, ChangeTemplate, Interrupt, Reboot, RestartService
<1> QED
  BY <1>1, EdgeInvariant, PTL DEF EdgeSpec, PlaybookStopsNothing

(* On the connector the tunnel is up from its own task on if its file is   *)
(* good, and when all tasks are done HAProxy is down only with the tunnel. *)
TunnelFirst ==
    Active /\ Host = "connector" =>
      /\ play.step \in {"validate", "reload"} \/ play.at > 3 =>
            (Loads("wireguard", disk["connector"]["wireguard"])
                => running["connector"]["wireguard"] # "down")
      /\ play.step \in {"validate", "reload"} =>
            (running["connector"]["haproxy"] = "down"
                => running["connector"]["wireguard"] = "down")

LEMMA ConnectorRoles ==
    ASSUME PlayTyped(play), Host = "connector"
    PROVE  /\ Len(Roles(Host)) = 4 /\ play.at \in 1 .. 4
           /\ (Role = "wireguard" <=> play.at = 3)
           /\ (Role = "haproxy" <=> play.at = 4)
<1>1. Roles(Host) = <<"ssh", "nftables", "wireguard", "haproxy">>
  BY DEF Roles
<1>2. Len(Roles(Host)) = 4
  BY <1>1
<1>3. play.at \in 1 .. 5 /\ play.at <= Len(Roles(Host))
  BY DEF PlayTyped, Host
<1>4. play.at \in 1 .. 4
  <2>1. play.at \in 1 .. 5 /\ play.at <= 4
    BY <1>2, <1>3, Zenon
  <2> QED
    BY <2>1
<1>5. /\ Roles(Host)[1] = "ssh" /\ Roles(Host)[2] = "nftables"
      /\ Roles(Host)[3] = "wireguard" /\ Roles(Host)[4] = "haproxy"
  BY <1>1
<1>6. play.at = 1 \/ play.at = 2 \/ play.at = 3 \/ play.at = 4
  BY <1>4
<1> QED
  BY <1>2, <1>4, <1>5, <1>6 DEF Role

LEMMA TunnelKept ==
    ASSUME EdgeInv, EdgeInv', TunnelFirst, [EdgeNext]_edgeVars
    PROVE  TunnelFirst'
<1> SUFFICES ASSUME Active', Host' = "connector",
                    play'.step \in {"validate", "reload"} \/ play'.at > 3
             PROVE  /\ Loads("wireguard", disk'["connector"]["wireguard"])
                          => running'["connector"]["wireguard"] # "down"
                    /\ play'.step \in {"validate", "reload"} =>
                          (running'["connector"]["haproxy"] = "down"
                              => running'["connector"]["wireguard"] = "down")
  BY DEF TunnelFirst
<1>0. /\ disk \in [Hosts -> [Services -> Texts]] /\ running \in Running /\ PlayTyped(play)
      /\ Host \in Hosts /\ Role \in Services /\ "connector" \in Hosts
      /\ "wireguard" \in Services /\ "haproxy" \in Services /\ "down" \notin Texts
  BY EdgeTypeParts, RoleFacts, StepNames DEF EdgeInv, PlayTyped, Host, Role, Services, Texts
<1>1. \A h, now : ~FailPlay(h, now)
  BY <1>0 DEF FailPlay, PlayTyped, Active
<1>2. ~StartSite
  BY DEF StartSite, Host
<1>3. CASE Configure
  <2>1. /\ play'.step = "enable" /\ play'.at = play.at /\ Host = "connector" /\ Active
        /\ play.step = "configure" /\ running' = running
        /\ disk' = [disk EXCEPT ![Host][Role] = wanted[Role]]
    BY <1>0, <1>1, <1>3 DEF Configure, On, PlayTyped, Host, Active
  <2>2. play.at > 3 /\ Role = "haproxy"
    BY <1>0, <2>1, ConnectorRoles
  <2>3. disk'["connector"]["wireguard"] = disk["connector"]["wireguard"]
    BY <1>0, <2>1, <2>2
  <2> QED
    BY <2>1, <2>2, <2>3 DEF TunnelFirst
<1>4. CASE Enable
  <2>1. NextTask /\ play.step = "enable" /\ Active /\ disk' = disk
        /\ running'[Host][Role] # "down"
    BY <1>0, <1>1, <1>4 DEF Enable, On, Active, Running
  <2>2. Host = "connector"
    BY <1>0, <2>1 DEF NextTask, PlayTyped, Host
  <2>3. \/ play'.step = "configure" /\ play'.at = play.at + 1
        \/ play'.step = "validate" /\ play.at = 4
    <3>1. Len(Roles(Host)) = 4 /\ play.at \in 1 .. 4
      BY <1>0, <2>2, ConnectorRoles
    <3>2. CASE play.at < Len(Roles(Host))
      BY <1>0, <2>1, <3>2 DEF NextTask, PlayTyped
    <3>3. CASE ~(play.at < Len(Roles(Host)))
      <4>1. play'.step = "validate"
        BY <1>0, <2>1, <3>3 DEF NextTask, PlayTyped
      <4> QED
        BY <3>1, <3>3, <4>1
    <3> QED
      BY <3>2, <3>3
  <2>4. play.at \in {3, 4}
    BY <1>0, <2>2, <2>3, ConnectorRoles
  <2>5. CASE play.at = 3
    <3>1. Role = "wireguard"
      BY <1>0, <2>2, <2>5, ConnectorRoles
    <3>2. play'.step = "configure"
      BY <2>3, <2>5
    <3> QED
      BY <2>1, <2>2, <3>1, <3>2
  <2>6. CASE play.at = 4
    <3>1. Role = "haproxy"
      BY <1>0, <2>2, <2>6, ConnectorRoles
    <3>2. running'["connector"]["wireguard"] = running["connector"]["wireguard"]
      BY <1>0, <1>4, <2>2, <3>1 DEF Enable, Running
    <3>3. play.at > 3
      BY <2>6
    <3> QED
      BY <2>1, <2>2, <3>1, <3>2, <3>3 DEF TunnelFirst
  <2> QED
    BY <2>4, <2>5, <2>6
<1>5. CASE Validate
  <2>1. /\ play.step = "validate" /\ Active /\ UNCHANGED <<disk, running>>
        /\ Host = "connector"
    BY <1>0, <1>1, <1>5 DEF Validate, On, Active, PlayTyped, Host
  <2> QED
    BY <2>1 DEF TunnelFirst
<1>6. CASE Reload
  <2>1. /\ play.step = "reload" /\ Active /\ disk' = disk
        /\ Role \in play.notified => running'[Host][Role] = disk[Host][Role]
        /\ running' = [running EXCEPT ![Host][Role] =
                         IF Role \in play.notified THEN Reloaded(Host, Role)
                         ELSE running[Host][Role]]
    BY <1>0, <1>1, <1>6 DEF Reload, On, Active, Running
  <2>2. Host = "connector"
    <3>1. CASE play.at < Len(Roles(Host))
      BY <1>0, <1>1, <1>6, <3>1 DEF Reload, PlayTyped, Host
    <3>2. CASE ~(play.at < Len(Roles(Host)))
      <4>1. NextPlay
        BY <1>1, <1>6, <3>2 DEF Reload
      <4>2. \A i \in {1} : ~(i > 3)
        OBVIOUS
      <4> QED
        BY <1>0, <4>1, <4>2 DEF NextPlay, PlayTyped, Host, Active, Hosts
    <3> QED
      BY <3>1, <3>2
  <2>3. \A s \in Services : (s = Role /\ Role \in play.notified)
           \/ running'["connector"][s] = running["connector"][s]
    BY <1>0, <2>1, <2>2 DEF Running
  <2>4. Role \in play.notified => running'["connector"][Role] # "down"
                                  /\ running'["connector"][Role] = disk["connector"][Role]
    BY <1>0, <2>1, <2>2
  <2>5. /\ Loads("wireguard", disk["connector"]["wireguard"])
              => running["connector"]["wireguard"] # "down"
        /\ running["connector"]["haproxy"] = "down" => running["connector"]["wireguard"] = "down"
    BY <2>1, <2>2 DEF TunnelFirst
  <2>6. Role = "wireguard" /\ Role \in play.notified =>
           Loads("wireguard", disk["connector"]["wireguard"])
    <3> SUFFICES ASSUME Role = "wireguard", Role \in play.notified
                 PROVE  Loads("wireguard", disk["connector"]["wireguard"])
      OBVIOUS
    <3>1. Known("connector", "wireguard")'
      BY <1>0 DEF EdgeInv
    <3> QED
      BY <2>4, <3>1 DEF Known
  <2> QED
    BY <1>0, <2>1, <2>3, <2>4, <2>5, <2>6
<1>7. CASE ChangeTemplate \/ Interrupt \/ Unreachable
  BY <1>1, <1>7 DEF ChangeTemplate, Interrupt, Unreachable, Active
<1>8. ASSUME NEW h \in Hosts, Reboot(h)
      PROVE  TunnelFirst'
  <2>1. CASE Active /\ Host = h
    BY <1>0, <1>8, <2>1 DEF Reboot, PlayTyped, Active
  <2>2. CASE ~(Active /\ Host = h)
    <3>1. UNCHANGED play /\ Host' = Host /\ Active /\ Host = "connector" /\ disk' = disk
      BY <1>8, <2>2 DEF Reboot, Host, Active
    <3>2. running'["connector"] = running["connector"]
      BY <1>0, <1>8, <2>2, <3>1 DEF Reboot, Running
    <3> QED
      BY <3>1, <3>2 DEF TunnelFirst
  <2> QED
    BY <2>1, <2>2
<1>9. ASSUME NEW h \in Hosts, NEW s \in Services, RestartService(h, s)
      PROVE  TunnelFirst'
  <2>1. /\ UNCHANGED <<disk, play>> /\ Host = "connector" /\ Active
        /\ running[h][s] # "down" /\ running'[h][s] = Start(h, s)
        /\ \A g \in Hosts, q \in Services : g # h \/ q # s => running'[g][q] = running[g][q]
    BY <1>0, <1>9 DEF RestartService, Host, Active, Running
  <2>2. CASE h = "connector" /\ s = "wireguard"
    <3>1. running'["connector"]["wireguard"]
             = Started("wireguard", disk["connector"]["wireguard"])
      BY <2>1, <2>2 DEF Start, Binds, Tied
    <3>2. running'["connector"]["haproxy"] = running["connector"]["haproxy"]
      BY <1>0, <2>1, <2>2
    <3>3. Loads("wireguard", disk["connector"]["wireguard"])
             => running'["connector"]["wireguard"] # "down"
      BY <1>0, <3>1 DEF Started
    <3> QED
      BY <2>1, <2>2, <3>2, <3>3 DEF TunnelFirst
  <2>3. CASE h = "connector" /\ s = "haproxy"
    <3>1. Loads("haproxy", disk["connector"]["haproxy"])
      <4>1. Known("connector", "haproxy") /\ disk["connector"]["haproxy"] \in Texts
        BY <1>0 DEF EdgeInv
      <4> QED
        BY <2>1, <2>3, <4>1 DEF Known, Loads, Texts
    <3>2. running'["connector"]["haproxy"] = "down" => running["connector"]["wireguard"] = "down"
      BY <1>0, <2>1, <2>3, <3>1 DEF Start, Started, Binds
    <3>3. running'["connector"]["wireguard"] = running["connector"]["wireguard"]
      BY <1>0, <2>1, <2>3
    <3> QED
      BY <2>1, <3>2, <3>3 DEF TunnelFirst
  <2>4. CASE ~(h = "connector" /\ s \in {"wireguard", "haproxy"})
    <3>1. /\ running'["connector"]["wireguard"] = running["connector"]["wireguard"]
          /\ running'["connector"]["haproxy"] = running["connector"]["haproxy"]
      BY <1>0, <2>1, <2>4
    <3> QED
      BY <2>1, <3>1 DEF TunnelFirst
  <2> QED
    BY <2>2, <2>3, <2>4
<1>10. CASE UNCHANGED edgeVars
  BY <1>10 DEF edgeVars, TunnelFirst, Active, Host
<1> QED
  BY <1>2, <1>3, <1>4, <1>5, <1>6, <1>7, <1>8, <1>9, <1>10
     DEF EdgeNext, PlaybookStep, TunnelFirst

LEMMA TunnelInvariant == EdgeSpec => []TunnelFirst
<1>1. EdgeInit => TunnelFirst
  BY DEF EdgeInit, TunnelFirst, Active
<1> QED
  BY <1>1, TunnelKept, EdgeInvariant, PTL DEF EdgeSpec

(* A playbook that ends well has written every template, and every service *)
(* runs what it would start with, but for notifications dropped before and *)
(* a HAProxy of the connector whose tunnel is down.                        *)
THEOREM SuccessLoaded == EdgeSpec => SuccessIsLoaded
<1>1. EdgeInv /\ EdgeInv' /\ TunnelFirst /\ [EdgeNext]_edgeVars =>
         [play'.step = "done" /\ play.step # "done"
             => \A h \in Hosts : \A s \in Parts(h) :
                   /\ disk'[h][s] = wanted[s]
                   /\ \/ running'[h][s] = Started(s, disk'[h][s])
                      \/ s \in lost'[h]
                      \/ ~Binds(h, s)']_edgeVars
  <2> SUFFICES ASSUME EdgeInv, EdgeInv', TunnelFirst, EdgeNext,
                      play'.step = "done", play.step # "done",
                      NEW h \in Hosts, NEW s \in Parts(h)
               PROVE  /\ disk'[h][s] = wanted[s]
                      /\ \/ running'[h][s] = Started(s, disk'[h][s])
                         \/ s \in lost'[h]
                         \/ ~Binds(h, s)'
    OBVIOUS
  <2>0. /\ PlayTyped(play) /\ s \in Services /\ Host \in Hosts /\ Role \in Services
        /\ running \in Running /\ disk \in [Hosts -> [Services -> Texts]]
    BY EdgeTypeParts, RoleFacts DEF EdgeInv, PlayTyped, Host, Role
  <2>1. ~Active'
    BY DEF Active
  <2>2. Loaded(h, s)'
    BY <2>0 DEF EdgeInv
  <2>3. Reload /\ NextPlay /\ (Role \in play.notified => running'[Host][Role] = disk[Host][Role])
    <3>1. \A g, now : ~FailPlay(g, now)
      BY <2>0 DEF FailPlay, PlayTyped
    <3>2. ~NextTask
      <4>1. /\ play' # [play EXCEPT !.step = "configure", !.at = play.at + 1]
            /\ play' # [play EXCEPT !.step = "validate", !.at = 1]
        BY <2>0 DEF PlayTyped
      <4> QED
        BY <4>1 DEF NextTask
    <3>3. ~Configure /\ ~Validate
      BY <2>0, <3>1 DEF Configure, Validate, PlayTyped
    <3>4. \A g \in Hosts : ~Reboot(g) /\ \A q \in Services : ~RestartService(g, q)
      BY <2>0 DEF Reboot, RestartService, PlayTyped
    <3>5. play' # [play EXCEPT !.step = "validate", !.at = play.at + 1]
      BY <2>0 DEF PlayTyped
    <3>6. ~StartSite /\ ~ChangeTemplate
      BY DEF StartSite, ChangeTemplate
    <3>7. ~Enable /\ ~Interrupt /\ ~Unreachable
      BY <3>1, <3>2 DEF Enable, Interrupt, Unreachable
    <3>8. Reload
      BY <3>3, <3>4, <3>6, <3>7 DEF EdgeNext, PlaybookStep
    <3>9. Role \in play.notified => running'[Host][Role] = disk[Host][Role]
      BY <2>0, <3>1, <3>8 DEF Reload, Running
    <3> QED
      BY <3>1, <3>5, <3>8, <3>9 DEF Reload
  <2>4. /\ Host = "connector" /\ Active /\ play.step = "reload" /\ disk' = disk
        /\ ~(play.at < Len(Roles(Host)))
    <3>1. play' # [play EXCEPT !.step = "validate", !.at = play.at + 1]
      BY <2>0 DEF PlayTyped
    <3>2. \A g, now : ~FailPlay(g, now)
      BY <2>0 DEF FailPlay, PlayTyped
    <3> QED
      BY <2>0, <2>3, <3>1, <3>2 DEF NextPlay, Reload, On, Active, Hosts, PlayTyped
  <2>5. disk[h][s] = wanted[s]
    <3>1. CASE h = "vps"
      BY <2>4, <3>1 DEF EdgeInv, Written
    <3>2. CASE h = "connector"
      <4>1. PICK i \in 1 .. Len(Roles(h)) : Roles(h)[i] = s
        BY RoleFacts
      <4> QED
        BY <2>4, <3>2, <4>1 DEF EdgeInv, Written
    <3> QED
      BY <3>1, <3>2 DEF Hosts
  <2>6. Tied(h, s) /\ running'[h][s] = "down" => ~Binds(h, s)'
    <3> SUFFICES ASSUME Tied(h, s), running'[h][s] = "down"
                 PROVE  running'[h]["wireguard"] = "down"
      BY DEF Binds, Tied
    <3>1. h = "connector" /\ s = "haproxy" /\ Role = "haproxy"
      <4>1. Len(Roles(Host)) = 4 /\ play.at \in 1 .. 4 /\ (Role = "haproxy" <=> play.at = 4)
        BY <2>0, <2>4, ConnectorRoles
      <4>2. play.at = 4
        <5>1. play.at \in 1 .. 4 /\ ~(play.at < 4)
          BY <2>4, <4>1, Zenon
        <5> QED
          BY <5>1
      <4> QED
        BY <4>1, <4>2 DEF Tied
    <3>2. Role \notin play.notified
      <4>1. "down" \notin Texts
        BY DEF Texts
      <4> QED
        BY <2>0, <2>3, <2>4, <3>1, <4>1
    <3>3. running' = running
      BY <2>0, <2>3, <3>2 DEF Reload, Running
    <3> QED
      BY <2>4, <3>1, <3>3 DEF TunnelFirst
  <2> QED
    BY <2>1, <2>2, <2>4, <2>5, <2>6 DEF Loaded, AsStarted, Tied
<1> QED
  BY <1>1, EdgeInvariant, TunnelInvariant, PTL DEF EdgeSpec, SuccessIsLoaded

-----------------------------------------------------------------------------
(* The import (ClusterImport).                                             *)

LEMMA OrderFacts ==
    /\ Len(Order) = 14
    /\ \A i \in 1 .. Len(Order) : Order[i] \in Targets
    /\ \A o \in Targets : \E i \in 1 .. Len(Order) : Order[i] = o
    /\ Order[2] = "radosNamespace" /\ Order[3] = "subvolumeGroup"
    /\ Pools \subseteq Targets
    /\ \A i \in 1 .. Len(Order) :
          Order[i] \in {"rbdClass", "cephfsClass", "topologyClass"} => i > 3
<1>1. Len(Order) = 14
  BY DEF Order
<1>2. Order[2] = "radosNamespace" /\ Order[3] = "subvolumeGroup"
  BY DEF Order
<1>3. /\ \A i \in 1 .. Len(Order) : Order[i] \in Targets
      /\ \A o \in Targets : \E i \in 1 .. Len(Order) : Order[i] = o
  BY DEF Targets
<1>4. Pools \subseteq Targets
  BY <1>1, <1>2, <1>3 DEF Pools
<1>5. \A i \in 1 .. Len(Order) :
         Order[i] \in {"rbdClass", "cephfsClass", "topologyClass"} => i > 3
  BY <1>1 DEF Order
<1> QED
  BY <1>1, <1>2, <1>3, <1>4, <1>5

StageNames == {"new", "get", "create", "patch", "wait", "done", "failed"}
Contents == [user : 0 .. MaxGenerations, data : 0 .. MaxGenerations]

(* How the state of an import changes in a step of its own.                *)
LEMMA GoMoves ==
    ASSUME ImportTypeOK, NEW r \in Imports, NEW step \in StageNames, Go(r, step)
    PROVE  /\ import' \in [Imports -> Stages] /\ import'[r].step = step
           /\ import'[r].at = import[r].at /\ import'[r].blind = import[r].blind
           /\ import'[r].generation = import[r].generation
           /\ \A q \in Imports : q # r => import'[q] = import[q]
  BY DEF Go, ImportTypeOK, Stages, StageNames

LEMMA AdvanceMoves ==
    ASSUME ImportTypeOK, NEW r \in Imports, Advance(r)
    PROVE  /\ import' \in [Imports -> Stages]
           /\ import'[r].generation = import[r].generation
           /\ \A q \in Imports : q # r => import'[q] = import[q]
           /\ \/ /\ import'[r].step = "done"
                 /\ \A i \in 1 .. Len(Order) : i > import[r].at => Order[i] \notin Wanted
              \/ /\ import'[r].step = "get" /\ import'[r].blind = FALSE
                 /\ import'[r].at \in 1 .. Len(Order) /\ import'[r].at > import[r].at
                 /\ \A i \in 1 .. Len(Order) :
                       i > import[r].at /\ Order[i] \in Wanted => import'[r].at <= i
<1> DEFINE rest == {i \in 1 .. Len(Order) : i > import[r].at /\ Order[i] \in Wanted}
<1>1. CASE rest = {} /\ import' = [import EXCEPT ![r].step = "done"]
  BY <1>1 DEF ImportTypeOK, Stages
<1>2. ASSUME NEW a \in rest, \A j \in rest : a <= j,
             import' = [import EXCEPT ![r].step = "get", ![r].blind = FALSE, ![r].at = a]
      PROVE  /\ import' \in [Imports -> Stages]
             /\ import'[r].generation = import[r].generation
             /\ \A q \in Imports : q # r => import'[q] = import[q]
             /\ import'[r].step = "get" /\ import'[r].blind = FALSE /\ import'[r].at = a
  <2>1. a \in 1 .. Len(Order)
    OBVIOUS
  <2> HIDE DEF rest
  <2> QED
    BY <1>2, <2>1 DEF ImportTypeOK, Stages
<1> QED
  BY <1>1, <1>2 DEF Advance

LEMMA ImportTypeStarts == ImportInit => ImportTypeOK
<1>1. 1 \in Generations /\ 0 \in 0 .. MaxGenerations /\ 1 \in 1 .. Len(Order)
  BY ImportAssumption, OrderFacts DEF Generations
<1> QED
  BY <1>1 DEF ImportInit, ImportTypeOK, Stages, Absent

(* A step takes an import to its next object, or to its end.               *)
Advances(r) ==
    \/ /\ import'[r].step = "done"
       /\ \A i \in 1 .. Len(Order) : i > import[r].at => Order[i] \notin Wanted
    \/ /\ import'[r].step = "get" /\ import'[r].blind = FALSE
       /\ import'[r].at > import[r].at
       /\ \A i \in 1 .. Len(Order) :
             i > import[r].at /\ Order[i] \in Wanted => import'[r].at <= i

(* What a step may make of an import that looks an object up, creates,     *)
(* patches or waits.                                                       *)
Outcome(r) ==
    \/ import'[r].step = "failed"
    \/ /\ import'[r].step = "create" /\ import'[r].at = import[r].at /\ kept' = kept
       /\ import'[r].blind \/ kept[Target(r)] = Absent
    \/ import'[r].step = "patch" /\ import'[r].at = import[r].at
    \/ /\ import'[r].step = "wait" /\ import'[r].at = import[r].at
       /\ Target(r) \in Pools /\ kept'[Target(r)] # Absent
    \/ /\ Advances(r) /\ kept'[Target(r)] # Absent
       /\ Target(r) \in Credentials => kept'[Target(r)] = Whole(r)
       /\ Target(r) \in Pools => poolReady[Target(r)]

Waiting(r) == import[r].step = "wait" => Target(r) \in Pools /\ kept[Target(r)] # Absent

LEMMA TargetFacts ==
    ASSUME ImportTypeOK, NEW r \in Imports
    PROVE  /\ Target(r) \in Targets /\ kept \in [Targets -> Contents]
           /\ Whole(r) \in Contents /\ Whole(r) # Absent
           /\ Patched(r) \in Contents /\ Patched(r) # Absent
           /\ Target(r) \in Credentials => Patched(r) = Whole(r)
<1>1. Target(r) \in Targets /\ kept \in [Targets -> Contents]
  BY OrderFacts DEF ImportTypeOK, Stages, Target, Contents
<1>2. import[r].generation \in Nat /\ import[r].generation > 0
      /\ import[r].generation \in 0 .. MaxGenerations
  BY ImportAssumption DEF ImportTypeOK, Stages, Generations
<1>3. Whole(r) \in Contents /\ Whole(r) # Absent
  BY <1>2 DEF Whole, Contents, Absent
<1>4. [kept[Target(r)] EXCEPT !.user = import[r].generation] \in Contents
  BY <1>1, <1>2 DEF Contents
<1>5. [kept[Target(r)] EXCEPT !.user = import[r].generation].user = import[r].generation
  BY <1>1 DEF Contents
<1>6. [kept[Target(r)] EXCEPT !.user = import[r].generation] # Absent
  BY <1>2, <1>5 DEF Absent
<1> QED
  BY <1>1, <1>3, <1>4, <1>6 DEF Patched, Credentials

LEMMA WorkMoves ==
    ASSUME ImportTypeOK, NEW r \in Imports, Importing(r), Waiting(r),
           Lookup(r) \/ CreateObject(r) \/ Patch(r) \/ AwaitPool(r) \/ Stop(r)
    PROVE  /\ ImportTypeOK' /\ UNCHANGED <<external, poolReady, peers>>
           /\ \A q \in Imports : q # r => import'[q] = import[q]
           /\ import'[r].generation = import[r].generation
           /\ \A o \in Targets : o # Target(r) => kept'[o] = kept[o]
           /\ \/ kept'[Target(r)] = kept[Target(r)]
              \/ /\ kept'[Target(r)] # Absent
                 /\ Target(r) \in Credentials => kept'[Target(r)] = Whole(r)
           /\ Outcome(r)
<1> DEFINE Frame == /\ import' \in [Imports -> Stages] /\ UNCHANGED <<external, poolReady, peers>>
                    /\ \A q \in Imports : q # r => import'[q] = import[q]
                    /\ import'[r].generation = import[r].generation
           Write(v) == kept' = [kept EXCEPT ![Target(r)] = v]
<1>1. /\ Target(r) \in Targets /\ kept \in [Targets -> Contents]
      /\ Whole(r) \in Contents /\ Whole(r) # Absent
      /\ Patched(r) \in Contents /\ Patched(r) # Absent
      /\ Target(r) \in Credentials => Patched(r) = Whole(r)
  BY TargetFacts
<1>2. \A step \in StageNames : Go(r, step) =>
         Frame /\ import'[r].step = step /\ import'[r].at = import[r].at
               /\ import'[r].blind = import[r].blind
  BY GoMoves DEF Go
<1>3. Advance(r) => Frame /\ Advances(r)
  BY AdvanceMoves DEF Advance, Advances
<1>4. /\ "create" \in StageNames /\ "patch" \in StageNames /\ "wait" \in StageNames
      /\ "failed" \in StageNames
  BY DEF StageNames
<1> HIDE DEF Frame
<1>5. ASSUME AfterObject(r), kept'[Target(r)] # Absent,
             Target(r) \in Credentials => kept'[Target(r)] = Whole(r)
      PROVE  Frame /\ Outcome(r)
  BY <1>2, <1>3, <1>4, <1>5 DEF AfterObject, Outcome
<1>6. CASE Lookup(r)
  <2>1. /\ kept' = kept
        /\ \/ kept[Target(r)] = Absent /\ Go(r, "create")
           \/ Go(r, "patch")
           \/ kept[Target(r)] # Absent /\ Target(r) \notin Credentials /\ AfterObject(r)
           \/ /\ UNCHANGED <<external, poolReady, peers>>
              /\ import' = [import EXCEPT ![r].step = "create", ![r].blind = TRUE]
    BY <1>6 DEF Lookup, Found
  <2>2. ASSUME import' = [import EXCEPT ![r].step = "create", ![r].blind = TRUE],
               UNCHANGED <<external, poolReady, peers>>
        PROVE  Frame /\ Outcome(r)
    <3>1. /\ import' \in [Imports -> Stages] /\ \A q \in Imports : q # r => import'[q] = import[q]
          /\ import'[r].step = "create" /\ import'[r].at = import[r].at
          /\ import'[r].blind = TRUE /\ import'[r].generation = import[r].generation
      BY <2>2 DEF ImportTypeOK, Stages
    <3>2. Outcome(r)
      BY <2>1, <3>1 DEF Outcome
    <3> QED
      BY <2>2, <3>1, <3>2 DEF Frame
  <2>3. Frame /\ Outcome(r)
    <3>1. CASE kept[Target(r)] = Absent /\ Go(r, "create")
      BY <1>2, <1>4, <2>1, <3>1 DEF Outcome
    <3>2. CASE Go(r, "patch")
      BY <1>2, <1>4, <3>2 DEF Outcome
    <3>3. CASE kept[Target(r)] # Absent /\ Target(r) \notin Credentials /\ AfterObject(r)
      BY <1>5, <2>1, <3>3
    <3> QED
      BY <2>1, <2>2, <3>1, <3>2, <3>3
  <2>4. failures' \in Nat
    BY <1>6 DEF Lookup, Smooth, Failure, ImportTypeOK
  <2> QED
    BY <2>1, <2>3, <2>4 DEF Frame, ImportTypeOK
<1>7. CASE CreateObject(r)
  <2>1. failures' \in Nat
    BY <1>7 DEF CreateObject, Smooth, Failure, ImportTypeOK
  <2>2. CASE Write(Whole(r)) /\ AfterObject(r)
    <3>1. kept'[Target(r)] = Whole(r)
      BY <1>1, <2>2
    <3> QED
      BY <1>1, <1>5, <2>1, <2>2, <3>1 DEF Frame, ImportTypeOK, Contents
  <2>3. CASE (kept' = kept \/ Write(Whole(r))) /\ Go(r, "failed")
    <3>1. Frame /\ import'[r].step = "failed"
      BY <1>2, <1>4, <2>3
    <3> QED
      BY <1>1, <2>1, <2>3, <3>1 DEF Frame, Outcome, ImportTypeOK, Contents
  <2> QED
    BY <1>7, <2>2, <2>3 DEF CreateObject
<1>8. CASE Patch(r)
  <2>1. failures' \in Nat
    BY <1>8 DEF Patch, Smooth, Failure, ImportTypeOK
  <2>2. CASE Write(Patched(r)) /\ AfterObject(r)
    <3>1. kept'[Target(r)] = Patched(r)
      BY <1>1, <2>2
    <3> QED
      BY <1>1, <1>5, <2>1, <2>2, <3>1 DEF Frame, ImportTypeOK, Contents
  <2>3. CASE (kept' = kept \/ Write(Patched(r))) /\ Go(r, "failed")
    <3>1. Frame /\ import'[r].step = "failed"
      BY <1>2, <1>4, <2>3
    <3> QED
      BY <1>1, <2>1, <2>3, <3>1 DEF Frame, Outcome, ImportTypeOK, Contents
  <2> QED
    BY <1>8, <2>2, <2>3 DEF Patch
<1>9. CASE AwaitPool(r) \/ Stop(r)
  <2>1. kept' = kept /\ failures' \in Nat
    BY <1>9 DEF AwaitPool, Stop, Smooth, Failure, ImportTypeOK
  <2>2. Frame /\ Outcome(r)
    <3>1. CASE Go(r, "failed")
      BY <1>2, <1>4, <3>1 DEF Outcome
    <3>2. CASE AwaitPool(r) /\ poolReady[Target(r)] /\ Advance(r)
      <4>1. Target(r) \in Pools /\ kept[Target(r)] # Absent
        BY <3>2 DEF AwaitPool, Waiting
      <4>2. Target(r) \notin Credentials
        BY <4>1 DEF Pools, Credentials
      <4> QED
        BY <1>3, <2>1, <3>2, <4>1, <4>2 DEF Outcome
    <3> QED
      BY <1>9, <3>1, <3>2 DEF AwaitPool, Stop
  <2> QED
    BY <2>1, <2>2 DEF Frame, ImportTypeOK
<1> QED
  BY <1>6, <1>7, <1>8, <1>9

(* What an import has behind it stays done: it is there, a credential is   *)
(* its own or of an import beside it, and a pool is Ready.                 *)
Done(r, o) ==
    /\ kept[o] # Absent
    /\ o \in Credentials => \E q \in {r} \cup peers[r] : kept[o] = Whole(q)
    /\ o \in Pools => poolReady[o]
Behind(r) ==
    Importing(r) => \A i \in 1 .. Len(Order) :
                       i < import[r].at /\ Order[i] \in Wanted => Done(r, Order[i])

(* An import that ran alone finds its lookup still true when it creates.   *)
Unseen(r) == import[r].step = "create" /\ ~import[r].blind /\ peers[r] = {}
                 => kept[Target(r)] = Absent

Beside ==
    /\ \A r, q \in Imports : Importing(r) /\ Importing(q) /\ r # q => q \in peers[r]
    /\ \A r \in Imports : \A q \in peers[r] : import[q].step # "new"
    /\ \A r \in Imports : import[r].step = "new" => import[r].at = 1

ImportInv == /\ ImportTypeOK /\ Beside /\ ClassesAreBacked
             /\ \A r \in Imports : Waiting(r) /\ Behind(r) /\ Unseen(r)

LEMMA DoneStays ==
    ASSUME NEW r \in Imports, NEW o \in Targets, Done(r, o), peers[r] \subseteq peers'[r],
           \A q \in {r} \cup peers[r] : Whole(q)' = Whole(q),
           o \in Pools /\ poolReady[o] => poolReady'[o],
           \/ kept'[o] = kept[o]
           \/ /\ kept'[o] # Absent
              /\ o \in Credentials => \E q \in {r} \cup peers[r] : kept'[o] = Whole(q)
    PROVE  Done(r, o)'
<1>1. kept'[o] # Absent /\ (o \in Pools => poolReady'[o])
  BY DEF Done, Absent
<1>2. ASSUME o \in Credentials
      PROVE  \E q \in {r} \cup peers'[r] : kept'[o] = Whole(q)'
  <2>1. PICK q \in {r} \cup peers[r] : kept'[o] = Whole(q)
    BY <1>2 DEF Done
  <2>2. q \in {r} \cup peers'[r] /\ kept'[o] = Whole(q)'
    BY <2>1
  <2> QED
    BY <2>2
<1> QED
  BY <1>1, <1>2 DEF Done, Absent

LEMMA ImportStarts == ImportInit => ImportInv
  BY ImportTypeStarts, OrderFacts
     DEF ImportInv, ImportInit, Beside, ClassesAreBacked, Waiting, Behind, Unseen, Importing,
         Targets, Order

LEMMA WorkKeeps ==
    ASSUME ImportInv, NEW r \in Imports, Importing(r),
           Lookup(r) \/ CreateObject(r) \/ Patch(r) \/ AwaitPool(r) \/ Stop(r)
    PROVE  ImportInv'
<1>1. ImportTypeOK /\ Waiting(r) /\ Target(r) \in Targets
  BY TargetFacts DEF ImportInv
<1>2. /\ ImportTypeOK' /\ UNCHANGED <<external, poolReady, peers>>
      /\ \A q \in Imports : q # r => import'[q] = import[q]
      /\ import'[r].generation = import[r].generation
      /\ \A o \in Targets : o # Target(r) => kept'[o] = kept[o]
      /\ \/ kept'[Target(r)] = kept[Target(r)]
         \/ /\ kept'[Target(r)] # Absent
            /\ Target(r) \in Credentials => kept'[Target(r)] = Whole(r)
      /\ Outcome(r)
  BY <1>1, WorkMoves
<1>3. /\ \A q \in Imports : Whole(q)' = Whole(q)
      /\ \A q \in Imports : peers[q] \subseteq Imports
  BY <1>1, <1>2 DEF Whole, ImportTypeOK
<1>4. /\ import'[r].step # "new" /\ import[r].step # "new"
      /\ \A q \in Imports : Importing(q)' => Importing(q)
  BY <1>2 DEF Outcome, Advances, Importing
<1>5. Beside'
  BY <1>2, <1>3, <1>4 DEF ImportInv, Beside
<1>6. ASSUME NEW q \in Imports, Importing(q), NEW o \in Targets, Done(q, o)
      PROVE  Done(q, o)'
  <2>1. q = r \/ r \in peers[q]
    BY <1>6 DEF ImportInv, Beside
  <2>2. \/ kept'[o] = kept[o]
        \/ /\ kept'[o] # Absent
           /\ o \in Credentials => \E x \in {q} \cup peers[q] : kept'[o] = Whole(x)
    BY <1>2, <1>6, <2>1
  <2> QED
    BY <1>2, <1>3, <1>6, <2>2, DoneStays
<1>7. ASSUME NEW q \in Imports, q # r
      PROVE  Waiting(q)' /\ Behind(q)' /\ Unseen(q)'
  <2>1. import'[q] = import[q] /\ Target(q)' = Target(q) /\ Target(q) \in Targets
        /\ (Importing(q)' <=> Importing(q))
    BY <1>1, <1>2, <1>7, TargetFacts DEF Target, Importing
  <2>2. Waiting(q)'
    BY <1>2, <1>7, <2>1 DEF ImportInv, Waiting, Absent
  <2>3. Behind(q)'
    BY <1>6, <1>7, <2>1, OrderFacts DEF ImportInv, Behind
  <2>4. Unseen(q)'
    BY <1>2, <1>7, <2>1 DEF ImportInv, Unseen, Beside, Importing
  <2> QED
    BY <2>2, <2>3, <2>4
<1>8. Waiting(r)' /\ Unseen(r)'
  BY <1>2 DEF Outcome, Advances, Waiting, Unseen, Target, Absent
<1>9. Behind(r)'
  <2> SUFFICES ASSUME Importing(r)', NEW i \in 1 .. Len(Order), i < import'[r].at,
                      Order[i] \in Wanted
               PROVE  Done(r, Order[i])'
    BY DEF Behind
  <2>1. Order[i] \in Targets /\ i \in Nat /\ import[r].at \in Nat /\ Target(r) = Order[import[r].at]
    BY <1>1, OrderFacts DEF ImportTypeOK, Stages, Target
  <2>2. CASE i < import[r].at
    BY <1>6, <2>1, <2>2 DEF ImportInv, Behind
  <2>3. CASE ~(i < import[r].at)
    <3>1. import'[r].at # import[r].at
      BY <2>1, <2>3
    <3>2. /\ Advances(r) /\ kept'[Target(r)] # Absent
          /\ Target(r) \in Credentials => kept'[Target(r)] = Whole(r)
          /\ Target(r) \in Pools => poolReady[Target(r)]
      BY <1>2, <3>1 DEF Outcome, Importing
    <3>3. i = import[r].at
      <4>1. \A j \in 1 .. Len(Order) :
               j > import[r].at /\ Order[j] \in Wanted => import'[r].at <= j
        BY <3>2 DEF Advances, Importing
      <4>2. import'[r].at \in Nat
        BY <1>2, OrderFacts DEF ImportTypeOK, Stages
      <4> QED
        BY <2>1, <2>3, <4>1, <4>2
    <3> QED
      BY <1>2, <1>3, <2>1, <3>2, <3>3 DEF Done, Absent
  <2> QED
    BY <2>2, <2>3
<1>10. ClassesAreBacked'
  <2>1. ASSUME Target(r) \in {"rbdClass", "cephfsClass", "topologyClass"}
        PROVE  \A o \in Pools \cap Wanted : poolReady[o]
    <3>1. Target(r) = Order[import[r].at] /\ import[r].at \in 1 .. Len(Order) /\ import[r].at > 3
      BY <1>1, <2>1, OrderFacts DEF ImportTypeOK, Stages, Target
    <3>2. \A i \in 1 .. Len(Order) : i < import[r].at /\ Order[i] \in Wanted => Done(r, Order[i])
      BY DEF ImportInv, Behind
    <3>3. \A i \in {2, 3} : i \in 1 .. Len(Order) /\ i < import[r].at
      BY <3>1, OrderFacts
    <3> QED
      BY <3>2, <3>3, OrderFacts DEF Done, Pools
  <2>2. "radosNamespace" \in Pools /\ "subvolumeGroup" \in Pools
    BY DEF Pools
  <2>3. \A o \in Targets : kept'[o] = kept[o] \/ o = Target(r)
    BY <1>2
  <2>4. "rbdClass" \in Targets /\ "cephfsClass" \in Targets /\ "topologyClass" \in Targets
    BY OrderFacts DEF Targets, Order
  <2> QED
    BY <1>2, <2>1, <2>2, <2>3, <2>4 DEF ImportInv, ClassesAreBacked, Absent
<1> QED
  BY <1>2, <1>5, <1>7, <1>8, <1>9, <1>10 DEF ImportInv

LEMMA StartKeeps ==
    ASSUME ImportInv, NEW r \in Imports, StartImport(r)
    PROVE  ImportInv'
<1> DEFINE others == {q \in Imports : Importing(q)}
<1>0. ImportTypeOK /\ kept' = kept /\ poolReady' = poolReady /\ external' = external
      /\ failures' = failures /\ import[r].step = "new"
      /\ import' = [import EXCEPT ![r].step = "get", ![r].generation = external]
  BY DEF StartImport, ImportInv, Smooth
<1>1. /\ import' \in [Imports -> Stages]
      /\ import'[r].step = "get" /\ import'[r].at = import[r].at
      /\ \A q \in Imports : q # r => import'[q] = import[q]
  BY <1>0 DEF ImportTypeOK, Stages
<1>2. peers' = [q \in Imports |-> IF q = r THEN others
                                  ELSE IF q \in others THEN peers[q] \cup {r} ELSE peers[q]]
  BY DEF StartImport
<1>3. peers' \in [Imports -> SUBSET Imports]
  BY <1>0, <1>2 DEF ImportTypeOK
<1>4. ImportTypeOK'
  BY <1>0, <1>1, <1>3 DEF ImportTypeOK
<1>5. \A q \in Imports : q # r => (Importing(q)' <=> Importing(q)) /\ Target(q)' = Target(q)
  BY <1>1 DEF Importing, Target
<1>6. \A q \in Imports : Importing(q) => q # r /\ import[q].step # "new"
  BY <1>0 DEF Importing
<1>7. Beside'
  <2>1. \A q \in Imports : q # r => (peers'[q] = peers[q] \cup {r} \/ peers'[q] = peers[q])
    BY <1>2
  <2>2. peers'[r] = others
    BY <1>2
  <2>3. \A q, x \in Imports : Importing(q)' /\ Importing(x)' /\ q # x => x \in peers'[q]
    BY <1>2, <1>5, <1>6 DEF ImportInv, Beside
  <2>4. \A q \in Imports : import'[q].step = "new" => import[q].step = "new" /\ q # r
    BY <1>1
  <2>5. \A q \in Imports : \A x \in peers'[q] : import'[x].step # "new"
    BY <1>0, <1>6, <2>1, <2>2, <2>4 DEF ImportInv, Beside, ImportTypeOK
  <2> QED
    BY <1>1, <2>3, <2>4, <2>5 DEF ImportInv, Beside
<1>8. ASSUME NEW q \in Imports
      PROVE  Waiting(q)' /\ Behind(q)' /\ Unseen(q)'
  <2>1. CASE q = r
    <3>1. import'[q].at = 1
      BY <1>0, <1>1, <2>1 DEF ImportInv, Beside
    <3>2. \A i \in 1 .. Len(Order) : ~(i < 1)
      BY OrderFacts
    <3> QED
      BY <1>1, <2>1, <3>1, <3>2 DEF Waiting, Behind, Unseen
  <2>2. CASE q # r
    <3>1. import'[q] = import[q] /\ Target(q)' = Target(q)
      BY <1>1, <1>5, <2>2
    <3>2. Waiting(q)'
      BY <1>0, <1>8, <3>1 DEF ImportInv, Waiting, Absent
    <3>3. Unseen(q)'
      BY <1>0, <1>2, <1>8, <2>2, <3>1 DEF ImportInv, Unseen, Importing, Absent
    <3>4. Behind(q)'
      <4> SUFFICES ASSUME Importing(q), NEW i \in 1 .. Len(Order), i < import[q].at,
                          Order[i] \in Wanted
                   PROVE  Done(q, Order[i])'
        BY <1>5, <2>2, <3>1 DEF Behind
      <4>1. Done(q, Order[i]) /\ Order[i] \in Targets
        BY OrderFacts DEF ImportInv, Behind
      <4>2. peers[q] \subseteq peers'[q]
        BY <1>2, <2>2
      <4>3. r \notin {q} \cup peers[q] /\ peers[q] \subseteq Imports
        BY <1>0, <2>2 DEF ImportInv, Beside, ImportTypeOK
      <4>4. \A x \in {q} \cup peers[q] : Whole(x)' = Whole(x)
        BY <1>1, <4>3 DEF Whole
      <4> QED
        BY <1>0, <4>1, <4>2, <4>4, DoneStays
    <3> QED
      BY <3>2, <3>3, <3>4
  <2> QED
    BY <2>1, <2>2
<1>9. ClassesAreBacked'
  BY <1>0 DEF ImportInv, ClassesAreBacked, Absent
<1> QED
  BY <1>4, <1>7, <1>8, <1>9 DEF ImportInv

LEMMA ClustersKeep ==
    ASSUME ImportInv, Rotate \/ (\E o \in Pools : MakeReady(o)) \/ UNCHANGED importVars
    PROVE  ImportInv'
<1>1. /\ UNCHANGED <<kept, import, peers>>
      /\ \A o \in Pools : poolReady[o] => poolReady'[o]
  BY DEF Rotate, MakeReady, importVars, ImportInv, ImportTypeOK
<1>2. ImportTypeOK'
  <2>1. ASSUME Rotate
        PROVE  external' \in Generations /\ UNCHANGED <<kept, poolReady, import, peers, failures>>
    BY <2>1, ImportAssumption DEF Rotate, ImportInv, ImportTypeOK, Generations
  <2>2. ASSUME NEW o \in Pools, MakeReady(o)
        PROVE  /\ poolReady' \in [Pools -> BOOLEAN]
               /\ UNCHANGED <<external, kept, import, peers, failures>>
    BY <2>2 DEF MakeReady, ImportInv, ImportTypeOK
  <2> QED
    BY <2>1, <2>2 DEF importVars, ImportInv, ImportTypeOK
<1>3. Beside' /\ \A r \in Imports : Waiting(r)' /\ Unseen(r)'
  BY <1>1 DEF ImportInv, Beside, Importing, Waiting, Unseen, Target, Absent
<1>4. ASSUME NEW r \in Imports
      PROVE  Behind(r)'
  BY <1>1, <1>4 DEF ImportInv, Behind, Done, Importing, Whole, Absent
<1>5. ClassesAreBacked'
  BY <1>1 DEF ImportInv, ClassesAreBacked, Absent, Pools
<1> QED
  BY <1>2, <1>3, <1>4, <1>5 DEF ImportInv

LEMMA ImportKept == ImportInv /\ [ImportNext]_importVars => ImportInv'
<1> SUFFICES ASSUME ImportInv, [ImportNext]_importVars
             PROVE  ImportInv'
  OBVIOUS
<1>1. CASE Rotate \/ (\E o \in Pools : MakeReady(o)) \/ UNCHANGED importVars
  BY <1>1, ClustersKeep
<1>2. ASSUME NEW r \in Imports, ImportStep(r)
      PROVE  ImportInv'
  <2>1. CASE StartImport(r)
    BY <2>1, StartKeeps
  <2>2. CASE Lookup(r) \/ CreateObject(r) \/ Patch(r) \/ AwaitPool(r) \/ Stop(r)
    <3>1. Importing(r)
      BY <2>2 DEF Lookup, CreateObject, Patch, AwaitPool, Stop, Importing
    <3> QED
      BY <2>2, <3>1, WorkKeeps
  <2> QED
    BY <1>2, <2>1, <2>2 DEF ImportStep
<1> QED
  BY <1>1, <1>2 DEF ImportNext

LEMMA ImportInvariant == ImportSpec => []ImportInv
  BY ImportStarts, ImportKept, PTL DEF ImportSpec

(* Of however many imports, wherever they stopped, none has left a storage *)
(* class whose pool is not Ready.                                          *)
THEOREM ClassesBacked == ImportSpec => []ClassesAreBacked
<1>1. ImportInv => ClassesAreBacked
  BY DEF ImportInv
<1> QED
  BY <1>1, ImportInvariant, PTL

(* Only a step of its own ends an import.                                  *)
LEMMA OwnSteps ==
    ASSUME ImportInv, ImportNext, NEW r \in Imports, NEW step \in {"done", "failed"},
           Becomes(r, step)
    PROVE  /\ Importing(r)
           /\ Lookup(r) \/ CreateObject(r) \/ Patch(r) \/ AwaitPool(r) \/ Stop(r)
<1>1. PICK q \in Imports : ImportStep(q)
  BY DEF ImportNext, Rotate, MakeReady, Becomes
<1>2. ~StartImport(q)
  BY DEF StartImport, Becomes, ImportInv, ImportTypeOK, Stages
<1>3. Lookup(q) \/ CreateObject(q) \/ Patch(q) \/ AwaitPool(q) \/ Stop(q)
  BY <1>1, <1>2 DEF ImportStep
<1>4. Importing(q)
  BY <1>3 DEF Lookup, CreateObject, Patch, AwaitPool, Stop, Importing
<1>5. q = r
  <2>1. \A x \in Imports : x # q => import'[x] = import[x]
    BY <1>3, <1>4, WorkMoves DEF ImportInv
  <2> QED
    BY <2>1 DEF Becomes
<1> QED
  BY <1>3, <1>4, <1>5

(* What an import leaves behind it is never in the way of another.         *)
THEOREM RerunsAreComplete == ImportSpec => RerunsComplete
<1>1. ImportInv /\ [ImportNext]_importVars =>
         [\A r \in Imports : Becomes(r, "failed") =>
             \/ failures' # failures \/ import[r].blind
             \/ import[r].step = "wait" /\ ~poolReady[Target(r)]
             \/ peers[r] # {}]_importVars
  <2> SUFFICES ASSUME ImportInv, ImportNext, NEW r \in Imports, Becomes(r, "failed"),
                      failures' = failures
               PROVE  \/ import[r].blind
                      \/ import[r].step = "wait" /\ ~poolReady[Target(r)]
                      \/ peers[r] # {}
    OBVIOUS
  <2>1. Lookup(r) \/ CreateObject(r) \/ Patch(r) \/ AwaitPool(r) \/ Stop(r)
    BY OwnSteps
  <2>2. ImportTypeOK /\ Unseen(r) /\ failures \in Nat /\ ~Failure
    BY DEF ImportInv, ImportTypeOK, Failure
  <2>3. ~Advance(r)
    BY <2>2, AdvanceMoves DEF Becomes
  <2>4. \A step \in StageNames : Go(r, step) => step = "failed"
    BY <2>2, GoMoves DEF Becomes
  <2>5. ~Go(r, "create") /\ ~Go(r, "patch") /\ ~AfterObject(r)
    BY <2>3, <2>4 DEF StageNames, AfterObject
  <2>6. CreateObject(r) \/ AwaitPool(r)
    BY <2>1, <2>2, <2>5 DEF Lookup, Patch, Stop
  <2> QED
    BY <2>2, <2>3, <2>5, <2>6 DEF CreateObject, AwaitPool, Unseen
<1> QED
  BY <1>1, ImportInvariant, PTL DEF ImportSpec, RerunsComplete

(* An import that ends well leaves whole credentials of its own or of an   *)
(* import that ran beside it.                                              *)
THEOREM CredentialsImported == ImportSpec => ImportedCredentials
<1>1. ImportInv /\ [ImportNext]_importVars =>
         [\A r \in Imports : Becomes(r, "done") => \A o \in Wanted \cap Here :
             /\ kept'[o] # Absent
             /\ o \in Credentials =>
                   \E q \in {r} \cup peers[r] : kept'[o] = Whole(q)]_importVars
  <2> SUFFICES ASSUME ImportInv, ImportNext, NEW r \in Imports, Becomes(r, "done"),
                      NEW o \in Wanted \cap Here
               PROVE  /\ kept'[o] # Absent
                      /\ o \in Credentials =>
                            \E q \in {r} \cup peers[r] : kept'[o] = Whole(q)
    OBVIOUS
  <2>1. /\ Importing(r) /\ ImportTypeOK /\ Waiting(r) /\ Target(r) \in Targets
        /\ Lookup(r) \/ CreateObject(r) \/ Patch(r) \/ AwaitPool(r) \/ Stop(r)
    BY OwnSteps, TargetFacts DEF ImportInv
  <2>2. /\ \A x \in Targets : x # Target(r) => kept'[x] = kept[x]
        /\ \/ kept'[Target(r)] = kept[Target(r)]
           \/ /\ kept'[Target(r)] # Absent
              /\ Target(r) \in Credentials => kept'[Target(r)] = Whole(r)
        /\ Outcome(r)
    BY <2>1, WorkMoves
  <2>3. /\ \A i \in 1 .. Len(Order) : i > import[r].at => Order[i] \notin Wanted
        /\ kept'[Target(r)] # Absent
        /\ Target(r) \in Credentials => kept'[Target(r)] = Whole(r)
    BY <2>2 DEF Outcome, Advances, Becomes
  <2>4. PICK i \in 1 .. Len(Order) : Order[i] = o
    BY ImportAssumption, OrderFacts
  <2>5. i \in Nat /\ import[r].at \in Nat /\ Target(r) = Order[import[r].at] /\ o \in Targets
    BY <2>1, <2>4, OrderFacts DEF ImportTypeOK, Stages, Target
  <2>6. CASE i = import[r].at
    BY <2>3, <2>4, <2>5, <2>6
  <2>7. CASE i < import[r].at
    <3>1. Done(r, o)
      BY <2>1, <2>4, <2>7 DEF ImportInv, Behind
    <3> QED
      BY <2>2, <2>3, <2>5, <3>1 DEF Done
  <2> QED
    BY <2>3, <2>4, <2>5, <2>6, <2>7
<1> QED
  BY <1>1, ImportInvariant, PTL DEF ImportSpec, ImportedCredentials
=============================================================================
