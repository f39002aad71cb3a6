------------------------------ MODULE PmonDaemon ------------------------------
(***************************************************************************)
(* The pmon daemon and the logins it keeps for one server name: the device *)
(* login and its save, silent renewal, the commands that clear a login     *)
(* (logout, unset, a new URL), discovery, and the loopback broker of one   *)
(* datasource with the connections it carries.  They run concurrently and  *)
(* meet under three locks (serverMu, discoveryMu, d.mu); what one of them   *)
(* read before a network call may be stale after it.  The control plane's  *)
(* part is the daemon sessions it mints, renews, ends and deprovisions.    *)
(*                                                                         *)
(* A session stands for its renewal secret and for every wire token issued *)
(* from it; 0 is no session, no server id or no control plane.             *)
(***************************************************************************)
EXTENDS Integers, FiniteSets

CONSTANTS ControlPlane,  \* URLs the server can be set to
          MaxSessions,   \* sessions ever minted
          MaxCommands,   \* commands ever issued on the server
          Listener,      \* loopback listeners, reused once forgotten
          Conn,          \* client connections, reused once closed
          Nobody         \* no listener

ASSUME Urls == ControlPlane \subseteq Nat \ {0}
ASSUME SomeSessions == MaxSessions \in Nat \ {0}
ASSUME SomeCommands == MaxCommands \in Nat
ASSUME NobodyListens == Nobody \notin Listener

Session == 1 .. MaxSessions
ServerId == 1 .. 4   \* one more than the snapshots that can remember one

VARIABLES
  cfg,        \* Config.Servers[name], on disk and in memory
  mu,         \* serverMu: "free", "login" or "command"
  reauth,     \* reauthRequired[name]
  login,      \* Login, and its snapshot of the server
  command,    \* the Logout, UnsetServer or SetServer holding serverMu
  discovery,  \* the syncServer holding discoveryMu
  renewal,    \* maybeRenewServer
  ds,         \* datasources[key] is known
  reg,        \* listeners[key]
  bound,      \* the listeners whose port is open
  broker,     \* the id and URL it was registered for
  conn,       \* the tracked connections
  commands,   \* commands issued so far
  device,     \* the login's device_login row: its status
  home,       \* the control plane that minted each session
  ended,      \* sessions with ended_at set
  shut,       \* sessions whose window is over or whose liveness is INACTIVE
  usable,     \* sessions with a wire token neither revoked nor retired
  gone,       \* control planes where the principal is deprovisioned
  told        \* history: sessions left behind by a step that failed: an end not confirmed,
              \* a login not saved, an answer lost, a restart

daemon == <<cfg, mu, reauth, commands>>
tasks == <<login, command, discovery, renewal>>
brokering == <<ds, reg, bound, broker, conn>>
cp == <<device, home, ended, shut, usable, gone>>
vars == <<daemon, tasks, brokering, cp, told>>

Unset == [id |-> 0, url |-> 0, token |-> 0, secret |-> 0]
LoggedIn(s) == s.token # 0
ClearLogin(s) == [s EXCEPT !.token = 0, !.secret = 0]
SameSession(a, b) == LoggedIn(b) /\ a.id = b.id /\ a.url = b.url /\ a.secret = b.secret

IdleLogin == [pc |-> "idle", srv |-> Unset, res |-> 0]
IdleCommand == [pc |-> "idle", op |-> "none", url |-> 0, ln |-> Nobody, keys |-> FALSE]
IdleDiscovery == [pc |-> "idle", srv |-> Unset, ln |-> Nobody, bind |-> FALSE]
IdleRenewal == [pc |-> "idle", srv |-> Unset, seen |-> FALSE]
Closed == [st |-> "closed", via |-> Nobody]

Init ==
  /\ cfg = Unset /\ mu = "free" /\ reauth = FALSE /\ commands = 0
  /\ login = IdleLogin /\ command = IdleCommand
  /\ discovery = IdleDiscovery /\ renewal = IdleRenewal
  /\ ds = FALSE /\ reg = Nobody /\ bound = {}
  /\ broker = Unset /\ conn = [c \in Conn |-> Closed]
  /\ device = "none" /\ home = [s \in Session |-> 0]
  /\ ended = {} /\ shut = {} /\ usable = {} /\ gone = {}
  /\ told = {}

-----------------------------------------------------------------------------
\* The control plane, under the principal's advisory lock.

\* endDaemon: an ended session is left as it is.
EndDaemon(s) ==
  /\ ended' = ended \cup {s} /\ shut' = shut \cup {s} /\ usable' = usable \ {s}

\* endOnServer: the session ends (answered in time or not), or the request never arrives.
EndOnServer(s) ==
  \/ EndDaemon(s) /\ UNCHANGED told
  \/ told' = told \cup {s} /\ UNCHANGED <<ended, shut, usable>>

\* authorize: the person approves the code in the console.
Approve ==
  /\ device = "pending" /\ device' = "approved"
  /\ UNCHANGED <<daemon, tasks, brokering, home, ended, shut, usable, gone, told>>

\* EndByConsent, from the console.
EndByConsent(s) ==
  /\ home[s] # 0 /\ s \notin ended /\ EndDaemon(s)
  /\ UNCHANGED <<daemon, tasks, brokering, device, home, gone, told>>

\* The window passes, or the liveness recheck is rejected (CloseDaemonRenewal).
WindowCloses(s) ==
  /\ home[s] # 0 /\ s \notin shut /\ shut' = shut \cup {s}
  /\ UNCHANGED <<daemon, tasks, brokering, device, home, ended, usable, gone, told>>

\* revokeActiveCredentialsTx, with the account marked inactive.
Deprovision(u) ==
  /\ u \notin gone /\ gone' = gone \cup {u}
  /\ shut' = shut \cup {s \in Session : home[s] = u}
  /\ usable' = {s \in usable : home[s] # u}
  /\ UNCHANGED <<daemon, tasks, brokering, device, home, ended, told>>

-----------------------------------------------------------------------------
\* Login.  loginMu admits one at a time; a login with a URL is a SetServer before it.

LoginStart ==
  /\ login.pc = "idle" /\ cfg.id # 0
  /\ \E s \in Session : home[s] = 0
  /\ login' = [pc |-> "browser", srv |-> cfg, res |-> 0] /\ device' = "pending"
  /\ UNCHANGED <<daemon, command, discovery, renewal, brokering,
                 home, ended, shut, usable, gone, told>>

\* The code is not approved in time, or the client goes away.
LoginAbandoned ==
  /\ login.pc \in {"browser", "minting"}
  /\ login' = IdleLogin /\ device' = "none"
  /\ UNCHANGED <<daemon, command, discovery, renewal, brokering,
                 home, ended, shut, usable, gone, told>>

\* poll reads the login row: approved.
PollReads ==
  /\ login.pc = "browser" /\ device = "approved"
  /\ login' = [login EXCEPT !.pc = "minting"]
  /\ UNCHANGED <<daemon, command, discovery, renewal, brokering, cp, told>>

\* Mint a daemon session for the login; the answer arrives, or is lost.
Mint ==
  \E s \in Session :
    /\ home[s] = 0 /\ (s > 1 => home[s - 1] # 0)
    /\ home' = [home EXCEPT ![s] = login.srv.url] /\ usable' = usable \cup {s}
    /\ \/ login' = [login EXCEPT !.pc = "polled", !.res = s] /\ UNCHANGED told
       \/ login' = IdleLogin /\ told' = told \cup {s}

\* poll's transaction: lockActive, ConsumeDeviceLogin, CreateDaemonSession, issueSession.
PollMints ==
  /\ login.pc = "minting" /\ device = "approved" /\ login.srv.url \notin gone
  /\ device' = "none" /\ Mint
  /\ UNCHANGED <<daemon, command, discovery, renewal, brokering, ended, shut, gone>>

\* The save: the name must still mean the server the login went to.
LoginSaves ==
  /\ login.pc = "polled" /\ mu = "free"
  /\ cfg.id # 0 /\ cfg.id = login.srv.id /\ cfg.url = login.srv.url
  /\ mu' = "login" /\ login' = [login EXCEPT !.pc = "saved"]
  /\ cfg' = [cfg EXCEPT !.token = login.res, !.secret = login.res]
  /\ UNCHANGED <<reauth, commands, command, discovery, renewal, brokering, cp, told>>

\* The name changed meanwhile, or the file could not be written: Login fails.
LoginNotSaved ==
  /\ login.pc = "polled" /\ mu = "free"
  /\ told' = told \cup {login.res} /\ login' = IdleLogin
  /\ UNCHANGED <<daemon, command, discovery, renewal, brokering, cp>>

\* reauthRequired is dropped and serverMu released.
LoginReleasesOnly ==
  /\ login.pc = "saved" /\ mu' = "free" /\ reauth' = FALSE /\ login' = IdleLogin
  /\ UNCHANGED <<cfg, commands, command, discovery, renewal, brokering, cp, told>>
LoginReleases ==
  /\ login.pc = "saved" /\ mu' = "free" /\ reauth' = FALSE
  /\ login' = IF login.srv.secret = 0 THEN IdleLogin ELSE [login EXCEPT !.pc = "ending"]
  /\ UNCHANGED <<cfg, commands, command, discovery, renewal, brokering, cp, told>>

\* The replaced session is ended; then openListeners (see DiscoveryStarts).
LoginEndsReplaced ==
  /\ login.pc = "ending" /\ EndOnServer(login.srv.secret) /\ login' = IdleLogin
  /\ UNCHANGED <<daemon, command, discovery, renewal, brokering, device, home, gone>>

-----------------------------------------------------------------------------
\* Logout, UnsetServer and SetServer hold serverMu from start to end.

\* An id no snapshot remembers.
FreshId ==
  CHOOSE i \in ServerId :
    i \notin {login.srv.id, discovery.srv.id, renewal.srv.id}

\* setServer of a name nobody has.
CreateServer(u) ==
  /\ mu = "free" /\ cfg.id = 0 /\ commands < MaxCommands /\ commands' = commands + 1
  /\ cfg' = [Unset EXCEPT !.id = FreshId, !.url = u]
  /\ UNCHANGED <<mu, reauth, tasks, brokering, cp, told>>

\* op is "logout", "unset" or "set", to the URL u.
CommandStarts(op, u) ==
  /\ mu = "free" /\ cfg.id # 0 /\ commands < MaxCommands /\ commands' = commands + 1
  /\ mu' = "command" /\ command' = [IdleCommand EXCEPT !.pc = "end", !.op = op, !.url = u]
  /\ UNCHANGED <<cfg, reauth, login, discovery, renewal, brokering, cp, told>>

CommandEnds ==
  /\ command.pc = "end" /\ command' = [command EXCEPT !.pc = "commit"]
  /\ IF cfg.secret = 0 THEN UNCHANGED <<ended, shut, usable, told>> ELSE EndOnServer(cfg.secret)
  /\ UNCHANGED <<daemon, login, discovery, renewal, brokering, device, home, gone>>

CommandCommits ==
  /\ command.pc = "commit" /\ command' = [command EXCEPT !.pc = "forget"]
  /\ cfg' = CASE command.op = "unset" -> Unset
              [] command.op = "logout" -> ClearLogin(cfg)
              [] OTHER -> [ClearLogin(cfg) EXCEPT !.url = command.url]
  /\ UNCHANGED <<mu, reauth, commands, login, discovery, renewal, brokering, cp, told>>

\* The config cannot be written: the command fails with the login still saved.
CommandNotSaved ==
  /\ command.pc = "commit" /\ command' = IdleCommand /\ mu' = "free"
  /\ UNCHANGED <<cfg, reauth, commands, login, discovery, renewal, brokering, cp, told>>

Unregister == reg' = Nobody /\ broker' = Unset
Tracked == {c \in Conn : conn[c].st # "closed"}

\* forgetServer under d.mu: the broker is unregistered, its connections' key collected.
ForgetsKeepingConns ==
  /\ command.pc = "forget"
  /\ command' = [command EXCEPT !.pc = "close", !.ln = reg, !.keys = FALSE]
  /\ Unregister /\ ds' = FALSE /\ reauth' = FALSE
  /\ UNCHANGED <<cfg, mu, commands, login, discovery, renewal, bound, conn, cp, told>>
Forgets ==
  /\ command.pc = "forget"
  /\ command' = [command EXCEPT !.pc = "close", !.ln = reg, !.keys = Tracked # {}]
  /\ Unregister /\ ds' = FALSE /\ reauth' = FALSE
  /\ UNCHANGED <<cfg, mu, commands, login, discovery, renewal, bound, conn, cp, told>>

\* Its listener is closed.
ForgetCloses ==
  /\ command.pc = "close" /\ command' = [command EXCEPT !.pc = "drop"]
  /\ bound' = bound \ {command.ln}
  /\ UNCHANGED <<daemon, login, discovery, renewal, ds, reg, broker, conn, cp, told>>

CloseConns == conn' = [c \in Conn |-> Closed]

\* Then the connections it accepted; serverMu is released.
ForgetDrops ==
  /\ command.pc = "drop" /\ command' = IdleCommand /\ mu' = "free"
  /\ IF command.keys THEN CloseConns ELSE UNCHANGED conn
  /\ UNCHANGED <<cfg, reauth, commands, login, discovery, renewal, ds, reg, bound, broker, cp, told>>

-----------------------------------------------------------------------------
\* maybeRenewServer, one pass at a time, when the token is near its expiry.

\* A server already refused is not asked again.
RenewalAsks ==
  /\ renewal.pc = "idle" /\ LoggedIn(cfg) /\ ~reauth
  /\ renewal' = [IdleRenewal EXCEPT !.pc = "asked", !.srv = cfg]
  /\ UNCHANGED <<daemon, login, command, discovery, brokering, cp, told>>

Renewable(s) == s \notin shut /\ home[s] \notin gone

\* bearerSession: the row, read outside the transaction.
RenewalReads ==
  /\ renewal.pc = "asked"
  /\ renewal' = [renewal EXCEPT !.pc = "read", !.seen = Renewable(renewal.srv.secret)]
  /\ UNCHANGED <<daemon, login, command, discovery, brokering, cp, told>>

\* The transaction: lockedDaemon re-reads the row, the window is checked, a token issued.
RenewAsRead ==
  /\ renewal.pc = "read"
  /\ IF renewal.seen
     THEN renewal' = [renewal EXCEPT !.pc = "issued"] /\ usable' = usable \cup {renewal.srv.secret}
     ELSE renewal' = [renewal EXCEPT !.pc = "refused"] /\ UNCHANGED usable
  /\ UNCHANGED <<daemon, login, command, discovery, brokering,
                 device, home, ended, shut, gone, told>>
Renew ==
  /\ renewal.pc = "read"
  /\ IF Renewable(renewal.srv.secret)
     THEN renewal' = [renewal EXCEPT !.pc = "issued"] /\ usable' = usable \cup {renewal.srv.secret}
     ELSE renewal' = [renewal EXCEPT !.pc = "refused"] /\ UNCHANGED usable
  /\ UNCHANGED <<daemon, login, command, discovery, brokering,
                 device, home, ended, shut, gone, told>>

\* The answer is lost, or the token cannot be saved: the next tick retries.
RenewalLost ==
  /\ renewal.pc \in {"asked", "issued", "refused"} /\ renewal' = IdleRenewal
  /\ UNCHANGED <<daemon, login, command, discovery, brokering, cp, told>>

\* A token is saved only into the session it renews.
RenewalSavesAnyway ==
  /\ renewal.pc = "issued" /\ renewal' = IdleRenewal
  /\ cfg' = IF cfg.id # 0 THEN [cfg EXCEPT !.token = renewal.srv.secret] ELSE cfg
  /\ UNCHANGED <<mu, reauth, commands, login, command, discovery, brokering, cp, told>>
RenewalSaves ==
  /\ renewal.pc = "issued" /\ renewal' = IdleRenewal
  /\ cfg' = IF SameSession(renewal.srv, cfg)
            THEN [cfg EXCEPT !.token = renewal.srv.secret] ELSE cfg
  /\ UNCHANGED <<mu, reauth, commands, login, command, discovery, brokering, cp, told>>

\* So is the refusal.
RenewalRefusedAnyway ==
  /\ renewal.pc = "refused" /\ renewal' = IdleRenewal /\ reauth' = TRUE
  /\ UNCHANGED <<cfg, mu, commands, login, command, discovery, brokering, cp, told>>
RenewalRefused ==
  /\ renewal.pc = "refused" /\ renewal' = IdleRenewal
  /\ reauth' = (reauth \/ SameSession(renewal.srv, cfg))
  /\ UNCHANGED <<cfg, mu, commands, login, command, discovery, brokering, cp, told>>

-----------------------------------------------------------------------------
\* openListeners and syncServer: after a login, on the ticker and on reload.

\* Under discoveryMu, with the server as it is now.
DiscoveryStarts ==
  /\ discovery.pc = "idle" /\ LoggedIn(cfg)
  /\ discovery' = [IdleDiscovery EXCEPT !.pc = "net", !.srv = cfg]
  /\ UNCHANGED <<daemon, login, command, renewal, brokering, cp, told>>

\* Discovery fails, or the port is taken; what is brokered stays.
DiscoveryFails ==
  /\ discovery.pc \in {"net", "bind"} /\ discovery' = IdleDiscovery
  /\ UNCHANGED <<daemon, login, command, renewal, brokering, cp, told>>

\* The answer, unless the session it was asked with is gone.  A datasource no longer
\* connectable, or one that moved, loses its broker.
DiscoveryApplies(connectable, moved) ==
  LET stale == reg # Nobody /\ (~connectable \/ moved)
      bind == connectable /\ (stale \/ reg = Nobody)
  IN /\ discovery.pc = "net"
     /\ IF SameSession(discovery.srv, cfg)
        THEN /\ ds' = (connectable \/ (ds /\ reg = Nobody))
             /\ IF stale THEN Unregister ELSE UNCHANGED <<reg, broker>>
             /\ discovery' = IF stale THEN [discovery EXCEPT !.pc = "close", !.ln = reg, !.bind = bind]
                             ELSE IF bind THEN [discovery EXCEPT !.pc = "bind"] ELSE IdleDiscovery
        ELSE discovery' = IdleDiscovery /\ UNCHANGED <<ds, reg, broker>>
     /\ UNCHANGED <<daemon, login, command, renewal, bound, conn, cp, told>>

DiscoveryCloses ==
  /\ discovery.pc = "close" /\ discovery' = [discovery EXCEPT !.pc = "drop", !.ln = Nobody]
  /\ bound' = bound \ {discovery.ln}
  /\ UNCHANGED <<daemon, login, command, renewal, ds, reg, broker, conn, cp, told>>

DiscoveryDrops ==
  /\ discovery.pc = "drop" /\ CloseConns
  /\ discovery' = IF discovery.bind THEN [discovery EXCEPT !.pc = "bind", !.bind = FALSE]
                  ELSE IdleDiscovery
  /\ UNCHANGED <<daemon, login, command, renewal, ds, reg, bound, broker, cp, told>>

Unused(l) == l \notin bound \cup {reg, command.ln} /\ \A c \in Conn : conn[c].via # l
Register(l) ==
  /\ reg' = l /\ bound' = bound \cup {l} /\ broker' = ClearLogin(discovery.srv)

\* The listener is registered if the session is still the server's, else closed again.
DiscoveryBindsAnyway(l) ==
  /\ discovery.pc = "bind" /\ Unused(l) /\ discovery' = IdleDiscovery /\ Register(l)
  /\ UNCHANGED <<daemon, login, command, renewal, ds, conn, cp, told>>
DiscoveryBinds(l) ==
  /\ discovery.pc = "bind" /\ Unused(l) /\ discovery' = IdleDiscovery
  /\ IF SameSession(discovery.srv, cfg) THEN Register(l) ELSE UNCHANGED <<reg, bound, broker>>
  /\ UNCHANGED <<daemon, login, command, renewal, ds, conn, cp, told>>

-----------------------------------------------------------------------------
\* The brokers and their connections.

\* The provider's accept loop fails and closes the listener ...
ServeFails ==
  /\ reg \in bound /\ bound' = bound \ {reg}
  /\ UNCHANGED <<daemon, tasks, ds, reg, broker, conn, cp, told>>

\* ... and serve, once it has discoveryMu, unregisters it and drops its connections.
ServeEnds ==
  /\ reg \notin bound \cup {Nobody} /\ discovery.pc = "idle" /\ Unregister
  /\ discovery' = [IdleDiscovery EXCEPT !.pc = "drop"]
  /\ UNCHANGED <<daemon, login, command, renewal, ds, bound, conn, cp, told>>

\* Accept tracks the connection.
Accept(c, l) ==
  /\ conn[c].st = "closed" /\ l \in bound
  /\ conn' = [conn EXCEPT ![c] = [st |-> "accepted", via |-> l]]
  /\ UNCHANGED <<daemon, tasks, ds, reg, bound, broker, cp, told>>

\* resolveSession: credentials for the connection, or it is refused.
Resolve(c) ==
  /\ conn[c].st = "accepted"
  /\ conn' = [conn EXCEPT ![c] =
       IF ds /\ LoggedIn(cfg) /\ reg = @.via /\ @.via \in bound
       THEN [@ EXCEPT !.st = "piping"] ELSE Closed]
  /\ UNCHANGED <<daemon, tasks, ds, reg, bound, broker, cp, told>>

Disconnect(c) ==
  /\ conn[c].st = "piping" /\ conn' = [conn EXCEPT ![c] = Closed]
  /\ UNCHANGED <<daemon, tasks, ds, reg, bound, broker, cp, told>>

\* A session Login has not settled yet: the one it polled, or the one it replaces.
Unsettled ==
  (IF login.pc = "polled" THEN {login.res} ELSE {})
    \cup (IF login.pc \in {"saved", "ending"} THEN {login.srv.secret} \ {0} ELSE {})

\* The daemon stops or crashes and starts again from the file; a command cut short fails.
Restart ==
  /\ login' = IdleLogin /\ command' = IdleCommand /\ discovery' = IdleDiscovery /\ renewal' = IdleRenewal
  /\ mu' = "free" /\ reauth' = FALSE /\ ds' = FALSE /\ reg' = Nobody /\ bound' = {} /\ CloseConns
  /\ broker' = Unset /\ device' = "none" /\ told' = told \cup Unsettled
  /\ UNCHANGED <<cfg, commands, home, ended, shut, usable, gone>>

ControlPlaneSteps ==
  \/ Approve \/ \E s \in Session : EndByConsent(s) \/ WindowCloses(s)
  \/ \E u \in ControlPlane : Deprovision(u)

LoginSteps ==
  \/ LoginStart \/ LoginAbandoned \/ PollReads \/ PollMints
  \/ LoginSaves \/ LoginNotSaved \/ LoginReleases \/ LoginEndsReplaced

CommandSteps ==
  \/ \E u \in ControlPlane : CreateServer(u)
  \/ CommandStarts("logout", 0) \/ CommandStarts("unset", 0)
  \/ \E u \in ControlPlane : u # cfg.url /\ CommandStarts("set", u)
  \/ CommandEnds \/ CommandCommits \/ CommandNotSaved \/ Forgets \/ ForgetCloses \/ ForgetDrops

RenewalSteps ==
  RenewalAsks \/ RenewalReads \/ Renew \/ RenewalLost \/ RenewalSaves \/ RenewalRefused

DiscoverySteps ==
  \/ DiscoveryStarts \/ DiscoveryFails \/ DiscoveryCloses \/ DiscoveryDrops \/ ServeEnds
  \/ \E connectable, moved \in BOOLEAN : DiscoveryApplies(connectable, moved)
  \/ \E l \in Listener : DiscoveryBinds(l)

BrokerSteps ==
  \/ ServeFails
  \/ \E c \in Conn : Resolve(c) \/ Disconnect(c) \/ \E l \in Listener : Accept(c, l)

Next ==
  \/ ControlPlaneSteps \/ LoginSteps \/ CommandSteps \/ RenewalSteps
  \/ DiscoverySteps \/ BrokerSteps \/ Restart

Spec == Init /\ [][Next]_vars

-----------------------------------------------------------------------------

Server == [id : {0} \cup ServerId, url : ControlPlane \cup {0},
           token : Session \cup {0}, secret : Session \cup {0}]

LoginRecord == [pc : {"idle", "browser", "minting", "polled", "saved", "ending"},
                srv : Server, res : Session \cup {0}]
CommandRecord == [pc : {"idle", "end", "commit", "forget", "close", "drop"},
                  op : {"none", "logout", "unset", "set"}, url : ControlPlane \cup {0},
                  ln : Listener \cup {Nobody}, keys : BOOLEAN]
DiscoveryRecord == [pc : {"idle", "net", "close", "drop", "bind"}, srv : Server,
                    ln : Listener \cup {Nobody}, bind : BOOLEAN]
RenewalRecord == [pc : {"idle", "asked", "read", "issued", "refused"}, srv : Server, seen : BOOLEAN]
ConnRecord == [st : {"closed", "accepted", "piping"}, via : Listener \cup {Nobody}]

\* Every variable keeps its type.
TypeOK ==
  /\ cfg \in Server /\ mu \in {"free", "login", "command"} /\ reauth \in BOOLEAN
  /\ commands \in 0 .. MaxCommands
  /\ login \in LoginRecord /\ command \in CommandRecord
  /\ discovery \in DiscoveryRecord /\ renewal \in RenewalRecord
  /\ ds \in BOOLEAN /\ reg \in Listener \cup {Nobody} /\ bound \subseteq Listener
  /\ broker \in Server /\ conn \in [Conn -> ConnRecord]
  /\ device \in {"none", "pending", "approved"} /\ home \in [Session -> ControlPlane \cup {0}]
  /\ ended \subseteq Session /\ shut \subseteq Session /\ usable \subseteq Session
  /\ gone \subseteq ControlPlane /\ told \subseteq Session

\* The saved login is whole: its token and its renewal secret are of one session, and that
\* session is one the server's own control plane minted.  A renewal, a login and a logout that
\* overlap never resurrect a cleared login or carry a token to another URL.
LoginIsWhole ==
  /\ cfg.token = cfg.secret
  /\ cfg.token # 0 => home[cfg.token] = cfg.url

\* A broker is registered only for the server as it is configured and logged in, except while
\* the command that just cleared the login is about to forget it: a discovery pass that spans a
\* logout, an unset or a URL change leaves no listener behind.
BrokersLoggedIn ==
  reg # Nobody /\ command.pc # "forget" =>
    LoggedIn(cfg) /\ broker.id = cfg.id /\ broker.url = cfg.url

\* An open listener is the registered one or about to be closed, and a connection that was given
\* credentials runs through the registered listener or is about to be closed: none keeps piping
\* after a logout, a revocation or a broker's failure.
NothingOutlivesItsBroker ==
  /\ bound \subseteq {reg} \cup (IF command.pc = "close" THEN {command.ln} ELSE {})
                          \cup {discovery.ln}
  /\ \A c \in Conn : conn[c].st = "piping" =>
       \/ conn[c].via = reg
       \/ command.pc \in {"close", "drop"} /\ command.keys
       \/ discovery.pc \in {"close", "drop"}

\* A server is marked as needing a login only if its current session really cannot be renewed, so
\* a late refusal of an old session never stops the renewals of a new one.
RefusedIsCurrent ==
  reauth => \/ LoggedIn(cfg) /\ cfg.secret \in shut
            \/ login.pc = "saved" \/ command.pc = "forget"

\* No wire token is usable once its session ended or its principal was deprovisioned, whatever
\* renewal or poll was under way (the principal's lock and the reads repeated under it).
EndedIssuesNothing ==
  \A s \in usable : s \notin ended /\ home[s] \notin gone

\* Every session minted is ended, or is the saved one, or belongs to a login under way, or was
\* left behind by a step that failed: no overlap of login, logout, unset and URL change alone
\* orphans one.
SessionsAccounted ==
  \A s \in Session : home[s] # 0 =>
    s \in ended \cup {cfg.secret} \cup Unsettled \cup told
=============================================================================
