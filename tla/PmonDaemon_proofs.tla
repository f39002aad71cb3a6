--------------------------- MODULE PmonDaemon_proofs ---------------------------
(***************************************************************************)
(* The safety properties of PmonDaemon, for any number of URLs, sessions,  *)
(* commands, listeners and connections, and every overlap of the daemon's  *)
(* goroutines.                                                             *)
(***************************************************************************)
EXTENDS PmonDaemon, TLAPS

-----------------------------------------------------------------------------
\* The inductive invariant.

\* Who holds serverMu, and what a snapshot under it still says about the saved login.
Locks ==
  /\ mu = "command" <=> command.pc # "idle"
  /\ mu = "login" <=> login.pc = "saved"
  /\ cfg.id = 0 => cfg = Unset
  /\ cfg.id # 0 => cfg.url \in ControlPlane
  /\ login.pc # "idle" => login.srv.url \in ControlPlane
  /\ command.op = "set" => command.url \in ControlPlane
  /\ command.pc # "idle" => cfg.id # 0 \/ command.pc \notin {"end", "commit"}
  /\ command.pc \in {"end", "commit"} => command.op \in {"logout", "unset", "set"}

\* The sessions the control plane knows.
Ledger ==
  /\ ended \subseteq shut
  /\ \A s \in shut \cup usable : home[s] # 0
  /\ \A s \in Session : home[s] \in gone => s \in shut

\* The sessions the daemon's goroutines hold.
Holders ==
  /\ cfg.secret # 0 => home[cfg.secret] # 0
  /\ login.srv.secret # 0 => home[login.srv.secret] # 0
  /\ login.pc = "polled" => login.res # 0 /\ home[login.res] = login.srv.url
  /\ login.pc \in {"browser", "minting", "polled"} => cfg.secret \in {0, login.srv.secret}
  /\ login.pc = "ending" => login.srv.secret # 0
  /\ renewal.pc # "idle" => renewal.srv.secret # 0 /\ home[renewal.srv.secret] # 0
  /\ renewal.pc = "refused" => renewal.srv.secret \in shut
  /\ command.pc = "commit" => cfg.secret \in {0} \cup ended \cup told

\* The broker and the two passes that may take it down.
Passes ==
  /\ discovery.pc # "close" => discovery.ln = Nobody
  /\ discovery.pc \in {"close", "drop", "bind"} => reg = Nobody
  /\ \A c \in Conn : conn[c].st # "closed" => conn[c].via \in Listener

IInv ==
  /\ TypeOK /\ Locks /\ Ledger /\ Holders /\ Passes
  /\ LoginIsWhole /\ BrokersLoggedIn /\ NothingOutlivesItsBroker
  /\ RefusedIsCurrent /\ EndedIssuesNothing /\ SessionsAccounted

-----------------------------------------------------------------------------
\* Types.

USE Urls, SomeSessions, SomeCommands, NobodyListens DEF Session, ServerId

\* Three snapshots cannot remember all four ids.
LEMMA FreshIdType == FreshId \in ServerId
<1> DEFINE used == {login.srv.id, discovery.srv.id, renewal.srv.id}
<1>1. \E i \in ServerId : i \notin used
  <2>1. ASSUME \A i \in ServerId : i \in used PROVE FALSE
    <3>1. 1 \in used /\ 2 \in used /\ 3 \in used /\ 4 \in used
      BY <2>1
    <3> QED  BY <3>1
  <2> QED  BY <2>1
<1> QED
  BY <1>1 DEF FreshId

\* The idle records have their types.
LEMMA IdleTypes ==
  /\ Unset \in Server /\ IdleLogin \in LoginRecord /\ IdleCommand \in CommandRecord
  /\ IdleDiscovery \in DiscoveryRecord /\ IdleRenewal \in RenewalRecord /\ Closed \in ConnRecord
<1>1. Unset \in Server
  BY DEF Unset, Server
<1>2. IdleLogin \in LoginRecord
  BY <1>1 DEF IdleLogin, LoginRecord
<1>3. IdleCommand \in CommandRecord
  BY DEF IdleCommand, CommandRecord
<1>4. IdleDiscovery \in DiscoveryRecord
  BY <1>1 DEF IdleDiscovery, DiscoveryRecord
<1>5. IdleRenewal \in RenewalRecord
  BY <1>1 DEF IdleRenewal, RenewalRecord
<1>6. Closed \in ConnRecord
  BY DEF Closed, ConnRecord
<1> QED  BY <1>1, <1>2, <1>3, <1>4, <1>5, <1>6

\* What the daemon does to a server's record keeps its type.
LEMMA ServerUpdates ==
  /\ \A i \in ServerId, u \in ControlPlane : [Unset EXCEPT !.id = i, !.url = u] \in Server
  /\ \A r \in Server : ClearLogin(r) \in Server
  /\ \A r \in Server, u \in ControlPlane \cup {0} : [r EXCEPT !.url = u] \in Server
  /\ \A r \in Server, s \in Session \cup {0} :
       [r EXCEPT !.token = s] \in Server /\ [r EXCEPT !.token = s, !.secret = s] \in Server
<1>1. ASSUME NEW i \in ServerId, NEW u \in ControlPlane
      PROVE  [Unset EXCEPT !.id = i, !.url = u] \in Server
  BY ZenonT(60) DEF Unset, Server
<1>2. ASSUME NEW r \in Server PROVE ClearLogin(r) \in Server
  BY ZenonT(60) DEF ClearLogin, Server
<1>3. ASSUME NEW r \in Server, NEW u \in ControlPlane \cup {0}
      PROVE  [r EXCEPT !.url = u] \in Server
  BY DEF Server
<1>4. ASSUME NEW r \in Server, NEW s \in Session \cup {0}
      PROVE  [r EXCEPT !.token = s] \in Server /\ [r EXCEPT !.token = s, !.secret = s] \in Server
  BY ZenonT(60) DEF Server
<1> QED  BY ZenonT(60), <1>1, <1>2, <1>3, <1>4

\* Init has the types.
LEMMA TypeInit == Init => TypeOK
<1> SUFFICES ASSUME Init PROVE TypeOK
  OBVIOUS
<1>1. conn \in [Conn -> ConnRecord] /\ home \in [Session -> ControlPlane \cup {0}]
  BY IdleTypes DEF Init
<1>2. cfg \in Server /\ broker \in Server /\ login \in LoginRecord /\ command \in CommandRecord
  BY IdleTypes DEF Init
<1>3. discovery \in DiscoveryRecord /\ renewal \in RenewalRecord
  BY IdleTypes DEF Init
<1>4. reauth \in BOOLEAN /\ ds \in BOOLEAN
  BY Zenon DEF Init
<1>5. commands \in 0 .. MaxCommands
  BY DEF Init
<1>6. /\ mu \in {"free", "login", "command"} /\ device \in {"none", "pending", "approved"}
      /\ reg \in Listener \cup {Nobody}
  BY DEF Init
<1>7. /\ bound \subseteq Listener /\ ended \subseteq Session /\ shut \subseteq Session
      /\ usable \subseteq Session /\ gone \subseteq ControlPlane /\ told \subseteq Session
  BY DEF Init
<1> QED
  BY <1>1, <1>2, <1>3, <1>4, <1>5, <1>6, <1>7 DEF TypeOK

\* Every step keeps the types.
LEMMA TypeStep == TypeOK /\ Holders /\ [Next]_vars => TypeOK'
<1> SUFFICES ASSUME TypeOK, Holders, [Next]_vars PROVE TypeOK'
  OBVIOUS
<1> USE DEF daemon, tasks, brokering, cp
<1>1. ASSUME ControlPlaneSteps PROVE TypeOK'
  <2>1. CASE Approve
    BY <2>1 DEF TypeOK, Approve
  <2>2. ASSUME NEW s \in Session, EndByConsent(s) PROVE TypeOK'
    BY <2>2 DEF TypeOK, EndByConsent, EndDaemon
  <2>3. ASSUME NEW s \in Session, WindowCloses(s) PROVE TypeOK'
    BY <2>3 DEF TypeOK, WindowCloses
  <2>4. ASSUME NEW u \in ControlPlane, Deprovision(u) PROVE TypeOK'
    BY ZenonT(60), <2>4 DEF TypeOK, Deprovision
  <2> QED  BY <1>1, <2>1, <2>2, <2>3, <2>4 DEF ControlPlaneSteps
<1>2. ASSUME LoginSteps PROVE TypeOK'
  <2>1. CASE LoginStart
    <3>1. login' \in LoginRecord
      BY <2>1 DEF TypeOK, LoginStart, LoginRecord
    <3> QED  BY <2>1, <3>1 DEF TypeOK, LoginStart
  <2>2. CASE LoginAbandoned
    BY <2>2, IdleTypes DEF TypeOK, LoginAbandoned
  <2>3. CASE PollReads
    <3>1. login' \in LoginRecord
      BY <2>3 DEF TypeOK, PollReads, LoginRecord
    <3> QED  BY <2>3, <3>1 DEF TypeOK, PollReads
  <2>4. CASE PollMints
    <3>1. PICK s \in Session :
            /\ home' = [home EXCEPT ![s] = login.srv.url] /\ usable' = usable \cup {s}
            /\ \/ login' = [login EXCEPT !.pc = "polled", !.res = s] /\ UNCHANGED told
               \/ login' = IdleLogin /\ told' = told \cup {s}
      BY ZenonT(60), <2>4 DEF PollMints, Mint
    <3>2. login.srv.url \in ControlPlane \cup {0} /\ [login EXCEPT !.pc = "polled", !.res = s] \in LoginRecord
      BY ZenonT(60) DEF TypeOK, LoginRecord, Server
    <3>3. login' \in LoginRecord /\ told' \subseteq Session
      BY <3>1, <3>2, IdleTypes DEF TypeOK
    <3>4. home' \in [Session -> ControlPlane \cup {0}] /\ usable' \subseteq Session
      BY <3>1, <3>2 DEF TypeOK
    <3> QED  BY <2>4, <3>3, <3>4 DEF TypeOK, PollMints
  <2>5. CASE LoginSaves
    <3>1. cfg' \in Server
      <4>1. login.res \in Session \cup {0} /\ cfg \in Server
        BY DEF TypeOK, LoginRecord
      <4>2. [cfg EXCEPT !.token = login.res, !.secret = login.res] \in Server
        BY ZenonT(60), <4>1, ServerUpdates
      <4> QED  BY <2>5, <4>2 DEF LoginSaves
    <3>2. login' \in LoginRecord
      BY <2>5 DEF TypeOK, LoginSaves, LoginRecord
    <3> QED  BY <2>5, <3>1, <3>2 DEF TypeOK, LoginSaves
  <2>6. CASE LoginNotSaved
    <3>1. login.res \in Session
      BY <2>6 DEF TypeOK, LoginNotSaved, LoginRecord, Holders
    <3> QED  BY ZenonT(60), <2>6, <3>1, IdleTypes DEF TypeOK, LoginNotSaved
  <2>7. CASE LoginReleases
    <3>1. login' \in LoginRecord
      BY <2>7, IdleTypes DEF TypeOK, LoginReleases, LoginRecord
    <3> QED  BY ZenonT(60), <2>7, <3>1 DEF TypeOK, LoginReleases
  <2>8. CASE LoginEndsReplaced
    <3>1. login.srv.secret \in Session
      BY <2>8 DEF TypeOK, LoginEndsReplaced, LoginRecord, Server, Holders
    <3>2. /\ ended' \subseteq Session /\ shut' \subseteq Session
          /\ usable' \subseteq Session /\ told' \subseteq Session
      BY ZenonT(60), <2>8, <3>1 DEF TypeOK, LoginEndsReplaced, EndOnServer, EndDaemon
    <3> QED  BY <2>8, <3>2, IdleTypes DEF TypeOK, LoginEndsReplaced
  <2> QED  BY <1>2, <2>1, <2>2, <2>3, <2>4, <2>5, <2>6, <2>7, <2>8 DEF LoginSteps
<1>3. ASSUME CommandSteps PROVE TypeOK'
  <2>1. ASSUME NEW u \in ControlPlane, CreateServer(u) PROVE TypeOK'
    <3>1. cfg' \in Server
      BY ZenonT(60), FreshIdType, <2>1, ServerUpdates DEF TypeOK, CreateServer
    <3> QED  BY <2>1, <3>1 DEF TypeOK, CreateServer
  <2>2. ASSUME NEW op \in {"logout", "unset", "set"}, NEW u \in ControlPlane \cup {0},
               CommandStarts(op, u)
        PROVE  TypeOK'
    <3>1. command' \in CommandRecord
      BY ZenonT(60), <2>2 DEF TypeOK, CommandStarts, IdleCommand, CommandRecord
    <3> QED  BY <2>2, <3>1 DEF TypeOK, CommandStarts
  <2>3. CASE CommandEnds
    <3>1. command' \in CommandRecord
      BY <2>3 DEF TypeOK, CommandEnds, CommandRecord
    <3>2. cfg.secret \in Session \cup {0}
      BY DEF TypeOK, Server
    <3>3. /\ ended' \subseteq Session /\ shut' \subseteq Session
          /\ usable' \subseteq Session /\ told' \subseteq Session
      BY <2>3, <3>2 DEF TypeOK, CommandEnds, EndOnServer, EndDaemon
    <3> QED  BY <2>3, <3>1, <3>3 DEF TypeOK, CommandEnds
  <2>4. CASE CommandCommits
    <3>1. command.url \in ControlPlane \cup {0} /\ ClearLogin(cfg) \in Server
      BY ZenonT(60), ServerUpdates DEF TypeOK, CommandRecord
    <3>2. cfg' \in {Unset, ClearLogin(cfg), [ClearLogin(cfg) EXCEPT !.url = command.url]}
      BY <2>4 DEF CommandCommits
    <3>3. cfg' \in Server
      <4>1. [ClearLogin(cfg) EXCEPT !.url = command.url] \in Server
        BY ZenonT(60), <3>1, ServerUpdates
      <4> QED  BY <3>1, <3>2, <4>1, IdleTypes, Zenon
    <3>4. command' \in CommandRecord
      BY <2>4 DEF TypeOK, CommandCommits, CommandRecord
    <3> QED  BY <2>4, <3>3, <3>4 DEF TypeOK, CommandCommits
  <2>5. CASE CommandNotSaved
    BY <2>5, IdleTypes DEF TypeOK, CommandNotSaved
  <2>6. CASE Forgets
    <3>1. command' \in CommandRecord
      BY ZenonT(60), <2>6 DEF TypeOK, Forgets, CommandRecord
    <3> QED  BY ZenonT(60), <2>6, <3>1, IdleTypes DEF TypeOK, Forgets, Unregister
  <2>7. CASE ForgetCloses
    <3>1. command' \in CommandRecord
      BY <2>7 DEF TypeOK, ForgetCloses, CommandRecord
    <3> QED  BY <2>7, <3>1 DEF TypeOK, ForgetCloses
  <2>8. CASE ForgetDrops
    <3>1. conn' \in [Conn -> ConnRecord]
      BY <2>8, IdleTypes DEF TypeOK, ForgetDrops, CloseConns
    <3> QED  BY <2>8, <3>1, IdleTypes DEF TypeOK, ForgetDrops
  <2> QED  BY <1>3, <2>1, <2>2, <2>3, <2>4, <2>5, <2>6, <2>7, <2>8 DEF CommandSteps
<1>4. ASSUME RenewalSteps PROVE TypeOK'
  <2>1. CASE RenewalAsks
    <3>1. renewal' \in RenewalRecord
      BY ZenonT(60), <2>1 DEF TypeOK, RenewalAsks, IdleRenewal, RenewalRecord
    <3> QED  BY <2>1, <3>1 DEF TypeOK, RenewalAsks
  <2>2. CASE RenewalReads
    <3>1. renewal' \in RenewalRecord
      BY ZenonT(60), <2>2 DEF TypeOK, RenewalReads, Renewable, RenewalRecord
    <3> QED  BY <2>2, <3>1 DEF TypeOK, RenewalReads
  <2>3. CASE Renew
    <3>1. renewal' \in RenewalRecord
      BY <2>3 DEF TypeOK, Renew, RenewalRecord
    <3>2. renewal.srv.secret \in Session
      BY <2>3 DEF TypeOK, Renew, RenewalRecord, Server, Holders
    <3> QED  BY <2>3, <3>1, <3>2 DEF TypeOK, Renew
  <2>4. CASE RenewalLost
    BY <2>4, IdleTypes DEF TypeOK, RenewalLost
  <2>5. CASE RenewalSaves
    <3>1. renewal.srv.secret \in Session \cup {0}
      BY DEF TypeOK, RenewalRecord, Server
    <3>2. cfg \in Server /\ [cfg EXCEPT !.token = renewal.srv.secret] \in Server
      BY ZenonT(60), <3>1, ServerUpdates DEF TypeOK
    <3>3. cfg' \in Server
      BY <2>5, <3>2 DEF RenewalSaves
    <3> QED  BY <2>5, <3>3, IdleTypes DEF TypeOK, RenewalSaves
  <2>6. CASE RenewalRefused
    BY <2>6, IdleTypes DEF TypeOK, RenewalRefused, SameSession, LoggedIn
  <2> QED  BY <1>4, <2>1, <2>2, <2>3, <2>4, <2>5, <2>6 DEF RenewalSteps
<1>5. ASSUME DiscoverySteps PROVE TypeOK'
  <2>1. CASE DiscoveryStarts
    <3>1. discovery' \in DiscoveryRecord
      BY ZenonT(60), <2>1 DEF TypeOK, DiscoveryStarts, IdleDiscovery, DiscoveryRecord
    <3> QED  BY <2>1, <3>1 DEF TypeOK, DiscoveryStarts
  <2>2. CASE DiscoveryFails
    BY <2>2, IdleTypes DEF TypeOK, DiscoveryFails
  <2>3. CASE DiscoveryCloses
    <3>1. discovery' \in DiscoveryRecord
      BY ZenonT(60), <2>3 DEF TypeOK, DiscoveryCloses, DiscoveryRecord
    <3> QED  BY <2>3, <3>1 DEF TypeOK, DiscoveryCloses
  <2>4. CASE DiscoveryDrops
    <3>1. discovery' \in DiscoveryRecord
      BY ZenonT(60), <2>4, IdleTypes DEF TypeOK, DiscoveryDrops, DiscoveryRecord
    <3>2. conn' \in [Conn -> ConnRecord]
      BY <2>4, IdleTypes DEF DiscoveryDrops, CloseConns
    <3> QED  BY <2>4, <3>1, <3>2 DEF TypeOK, DiscoveryDrops
  <2>5. CASE ServeEnds
    <3>1. discovery' \in DiscoveryRecord
      BY ZenonT(60), <2>5, IdleTypes DEF ServeEnds, IdleDiscovery, DiscoveryRecord
    <3> QED  BY <2>5, <3>1, IdleTypes DEF TypeOK, ServeEnds, Unregister
  <2>6. ASSUME NEW connectable \in BOOLEAN, NEW moved \in BOOLEAN,
               DiscoveryApplies(connectable, moved)
        PROVE  TypeOK'
    <3>1. \A b \in BOOLEAN : /\ [discovery EXCEPT !.pc = "close", !.ln = reg, !.bind = b] \in DiscoveryRecord
                             /\ [discovery EXCEPT !.pc = "bind"] \in DiscoveryRecord
      BY ZenonT(60) DEF TypeOK, DiscoveryRecord
    <3>2. discovery' \in DiscoveryRecord
      BY ZenonT(60), <2>6, <3>1, IdleTypes DEF DiscoveryApplies
    <3>3. ds' \in BOOLEAN /\ reg' \in Listener \cup {Nobody} /\ broker' \in Server
      BY <2>6, IdleTypes DEF TypeOK, DiscoveryApplies, Unregister
    <3> QED  BY <2>6, <3>2, <3>3 DEF TypeOK, DiscoveryApplies
  <2>7. ASSUME NEW l \in Listener, DiscoveryBinds(l) PROVE TypeOK'
    <3>1. ClearLogin(discovery.srv) \in Server
      BY ZenonT(60), ServerUpdates DEF TypeOK, DiscoveryRecord, ClearLogin, Server
    <3>2. reg' \in Listener \cup {Nobody} /\ bound' \subseteq Listener /\ broker' \in Server
      BY <2>7, <3>1 DEF TypeOK, DiscoveryBinds, Register
    <3> QED  BY <2>7, <3>2, IdleTypes DEF TypeOK, DiscoveryBinds
  <2> QED  BY <1>5, <2>1, <2>2, <2>3, <2>4, <2>5, <2>6, <2>7 DEF DiscoverySteps
<1>6. ASSUME BrokerSteps PROVE TypeOK'
  <2>1. CASE ServeFails
    BY <2>1 DEF TypeOK, ServeFails
  <2>2. ASSUME NEW c \in Conn, Resolve(c) PROVE TypeOK'
    <3>1. conn' \in [Conn -> ConnRecord]
      BY <2>2 DEF TypeOK, Resolve, Closed, ConnRecord
    <3> QED  BY <2>2, <3>1 DEF TypeOK, Resolve
  <2>3. ASSUME NEW c \in Conn, Disconnect(c) PROVE TypeOK'
    <3>1. conn' \in [Conn -> ConnRecord]
      BY <2>3 DEF TypeOK, Disconnect, Closed, ConnRecord
    <3> QED  BY <2>3, <3>1 DEF TypeOK, Disconnect
  <2>4. ASSUME NEW c \in Conn, NEW l \in Listener, Accept(c, l) PROVE TypeOK'
    <3>1. conn' \in [Conn -> ConnRecord]
      BY <2>4 DEF TypeOK, Accept, ConnRecord
    <3> QED  BY <2>4, <3>1 DEF TypeOK, Accept
  <2> QED  BY <1>6, <2>1, <2>2, <2>3, <2>4 DEF BrokerSteps
<1>7. CASE Restart
  <2>1. conn' \in [Conn -> ConnRecord]
    BY <1>7, IdleTypes DEF Restart, CloseConns
  <2>2. Unsettled \subseteq Session
    <3>1. login.srv.secret \in Session \cup {0} /\ (login.pc = "polled" => login.res \in Session)
      BY DEF TypeOK, LoginRecord, Server, Holders
    <3> QED  BY <3>1 DEF Unsettled
  <2> QED  BY ZenonT(60), <1>7, <2>1, <2>2, IdleTypes DEF TypeOK, Restart
<1>8. CASE UNCHANGED vars
  BY <1>8 DEF TypeOK, vars
<1> QED  BY <1>1, <1>2, <1>3, <1>4, <1>5, <1>6, <1>7, <1>8 DEF Next

-----------------------------------------------------------------------------
\* What each goroutine leaves alone.

\* The control plane's own steps touch nothing of the daemon.
LEMMA ControlPlaneFrame ==
  ControlPlaneSteps => UNCHANGED <<daemon, tasks, brokering, told>>
  BY DEF ControlPlaneSteps, Approve, EndByConsent, WindowCloses, Deprovision

\* Login.
LEMMA LoginFrame ==
  LoginSteps => UNCHANGED <<commands, command, discovery, renewal, brokering, gone>>
  BY DEF LoginSteps, daemon, cp, LoginStart, LoginAbandoned, PollReads, PollMints, LoginSaves,
         LoginNotSaved, LoginReleases, LoginEndsReplaced

\* Logout, UnsetServer and SetServer.
LEMMA CommandFrame ==
  CommandSteps => UNCHANGED <<login, discovery, renewal, device, home, gone>>
  BY ZenonT(60) DEF CommandSteps, tasks, cp, CreateServer, CommandStarts, CommandEnds,
     CommandCommits,
         CommandNotSaved, Forgets, ForgetCloses, ForgetDrops

\* maybeRenewServer.
LEMMA RenewalFrame ==
  RenewalSteps => UNCHANGED <<mu, commands, login, command, discovery, brokering,
                              device, home, ended, shut, gone, told>>
  BY DEF RenewalSteps, daemon, cp, RenewalAsks, RenewalReads, Renew, RenewalLost,
         RenewalSaves, RenewalRefused

\* openListeners, syncServer and serve's end.
LEMMA DiscoveryFrame ==
  DiscoverySteps => UNCHANGED <<daemon, login, command, renewal, cp, told>>
  BY ZenonT(60) DEF DiscoverySteps, DiscoveryStarts, DiscoveryFails, DiscoveryCloses,
     DiscoveryDrops,
         ServeEnds, DiscoveryApplies, DiscoveryBinds

\* The provider's accept loop and its connections.
LEMMA BrokerFrame ==
  BrokerSteps => UNCHANGED <<daemon, tasks, ds, reg, broker, cp, told>>
  BY DEF BrokerSteps, ServeFails, Resolve, Disconnect, Accept

\* The actions that update records, field by field.

\* poll's transaction.
LEMMA MintFields ==
  ASSUME TypeOK, PollMints
  PROVE  \E s \in Session :
           /\ home[s] = 0 /\ home' = [home EXCEPT ![s] = login.srv.url]
           /\ usable' = usable \cup {s}
           /\ \/ /\ login'.pc = "polled" /\ login'.res = s /\ login'.srv = login.srv
                 /\ told' = told
              \/ login' = IdleLogin /\ told' = told \cup {s}
<1>1. PICK s \in Session :
        /\ home[s] = 0 /\ home' = [home EXCEPT ![s] = login.srv.url]
        /\ usable' = usable \cup {s}
        /\ \/ login' = [login EXCEPT !.pc = "polled", !.res = s] /\ UNCHANGED told
           \/ login' = IdleLogin /\ told' = told \cup {s}
  BY ZenonT(60) DEF PollMints, Mint
<1>2. login \in LoginRecord
  BY DEF TypeOK
<1>3. ASSUME login' = [login EXCEPT !.pc = "polled", !.res = s]
      PROVE  login'.pc = "polled" /\ login'.res = s /\ login'.srv = login.srv
  BY <1>2, <1>3 DEF LoginRecord
<1> QED  BY ZenonT(60), <1>1, <1>3

\* Login's save.
LEMMA SaveFields ==
  ASSUME TypeOK, LoginSaves
  PROVE  /\ cfg'.id = cfg.id /\ cfg'.url = cfg.url /\ cfg'.token = login.res /\ cfg'.secret = login.res
         /\ login'.pc = "saved" /\ login'.srv = login.srv /\ login'.res = login.res
<1>1. cfg \in Server /\ login \in LoginRecord
  BY DEF TypeOK
<1>2. login' = [login EXCEPT !.pc = "saved"]
  BY DEF LoginSaves
<1>3. cfg' = [cfg EXCEPT !.token = login.res, !.secret = login.res]
  BY DEF LoginSaves
<1>4. cfg'.id = cfg.id /\ cfg'.url = cfg.url /\ cfg'.token = login.res /\ cfg'.secret = login.res
  BY <1>1, <1>3 DEF Server
<1>5. login'.pc = "saved" /\ login'.srv = login.srv /\ login'.res = login.res
  BY <1>1, <1>2 DEF LoginRecord
<1> QED  BY <1>4, <1>5

\* A renewal saves its token, or leaves the saved login as it is.
LEMMA RenewalFields ==
  ASSUME TypeOK, RenewalSaves
  PROVE  \/ cfg' = cfg
         \/ /\ SameSession(renewal.srv, cfg)
            /\ cfg'.id = cfg.id /\ cfg'.url = cfg.url
            /\ cfg'.secret = cfg.secret /\ cfg'.token = renewal.srv.secret
<1>1. CASE SameSession(renewal.srv, cfg)
  <2>1. cfg \in Server /\ cfg' = [cfg EXCEPT !.token = renewal.srv.secret]
    BY <1>1 DEF TypeOK, RenewalSaves
  <2>2. /\ cfg'.id = cfg.id /\ cfg'.url = cfg.url
        /\ cfg'.secret = cfg.secret /\ cfg'.token = renewal.srv.secret
    BY <2>1 DEF Server
  <2> QED  BY <1>1, <2>2
<1>2. CASE ~SameSession(renewal.srv, cfg)
  BY <1>2 DEF RenewalSaves
<1> QED  BY <1>1, <1>2

\* A commit clears the login, whatever the command.
LEMMA CommitFields ==
  ASSUME TypeOK, CommandCommits
  PROVE  cfg'.token = 0 /\ cfg'.secret = 0 /\ command'.pc = "forget"
<1>1. cfg \in Server /\ command \in CommandRecord
  BY DEF TypeOK
<1>2. cfg' \in {Unset, ClearLogin(cfg), [ClearLogin(cfg) EXCEPT !.url = command.url]}
  BY DEF CommandCommits
<1>3. cfg'.token = 0 /\ cfg'.secret = 0
  <2>1. Unset.token = 0 /\ Unset.secret = 0
    BY DEF Unset
  <2>2. ClearLogin(cfg).token = 0 /\ ClearLogin(cfg).secret = 0
    BY <1>1 DEF ClearLogin, Server
  <2>3. /\ [ClearLogin(cfg) EXCEPT !.url = command.url].token = 0
        /\ [ClearLogin(cfg) EXCEPT !.url = command.url].secret = 0
    BY <1>1 DEF ClearLogin, Server
  <2> QED  BY ZenonT(60), <1>2, <2>1, <2>2, <2>3
<1>4. command' = [command EXCEPT !.pc = "forget"]
  BY DEF CommandCommits
<1>5. command'.pc = "forget"
  BY <1>1, <1>4 DEF CommandRecord
<1> QED  BY <1>3, <1>5

-----------------------------------------------------------------------------
\* serverMu.

\* Every step keeps Locks.
LEMMA LocksStep == TypeOK /\ Locks /\ [Next]_vars => Locks'
<1> SUFFICES ASSUME TypeOK, Locks, [Next]_vars PROVE Locks'
  OBVIOUS
<1>0. cfg \in Server /\ login \in LoginRecord /\ command \in CommandRecord
  BY DEF TypeOK
<1>1. ASSUME ControlPlaneSteps PROVE Locks'
  BY <1>1, ControlPlaneFrame DEF Locks, daemon, tasks
<1>2. ASSUME LoginSteps PROVE Locks'
  <2>1. CASE LoginStart
    BY <2>1, <1>0 DEF Locks, LoginStart, Server, LoginRecord, CommandRecord, daemon, tasks
  <2>2. CASE LoginAbandoned
    BY <2>2, <1>0 DEF Locks, LoginAbandoned, IdleLogin, Server, LoginRecord, CommandRecord,
       daemon, tasks
  <2>3. CASE PollReads
    BY <2>3, <1>0 DEF Locks, PollReads, Server, LoginRecord, CommandRecord, daemon, tasks
  <2>4. CASE PollMints
    <3>1. (login'.pc = "polled" /\ login'.srv = login.srv) \/ login' = IdleLogin
      BY <2>4, MintFields
    <3> QED  BY <2>4, <3>1 DEF Locks, PollMints, daemon, IdleLogin
  <2>5. CASE LoginSaves
    BY <2>5, SaveFields DEF Locks, LoginSaves
  <2>6. CASE LoginNotSaved
    BY <2>6, <1>0 DEF Locks, LoginNotSaved, IdleLogin, Server, LoginRecord, CommandRecord, daemon,
       tasks
  <2>7. CASE LoginReleases
    BY <2>7, <1>0 DEF Locks, LoginReleases, IdleLogin, Server, LoginRecord, CommandRecord, daemon,
       tasks
  <2>8. CASE LoginEndsReplaced
    BY <2>8, <1>0 DEF Locks, LoginEndsReplaced, IdleLogin, EndOnServer, EndDaemon, Server,
       LoginRecord, CommandRecord, daemon, tasks
  <2> QED  BY <1>2, <2>1, <2>2, <2>3, <2>4, <2>5, <2>6, <2>7, <2>8 DEF LoginSteps
<1>3. ASSUME CommandSteps PROVE Locks'
  <2>1. ASSUME NEW u \in ControlPlane, CreateServer(u) PROVE Locks'
    <3>1. cfg'.id # 0 /\ cfg'.url = u /\ command.pc = "idle"
      BY <2>1, <1>0, FreshIdType DEF CreateServer, Unset, Locks, CommandRecord
    <3> QED  BY <2>1, <3>1 DEF Locks, CreateServer, tasks
  <2>2. ASSUME NEW op \in {"logout", "unset", "set"}, NEW u \in ControlPlane \cup {0},
               op = "set" => u \in ControlPlane, CommandStarts(op, u)
        PROVE  Locks'
    BY <2>2, <1>0 DEF Locks, CommandStarts, IdleCommand, Server, LoginRecord, CommandRecord,
       daemon, tasks
  <2>3. CASE CommandEnds
    BY <2>3, <1>0 DEF Locks, CommandEnds, EndOnServer, EndDaemon, Server, LoginRecord,
       CommandRecord, daemon, tasks
  <2>4. CASE CommandCommits
    BY <2>4, <1>0 DEF Locks, CommandCommits, Unset, ClearLogin, Server, LoginRecord,
       CommandRecord, daemon, tasks
  <2>5. CASE CommandNotSaved
    BY <2>5, <1>0 DEF Locks, CommandNotSaved, IdleCommand, Server, LoginRecord, CommandRecord,
       daemon, tasks
  <2>6. CASE Forgets
    BY <2>6, <1>0 DEF Locks, Forgets, Unregister, Server, LoginRecord, CommandRecord, daemon, tasks
  <2>7. CASE ForgetCloses
    BY <2>7, <1>0 DEF Locks, ForgetCloses, Server, LoginRecord, CommandRecord, daemon, tasks
  <2>8. CASE ForgetDrops
    BY <2>8, <1>0 DEF Locks, ForgetDrops, IdleCommand, CloseConns, Closed, Server, LoginRecord,
       CommandRecord, daemon, tasks
  <2> QED  BY <1>3, <2>1, <2>2, <2>3, <2>4, <2>5, <2>6, <2>7, <2>8 DEF CommandSteps
<1>4. ASSUME RenewalSteps PROVE Locks'
  <2>1. CASE RenewalAsks
    BY <2>1, <1>0 DEF Locks, RenewalAsks, IdleRenewal, LoggedIn, Server, LoginRecord,
       CommandRecord, daemon, tasks
  <2>2. CASE RenewalReads
    BY <2>2, <1>0 DEF Locks, RenewalReads, Renewable, Server, LoginRecord, CommandRecord, daemon,
       tasks
  <2>3. CASE Renew
    BY <2>3, <1>0 DEF Locks, Renew, Renewable, Server, LoginRecord, CommandRecord, daemon, tasks
  <2>4. CASE RenewalLost
    BY <2>4, <1>0 DEF Locks, RenewalLost, IdleRenewal, Server, LoginRecord, CommandRecord, daemon,
       tasks
  <2>5. CASE RenewalSaves
    <3>1. cfg' = cfg \/ (cfg.id # 0 /\ cfg'.id = cfg.id /\ cfg'.url = cfg.url)
      BY <2>5, RenewalFields DEF SameSession, LoggedIn, Locks, Unset
    <3> QED  BY <2>5, <3>1 DEF Locks, RenewalSaves
  <2>6. CASE RenewalRefused
    BY <2>6, <1>0 DEF Locks, RenewalRefused, IdleRenewal, SameSession, LoggedIn, Server,
       LoginRecord, CommandRecord, daemon, tasks
  <2> QED  BY <1>4, <2>1, <2>2, <2>3, <2>4, <2>5, <2>6 DEF RenewalSteps
<1>5. ASSUME DiscoverySteps PROVE Locks'
  BY <1>5, DiscoveryFrame DEF Locks, daemon
<1>6. ASSUME BrokerSteps PROVE Locks'
  BY <1>6, BrokerFrame DEF Locks, daemon, tasks
<1>7. CASE Restart
  BY <1>7, <1>0 DEF Locks, Restart, IdleLogin, IdleCommand, IdleDiscovery, IdleRenewal,
     CloseConns, Closed, Unsettled, Unset, Server, LoginRecord, CommandRecord, daemon, tasks
<1>8. CASE UNCHANGED vars
  BY <1>8 DEF Locks, vars, daemon, tasks, brokering, cp
<1> QED  BY <1>1, <1>2, <1>3, <1>4, <1>5, <1>6, <1>7, <1>8 DEF Next

-----------------------------------------------------------------------------
\* The control plane's sessions.

\* Every step keeps the ledger, and issues nothing on an ended session.
LEMMA LedgerStep ==
  TypeOK /\ Locks /\ Holders /\ Ledger /\ EndedIssuesNothing /\ [Next]_vars => (Ledger /\ EndedIssuesNothing)'
<1> SUFFICES ASSUME TypeOK, Locks, Holders, Ledger, EndedIssuesNothing, [Next]_vars
             PROVE  (Ledger /\ EndedIssuesNothing)'
  OBVIOUS
<1>0. /\ home \in [Session -> ControlPlane \cup {0}] /\ ended \subseteq Session
      /\ shut \subseteq Session /\ usable \subseteq Session /\ gone \subseteq ControlPlane
  BY DEF TypeOK
<1>1. ASSUME ControlPlaneSteps PROVE (Ledger /\ EndedIssuesNothing)'
  <2>1. CASE Approve
    BY <2>1 DEF Approve, Ledger, EndedIssuesNothing
  <2>2. ASSUME NEW s \in Session, EndByConsent(s) PROVE (Ledger /\ EndedIssuesNothing)'
    BY <2>2, <1>0 DEF EndByConsent, EndDaemon, Ledger, EndedIssuesNothing
  <2>3. ASSUME NEW s \in Session, WindowCloses(s) PROVE (Ledger /\ EndedIssuesNothing)'
    BY <2>3, <1>0 DEF WindowCloses, Ledger, EndedIssuesNothing
  <2>4. ASSUME NEW u \in ControlPlane, Deprovision(u) PROVE (Ledger /\ EndedIssuesNothing)'
    BY <2>4, <1>0 DEF Deprovision, Ledger, EndedIssuesNothing
  <2> QED  BY <1>1, <2>1, <2>2, <2>3, <2>4 DEF ControlPlaneSteps
<1>2. ASSUME LoginSteps PROVE (Ledger /\ EndedIssuesNothing)'
  <2>1. CASE LoginStart
    BY <2>1 DEF LoginStart, cp, Ledger, EndedIssuesNothing
  <2>2. CASE LoginAbandoned
    BY <2>2 DEF LoginAbandoned, cp, Ledger, EndedIssuesNothing
  <2>3. CASE PollReads
    BY <2>3 DEF PollReads, cp, Ledger, EndedIssuesNothing
  <2>4. CASE PollMints
    <3>1. PICK s \in Session : /\ home[s] = 0 /\ home' = [home EXCEPT ![s] = login.srv.url]
                               /\ usable' = usable \cup {s}
      BY <2>4, MintFields
    <3>2. login.srv.url \in ControlPlane /\ login.srv.url \notin gone
      BY <2>4 DEF PollMints, Locks
    <3>3. ended' = ended /\ shut' = shut /\ gone' = gone
      BY <2>4 DEF PollMints
    <3> QED  BY <1>0, <3>1, <3>2, <3>3 DEF Ledger, EndedIssuesNothing
  <2>5. CASE LoginSaves
    BY <2>5 DEF LoginSaves, cp, Ledger, EndedIssuesNothing
  <2>6. CASE LoginNotSaved
    BY <2>6 DEF LoginNotSaved, cp, Ledger, EndedIssuesNothing
  <2>7. CASE LoginReleases
    BY <2>7 DEF LoginReleases, cp, Ledger, EndedIssuesNothing
  <2>8. CASE LoginEndsReplaced
    <3>1. login.srv.secret \in Session /\ home[login.srv.secret] # 0
      BY <2>8 DEF TypeOK, LoginEndsReplaced, LoginRecord, Server, Holders
    <3> QED  BY ZenonT(60), <2>8, <1>0, <3>1 DEF LoginEndsReplaced, EndOnServer, EndDaemon,
                Ledger, EndedIssuesNothing
  <2> QED  BY <1>2, <2>1, <2>2, <2>3, <2>4, <2>5, <2>6, <2>7, <2>8 DEF LoginSteps
<1>3. ASSUME CommandSteps PROVE (Ledger /\ EndedIssuesNothing)'
  <2>1. ASSUME NEW u \in ControlPlane, CreateServer(u) PROVE (Ledger /\ EndedIssuesNothing)'
    BY <2>1 DEF CreateServer, cp, Ledger, EndedIssuesNothing
  <2>2. ASSUME NEW op \in {"logout", "unset", "set"}, NEW u \in ControlPlane \cup {0},
               op = "set" => u \in ControlPlane, CommandStarts(op, u)
        PROVE  (Ledger /\ EndedIssuesNothing)'
    BY <2>2 DEF CommandStarts, cp, Ledger, EndedIssuesNothing
  <2>3. CASE CommandEnds
    <3>1. cfg.secret # 0 => cfg.secret \in Session /\ home[cfg.secret] # 0
      BY DEF TypeOK, Server, Holders
    <3> QED  BY <2>3, <1>0, <3>1 DEF CommandEnds, EndOnServer, EndDaemon, Ledger, EndedIssuesNothing
  <2>4. CASE CommandCommits
    BY <2>4 DEF CommandCommits, cp, Ledger, EndedIssuesNothing
  <2>5. CASE CommandNotSaved
    BY <2>5 DEF CommandNotSaved, cp, Ledger, EndedIssuesNothing
  <2>6. CASE Forgets
    BY <2>6 DEF Forgets, cp, Ledger, EndedIssuesNothing
  <2>7. CASE ForgetCloses
    BY <2>7 DEF ForgetCloses, cp, Ledger, EndedIssuesNothing
  <2>8. CASE ForgetDrops
    BY <2>8 DEF ForgetDrops, cp, Ledger, EndedIssuesNothing
  <2> QED  BY <1>3, <2>1, <2>2, <2>3, <2>4, <2>5, <2>6, <2>7, <2>8 DEF CommandSteps
<1>4. ASSUME RenewalSteps PROVE (Ledger /\ EndedIssuesNothing)'
  <2>1. CASE RenewalAsks
    BY <2>1 DEF RenewalAsks, cp, Ledger, EndedIssuesNothing
  <2>2. CASE RenewalReads
    BY <2>2 DEF RenewalReads, cp, Ledger, EndedIssuesNothing
  <2>3. CASE Renew
    <3>1. renewal.srv.secret \in Session /\ home[renewal.srv.secret] # 0
      BY <2>3 DEF TypeOK, Renew, RenewalRecord, Server, Holders
    <3> QED  BY <2>3, <1>0, <3>1 DEF Renew, Renewable, Ledger, EndedIssuesNothing
  <2>4. CASE RenewalLost
    BY <2>4 DEF RenewalLost, cp, Ledger, EndedIssuesNothing
  <2>5. CASE RenewalSaves
    BY <2>5 DEF RenewalSaves, cp, Ledger, EndedIssuesNothing
  <2>6. CASE RenewalRefused
    BY <2>6 DEF RenewalRefused, cp, Ledger, EndedIssuesNothing
  <2> QED  BY <1>4, <2>1, <2>2, <2>3, <2>4, <2>5, <2>6 DEF RenewalSteps
<1>5. ASSUME DiscoverySteps PROVE (Ledger /\ EndedIssuesNothing)'
  BY <1>5, DiscoveryFrame DEF cp, Ledger, EndedIssuesNothing
<1>6. ASSUME BrokerSteps PROVE (Ledger /\ EndedIssuesNothing)'
  BY <1>6, BrokerFrame DEF cp, Ledger, EndedIssuesNothing
<1>7. CASE Restart
  BY <1>7 DEF Restart, Ledger, EndedIssuesNothing
<1>8. CASE UNCHANGED vars
  BY <1>8 DEF vars, daemon, tasks, brokering, cp, Ledger, EndedIssuesNothing
<1> QED  BY <1>1, <1>2, <1>3, <1>4, <1>5, <1>6, <1>7, <1>8 DEF Next

-----------------------------------------------------------------------------
\* The sessions the daemon holds.

\* Every step keeps what the goroutines hold, and the saved login whole.
LEMMA HoldersStep ==
  TypeOK /\ Locks /\ Ledger /\ Holders /\ LoginIsWhole /\ [Next]_vars => (Holders /\ LoginIsWhole)'
<1> SUFFICES ASSUME TypeOK, Locks, Ledger, Holders, LoginIsWhole, [Next]_vars
             PROVE  (Holders /\ LoginIsWhole)'
  OBVIOUS
<1>0. /\ cfg \in Server /\ login \in LoginRecord /\ renewal \in RenewalRecord /\ command \in CommandRecord
      /\ home \in [Session -> ControlPlane \cup {0}]
  BY DEF TypeOK
<1>s. /\ cfg.secret \in Session \cup {0} /\ login.srv.secret \in Session \cup {0}
      /\ login.res \in Session \cup {0} /\ renewal.srv.secret \in Session \cup {0}
  BY <1>0 DEF Server, LoginRecord, RenewalRecord
<1>1. ASSUME ControlPlaneSteps PROVE (Holders /\ LoginIsWhole)'
  <2>1. CASE Approve
    BY ZenonT(60), <2>1 DEF Approve, daemon, tasks, Holders, LoginIsWhole
  <2>2. ASSUME NEW s \in Session, EndByConsent(s) PROVE (Holders /\ LoginIsWhole)'
    BY <2>2 DEF EndByConsent, EndDaemon, daemon, tasks, Holders, LoginIsWhole
  <2>3. ASSUME NEW s \in Session, WindowCloses(s) PROVE (Holders /\ LoginIsWhole)'
    BY <2>3 DEF WindowCloses, daemon, tasks, Holders, LoginIsWhole
  <2>4. ASSUME NEW u \in ControlPlane, Deprovision(u) PROVE (Holders /\ LoginIsWhole)'
    BY <2>4, <1>s DEF Deprovision, daemon, tasks, Holders, LoginIsWhole
  <2> QED  BY ZenonT(60), <1>1, <2>1, <2>2, <2>3, <2>4 DEF ControlPlaneSteps
<1>2. ASSUME LoginSteps PROVE (Holders /\ LoginIsWhole)'
  <2>1. CASE LoginStart
    <3>1. login'.pc = "browser" /\ login'.srv = cfg
      BY <2>1 DEF LoginStart
    <3> QED  BY ZenonT(60), <2>1, <3>1 DEF LoginStart, daemon, Holders, LoginIsWhole
  <2>2. CASE LoginAbandoned
    <3>1. login'.pc = "idle" /\ login'.srv.secret = 0
      BY <2>2, <1>0 DEF LoginAbandoned, IdleLogin, Unset, LoginRecord
    <3> QED  BY <2>2, <3>1 DEF LoginAbandoned, daemon, tasks, cp, Holders, LoginIsWhole
  <2>3. CASE PollReads
    <3>1. login'.pc = "minting" /\ login'.srv = login.srv
      BY <2>3, <1>0 DEF PollReads, IdleLogin, Unset, LoginRecord
    <3> QED  BY <2>3, <3>1 DEF PollReads, daemon, tasks, cp, Holders, LoginIsWhole
  <2>4. CASE PollMints
    <3>1. PICK s \in Session :
            /\ home[s] = 0 /\ home' = [home EXCEPT ![s] = login.srv.url]
            /\ \/ /\ login'.pc = "polled" /\ login'.res = s /\ login'.srv = login.srv /\ told' = told
               \/ login' = IdleLogin /\ told' = told \cup {s}
      BY <2>4, MintFields
    <3>2. login.srv.url \in ControlPlane /\ 0 \notin ControlPlane /\ login.pc = "minting"
      BY ZenonT(60), <2>4 DEF PollMints, Locks
    <3>3. home'[s] = login.srv.url /\ home'[s] # 0 /\ \A x \in Session \ {s} : home'[x] = home[x]
      BY <1>0, <3>1, <3>2
    <3>4. /\ cfg' = cfg /\ command' = command /\ renewal' = renewal /\ ended' = ended /\ shut' = shut
      BY <2>4 DEF PollMints, daemon
    <3>5. told \subseteq told'
      BY <3>1
    <3>6. CASE login'.pc = "polled" /\ login'.res = s /\ login'.srv = login.srv
      BY <1>s, <3>1, <3>2, <3>3, <3>4, <3>5, <3>6 DEF Holders, LoginIsWhole
    <3>7. CASE login' = IdleLogin
      <4>1. login'.pc = "idle" /\ login'.srv.secret = 0
        BY <3>7 DEF IdleLogin, Unset
      <4> QED  BY <1>s, <3>1, <3>3, <3>4, <3>5, <4>1 DEF Holders, LoginIsWhole
    <3> QED  BY <3>1, <3>6, <3>7 DEF Holders, LoginIsWhole
  <2>5. CASE LoginSaves
    <3>1. /\ command.pc # "commit" /\ cfg.url = login.srv.url /\ login.pc = "polled"
          /\ login.srv.url # 0
      BY <2>5 DEF LoginSaves, Locks
    <3>2. /\ cfg'.url = cfg.url /\ cfg'.token = login.res /\ cfg'.secret = login.res
          /\ login'.pc = "saved" /\ login'.srv = login.srv
      BY <2>5, SaveFields
    <3> QED  BY <2>5, <3>1, <3>2 DEF LoginSaves, cp, Holders, LoginIsWhole
  <2>6. CASE LoginNotSaved
    <3>1. login'.pc = "idle" /\ login'.srv.secret = 0 /\ told \subseteq told'
      BY <2>6 DEF LoginNotSaved, IdleLogin, Unset
    <3> QED  BY <2>6, <3>1 DEF LoginNotSaved, daemon, cp, Holders, LoginIsWhole
  <2>7. CASE LoginReleases
    <3>1. \/ login'.pc = "idle" /\ login'.srv.secret = 0
          \/ login'.pc = "ending" /\ login'.srv = login.srv /\ login.srv.secret # 0
      BY <2>7, <1>0 DEF LoginReleases, IdleLogin, Unset, LoginRecord
    <3> QED  BY <2>7, <3>1 DEF LoginReleases, cp, Holders, LoginIsWhole
  <2>8. CASE LoginEndsReplaced
    <3>1. login'.pc = "idle" /\ login'.srv.secret = 0
      BY ZenonT(60), <2>8 DEF LoginEndsReplaced, IdleLogin, Unset
    <3>2. told \subseteq told' /\ ended \subseteq ended' /\ shut \subseteq shut'
      BY ZenonT(60), <2>8 DEF LoginEndsReplaced, EndOnServer, EndDaemon
    <3> QED  BY <2>8, <3>1, <3>2 DEF LoginEndsReplaced, daemon, Holders, LoginIsWhole
  <2> QED  BY ZenonT(60), <1>2, <2>1, <2>2, <2>3, <2>4, <2>5, <2>6, <2>7, <2>8 DEF LoginSteps
<1>3. ASSUME CommandSteps PROVE (Holders /\ LoginIsWhole)'
  <2>1. ASSUME NEW u \in ControlPlane, CreateServer(u) PROVE (Holders /\ LoginIsWhole)'
    <3>1. cfg'.secret = 0 /\ cfg'.token = 0
      BY <2>1 DEF CreateServer, Unset
    <3> QED  BY <2>1, <3>1 DEF CreateServer, tasks, cp, Holders, LoginIsWhole
  <2>2. ASSUME NEW op \in {"logout", "unset", "set"}, NEW u \in ControlPlane \cup {0},
               op = "set" => u \in ControlPlane, CommandStarts(op, u)
        PROVE  (Holders /\ LoginIsWhole)'
    <3>1. command'.pc = "end"
      BY <2>2 DEF CommandStarts, IdleCommand
    <3> QED  BY <2>2, <3>1 DEF CommandStarts, cp, Holders, LoginIsWhole
  <2>3. CASE CommandEnds
    <3>1. /\ told \subseteq told' /\ ended \subseteq ended' /\ shut \subseteq shut'
          /\ cfg.secret \in {0} \cup ended' \cup told'
      BY <2>3 DEF CommandEnds, EndOnServer, EndDaemon
    <3> QED  BY <2>3, <3>1 DEF CommandEnds, daemon, Holders, LoginIsWhole
  <2>4. CASE CommandCommits
    <3>1. cfg'.token = 0 /\ cfg'.secret = 0 /\ command'.pc = "forget"
      BY <2>4, CommitFields
    <3> QED  BY <2>4, <3>1 DEF CommandCommits, cp, Holders, LoginIsWhole
  <2>5. CASE CommandNotSaved
    <3>1. command'.pc = "idle"
      BY <2>5, <1>0 DEF CommandNotSaved, IdleCommand, CommandRecord
    <3> QED  BY ZenonT(60), <2>5, <3>1 DEF CommandNotSaved, daemon, cp, Holders, LoginIsWhole
  <2>6. CASE Forgets
    <3>1. command'.pc = "close"
      BY <2>6, <1>0 DEF Forgets, CommandRecord
    <3> QED  BY <2>6, <3>1 DEF Forgets, daemon, cp, Holders, LoginIsWhole
  <2>7. CASE ForgetCloses
    <3>1. command'.pc = "drop"
      BY <2>7, <1>0 DEF ForgetCloses, CommandRecord
    <3> QED  BY <2>7, <3>1 DEF ForgetCloses, daemon, cp, Holders, LoginIsWhole
  <2>8. CASE ForgetDrops
    <3>1. command'.pc = "idle"
      BY <2>8, <1>0 DEF ForgetDrops, IdleCommand, CommandRecord
    <3> QED  BY <2>8, <3>1 DEF ForgetDrops, daemon, cp, Holders, LoginIsWhole
  <2> QED  BY ZenonT(60), <1>3, <2>1, <2>2, <2>3, <2>4, <2>5, <2>6, <2>7, <2>8 DEF CommandSteps
<1>4. ASSUME RenewalSteps PROVE (Holders /\ LoginIsWhole)'
  <2>1. CASE RenewalAsks
    <3>1. renewal'.pc = "asked" /\ renewal'.srv = cfg /\ cfg.token # 0
      BY <2>1 DEF RenewalAsks, IdleRenewal, LoggedIn
    <3>2. 0 \notin ControlPlane
      OBVIOUS
    <3> QED  BY <2>1, <3>1, <3>2 DEF RenewalAsks, daemon, cp, Holders, LoginIsWhole
  <2>2. CASE RenewalReads
    <3>1. renewal'.pc = "read" /\ renewal'.srv = renewal.srv
      BY <2>2, <1>0 DEF RenewalReads, RenewalRecord
    <3> QED  BY <2>2, <3>1 DEF RenewalReads, daemon, cp, Holders, LoginIsWhole
  <2>3. CASE Renew
    <3>1. /\ renewal'.srv = renewal.srv
          /\ \/ renewal'.pc = "issued"
             \/ renewal'.pc = "refused" /\ ~Renewable(renewal.srv.secret)
      BY <2>3, <1>0 DEF Renew, RenewalRecord
    <3>2. ~Renewable(renewal.srv.secret) => renewal.srv.secret \in shut
      BY <2>3, <1>s DEF Renew, Renewable, Ledger, Holders
    <3> QED  BY <2>3, <3>1, <3>2 DEF Renew, daemon, Holders, LoginIsWhole
  <2>4. CASE RenewalLost
    <3>1. renewal'.pc = "idle"
      BY <2>4 DEF RenewalLost, IdleRenewal
    <3> QED  BY ZenonT(60), <2>4, <3>1 DEF RenewalLost, daemon, cp, Holders, LoginIsWhole
  <2>5. CASE RenewalSaves
    <3>1. renewal'.pc = "idle"
      BY <2>5 DEF RenewalSaves, IdleRenewal
    <3>2. cfg'.url = cfg.url /\ cfg'.secret = cfg.secret /\ cfg'.token = cfg.token
      BY <2>5, RenewalFields DEF SameSession, LoginIsWhole
    <3> QED  BY <2>5, <3>1, <3>2 DEF RenewalSaves, cp, Holders, LoginIsWhole
  <2>6. CASE RenewalRefused
    <3>1. renewal'.pc = "idle"
      BY ZenonT(60), <2>6 DEF RenewalRefused, IdleRenewal
    <3> QED  BY <2>6, <3>1 DEF RenewalRefused, daemon, cp, Holders, LoginIsWhole
  <2> QED  BY ZenonT(60), <1>4, <2>1, <2>2, <2>3, <2>4, <2>5, <2>6 DEF RenewalSteps
<1>5. ASSUME DiscoverySteps PROVE (Holders /\ LoginIsWhole)'
  BY ZenonT(60), <1>5, DiscoveryFrame DEF daemon, cp, Holders, LoginIsWhole
<1>6. ASSUME BrokerSteps PROVE (Holders /\ LoginIsWhole)'
  BY <1>6, BrokerFrame DEF daemon, tasks, cp, Holders, LoginIsWhole
<1>7. CASE Restart
  <2>1. /\ login'.pc = "idle" /\ login'.srv.secret = 0 /\ renewal'.pc = "idle"
        /\ command'.pc = "idle"
    BY <1>7 DEF Restart, IdleLogin, IdleRenewal, IdleCommand, Unset
  <2> QED  BY <1>7, <2>1 DEF Restart, Holders, LoginIsWhole
<1>8. CASE UNCHANGED vars
  BY ZenonT(60), <1>8 DEF vars, daemon, tasks, brokering, cp, Holders, LoginIsWhole
<1> QED  BY ZenonT(60), <1>1, <1>2, <1>3, <1>4, <1>5, <1>6, <1>7, <1>8 DEF Next

\* Every step accounts for the sessions it lets go of.
LEMMA AccountedStep ==
  TypeOK /\ Locks /\ Holders /\ SessionsAccounted /\ [Next]_vars => SessionsAccounted'
<1> SUFFICES ASSUME TypeOK, Locks, Holders, SessionsAccounted, [Next]_vars
             PROVE  SessionsAccounted'
  OBVIOUS
<1>0. /\ login \in LoginRecord /\ home \in [Session -> ControlPlane \cup {0}]
  BY DEF TypeOK
<1>1. ASSUME ControlPlaneSteps PROVE SessionsAccounted'
  <2>1. home' = home /\ ended \subseteq ended'
    BY <1>1 DEF ControlPlaneSteps, Approve, EndByConsent, EndDaemon, WindowCloses, Deprovision
  <2>2. Unsettled' = Unsettled
    BY <1>1, ControlPlaneFrame DEF Unsettled, tasks
  <2> QED  BY <1>1, <2>1, <2>2, ControlPlaneFrame DEF daemon, SessionsAccounted
<1>2. ASSUME LoginSteps PROVE SessionsAccounted'
  <2>1. CASE LoginStart
    <3>1. Unsettled = {} /\ Unsettled' = {}
      BY <2>1 DEF LoginStart, Unsettled
    <3> QED  BY <2>1, <3>1 DEF LoginStart, daemon, SessionsAccounted
  <2>2. CASE LoginAbandoned
    <3>1. Unsettled = {}
      BY <2>2 DEF LoginAbandoned, Unsettled
    <3> QED  BY <2>2, <3>1 DEF LoginAbandoned, daemon, SessionsAccounted
  <2>3. CASE PollReads
    <3>1. Unsettled = {}
      BY <2>3 DEF PollReads, Unsettled
    <3> QED  BY <2>3, <3>1 DEF PollReads, daemon, cp, SessionsAccounted
  <2>4. CASE PollMints
    <3>1. PICK s \in Session :
            /\ home' = [home EXCEPT ![s] = login.srv.url]
            /\ \/ login'.pc = "polled" /\ login'.res = s /\ told' = told
               \/ told' = told \cup {s}
      BY <2>4, MintFields
    <3>2. Unsettled = {} /\ s \in Unsettled' \cup told' /\ told \subseteq told'
      BY <2>4, <3>1 DEF PollMints, Unsettled
    <3>3. \A x \in Session \ {s} : home'[x] = home[x]
      BY <1>0, <3>1
    <3> QED  BY <2>4, <3>2, <3>3 DEF PollMints, daemon, SessionsAccounted
  <2>5. CASE LoginSaves
    <3>1. /\ cfg'.secret = login.res /\ login'.pc = "saved" /\ login'.srv = login.srv
      BY <2>5, SaveFields
    <3>2. Unsettled = {login.res} /\ Unsettled' = {login.srv.secret} \ {0} /\ cfg.secret \in {0, login.srv.secret}
      BY <2>5, <3>1 DEF LoginSaves, Unsettled, Holders
    <3> QED  BY <2>5, <3>1, <3>2 DEF LoginSaves, cp, SessionsAccounted
  <2>6. CASE LoginNotSaved
    <3>1. Unsettled = {login.res}
      BY <2>6 DEF LoginNotSaved, Unsettled
    <3> QED  BY <2>6, <3>1 DEF LoginNotSaved, daemon, cp, SessionsAccounted
  <2>7. CASE LoginReleases
    <3>1. Unsettled = {login.srv.secret} \ {0}
      BY <2>7 DEF LoginReleases, Unsettled
    <3>2. CASE login.srv.secret = 0
      BY <2>7, <3>1, <3>2 DEF LoginReleases, cp, SessionsAccounted
    <3>3. CASE login.srv.secret # 0
      <4>1. login'.pc = "ending" /\ login'.srv = login.srv
        BY <2>7, <3>3, <1>0 DEF LoginReleases, LoginRecord
      <4>2. Unsettled' = Unsettled
        BY <3>1, <4>1 DEF Unsettled
      <4> QED  BY <2>7, <4>2 DEF LoginReleases, cp, SessionsAccounted
    <3> QED  BY <3>2, <3>3 DEF SessionsAccounted
  <2>8. CASE LoginEndsReplaced
    <3>1. Unsettled = {login.srv.secret} \ {0}
      BY <2>8 DEF LoginEndsReplaced, Unsettled
    <3>2. /\ ended \subseteq ended' /\ told \subseteq told' /\ login.srv.secret \in ended' \cup told'
      BY <2>8 DEF LoginEndsReplaced, EndOnServer, EndDaemon
    <3> QED  BY <2>8, <3>1, <3>2 DEF LoginEndsReplaced, daemon, SessionsAccounted
  <2> QED  BY <1>2, <2>1, <2>2, <2>3, <2>4, <2>5, <2>6, <2>7, <2>8 DEF LoginSteps
<1>3. ASSUME CommandSteps PROVE SessionsAccounted'
  <2>1. ASSUME NEW u \in ControlPlane, CreateServer(u) PROVE SessionsAccounted'
    <3>1. cfg.secret = 0 /\ Unsettled' = Unsettled
      BY <2>1 DEF CreateServer, Locks, Unset, Unsettled, tasks
    <3> QED  BY <2>1, <3>1 DEF CreateServer, cp, SessionsAccounted
  <2>2. ASSUME NEW op \in {"logout", "unset", "set"}, NEW u \in ControlPlane \cup {0},
               op = "set" => u \in ControlPlane, CommandStarts(op, u)
        PROVE  SessionsAccounted'
    <3>1. Unsettled' = Unsettled
      BY <2>2 DEF CommandStarts, Unsettled
    <3> QED  BY <2>2, <3>1 DEF CommandStarts, daemon, cp, SessionsAccounted
  <2>3. CASE CommandEnds
    <3>1. Unsettled' = Unsettled
      BY <2>3 DEF CommandEnds, Unsettled
    <3>2. ended \subseteq ended' /\ told \subseteq told'
      BY <2>3 DEF CommandEnds, EndOnServer, EndDaemon
    <3> QED  BY <2>3, <3>1, <3>2 DEF CommandEnds, daemon, SessionsAccounted
  <2>4. CASE CommandCommits
    <3>1. Unsettled' = Unsettled /\ cfg.secret \in {0} \cup ended \cup told
      BY <2>4 DEF CommandCommits, Unsettled, Holders
    <3> QED  BY <2>4, <3>1 DEF CommandCommits, cp, SessionsAccounted
  <2>5. CASE CommandNotSaved
    <3>1. Unsettled' = Unsettled
      BY <2>5 DEF CommandNotSaved, Unsettled
    <3> QED  BY <2>5, <3>1 DEF CommandNotSaved, daemon, cp, SessionsAccounted
  <2>6. CASE Forgets
    <3>1. Unsettled' = Unsettled
      BY <2>6 DEF Forgets, Unsettled
    <3> QED  BY <2>6, <3>1 DEF Forgets, daemon, cp, SessionsAccounted
  <2>7. CASE ForgetCloses
    <3>1. Unsettled' = Unsettled
      BY <2>7 DEF ForgetCloses, Unsettled
    <3> QED  BY <2>7, <3>1 DEF ForgetCloses, daemon, cp, SessionsAccounted
  <2>8. CASE ForgetDrops
    <3>1. Unsettled' = Unsettled
      BY <2>8 DEF ForgetDrops, Unsettled
    <3> QED  BY <2>8, <3>1 DEF ForgetDrops, daemon, cp, SessionsAccounted
  <2> QED  BY <1>3, <2>1, <2>2, <2>3, <2>4, <2>5, <2>6, <2>7, <2>8 DEF CommandSteps
<1>4. ASSUME RenewalSteps PROVE SessionsAccounted'
  <2>1. cfg'.secret = cfg.secret
    BY <1>4, RenewalFields DEF RenewalSteps, RenewalAsks, RenewalReads, Renew, RenewalLost,
       RenewalRefused, daemon
  <2>2. Unsettled' = Unsettled
    BY <1>4, RenewalFrame DEF Unsettled
  <2> QED  BY <1>4, <2>1, <2>2, RenewalFrame DEF SessionsAccounted
<1>5. ASSUME DiscoverySteps PROVE SessionsAccounted'
  BY <1>5, DiscoveryFrame DEF daemon, cp, Unsettled, SessionsAccounted
<1>6. ASSUME BrokerSteps PROVE SessionsAccounted'
  BY <1>6, BrokerFrame DEF daemon, tasks, cp, Unsettled, SessionsAccounted
<1>7. CASE Restart
  BY <1>7 DEF Restart, SessionsAccounted
<1>8. CASE UNCHANGED vars
  BY <1>8 DEF Unsettled, vars, daemon, tasks, brokering, cp, SessionsAccounted
<1> QED  BY <1>1, <1>2, <1>3, <1>4, <1>5, <1>6, <1>7, <1>8 DEF Next

\* Every step keeps a refusal about the saved session.
LEMMA RefusedStep ==
  TypeOK /\ Locks /\ Holders /\ RefusedIsCurrent /\ [Next]_vars => RefusedIsCurrent'
<1> SUFFICES ASSUME TypeOK, Locks, Holders, RefusedIsCurrent, [Next]_vars
             PROVE  RefusedIsCurrent'
  OBVIOUS
<1>0. login \in LoginRecord /\ command \in CommandRecord
  BY DEF TypeOK
<1>1. ASSUME ControlPlaneSteps PROVE RefusedIsCurrent'
  <2>1. shut \subseteq shut'
    BY <1>1 DEF ControlPlaneSteps, Approve, EndByConsent, EndDaemon, WindowCloses, Deprovision
  <2> QED  BY ZenonT(60), <1>1, <2>1, ControlPlaneFrame DEF daemon, tasks, LoggedIn,
              RefusedIsCurrent
<1>2. ASSUME LoginSteps PROVE RefusedIsCurrent'
  <2>1. CASE LoginStart
    <3>1. login.pc # "saved"
      BY <2>1 DEF LoginStart
    <3> QED  BY <2>1, <3>1 DEF LoginStart, daemon, cp, LoggedIn, RefusedIsCurrent
  <2>2. CASE LoginAbandoned
    <3>1. login.pc # "saved"
      BY <2>2 DEF LoginAbandoned
    <3> QED  BY <2>2, <3>1 DEF LoginAbandoned, daemon, cp, LoggedIn, RefusedIsCurrent
  <2>3. CASE PollReads
    <3>1. login.pc # "saved"
      BY <2>3 DEF PollReads
    <3> QED  BY <2>3, <3>1 DEF PollReads, daemon, cp, LoggedIn, RefusedIsCurrent
  <2>4. CASE PollMints
    <3>1. login.pc # "saved"
      BY <2>4 DEF PollMints
    <3> QED  BY <2>4, <3>1 DEF PollMints, daemon, cp, LoggedIn, RefusedIsCurrent
  <2>5. CASE LoginSaves
    BY <2>5, SaveFields DEF LoggedIn, RefusedIsCurrent
  <2>6. CASE LoginNotSaved
    <3>1. login.pc # "saved"
      BY <2>6 DEF LoginNotSaved
    <3> QED  BY <2>6, <3>1 DEF LoginNotSaved, daemon, cp, LoggedIn, RefusedIsCurrent
  <2>7. CASE LoginReleases
    BY <2>7 DEF LoginReleases, LoggedIn, RefusedIsCurrent
  <2>8. CASE LoginEndsReplaced
    <3>1. login.pc # "saved" /\ shut \subseteq shut'
      BY <2>8 DEF LoginEndsReplaced, EndOnServer, EndDaemon
    <3> QED  BY <2>8, <3>1 DEF LoginEndsReplaced, daemon, LoggedIn, RefusedIsCurrent
  <2> QED  BY <1>2, <2>1, <2>2, <2>3, <2>4, <2>5, <2>6, <2>7, <2>8 DEF LoginSteps
<1>3. ASSUME CommandSteps PROVE RefusedIsCurrent'
  <2>1. ASSUME NEW u \in ControlPlane, CreateServer(u) PROVE RefusedIsCurrent'
    <3>1. ~reauth
      BY <2>1 DEF CreateServer, Locks, Unset, RefusedIsCurrent, LoggedIn
    <3> QED  BY <2>1, <3>1 DEF CreateServer, LoggedIn, RefusedIsCurrent
  <2>2. ASSUME NEW op \in {"logout", "unset", "set"}, NEW u \in ControlPlane \cup {0},
               op = "set" => u \in ControlPlane, CommandStarts(op, u)
        PROVE  RefusedIsCurrent'
    <3>1. command.pc # "forget"
      BY <2>2 DEF CommandStarts, Locks
    <3> QED  BY <2>2, <3>1 DEF CommandStarts, cp, LoggedIn, RefusedIsCurrent
  <2>3. CASE CommandEnds
    <3>1. command.pc # "forget" /\ shut \subseteq shut'
      BY <2>3 DEF CommandEnds, EndOnServer, EndDaemon
    <3> QED  BY <2>3, <3>1 DEF CommandEnds, daemon, LoggedIn, RefusedIsCurrent
  <2>4. CASE CommandCommits
    BY <2>4, CommitFields DEF LoggedIn, RefusedIsCurrent
  <2>5. CASE CommandNotSaved
    <3>1. command.pc # "forget"
      BY <2>5 DEF CommandNotSaved
    <3> QED  BY <2>5, <3>1 DEF CommandNotSaved, daemon, cp, LoggedIn, RefusedIsCurrent
  <2>6. CASE Forgets
    BY <2>6 DEF Forgets, LoggedIn, RefusedIsCurrent
  <2>7. CASE ForgetCloses
    <3>1. command.pc # "forget"
      BY <2>7 DEF ForgetCloses
    <3> QED  BY <2>7, <3>1 DEF ForgetCloses, daemon, cp, LoggedIn, RefusedIsCurrent
  <2>8. CASE ForgetDrops
    <3>1. command.pc # "forget"
      BY <2>8 DEF ForgetDrops
    <3> QED  BY <2>8, <3>1 DEF ForgetDrops, daemon, cp, LoggedIn, RefusedIsCurrent
  <2> QED  BY <1>3, <2>1, <2>2, <2>3, <2>4, <2>5, <2>6, <2>7, <2>8 DEF CommandSteps
<1>4. ASSUME RenewalSteps PROVE RefusedIsCurrent'
  <2>1. CASE RenewalAsks
    BY <2>1 DEF RenewalAsks, daemon, cp, LoggedIn, RefusedIsCurrent
  <2>2. CASE RenewalReads
    BY <2>2 DEF RenewalReads, daemon, cp, LoggedIn, RefusedIsCurrent
  <2>3. CASE Renew
    BY <2>3 DEF Renew, daemon, LoggedIn, RefusedIsCurrent
  <2>4. CASE RenewalLost
    BY <2>4 DEF RenewalLost, daemon, cp, LoggedIn, RefusedIsCurrent
  <2>5. CASE RenewalSaves
    <3>1. cfg'.secret = cfg.secret /\ (cfg.token # 0 => cfg'.token # 0)
      BY <2>5, RenewalFields DEF RenewalSaves, Holders
    <3> QED  BY <2>5, <3>1 DEF RenewalSaves, cp, LoggedIn, RefusedIsCurrent
  <2>6. CASE RenewalRefused
    <3>1. SameSession(renewal.srv, cfg) => cfg.token # 0 /\ cfg.secret \in shut
      BY <2>6 DEF RenewalRefused, SameSession, Holders, LoggedIn
    <3> QED  BY ZenonT(60), <2>6, <3>1 DEF RenewalRefused, cp, LoggedIn, RefusedIsCurrent
  <2> QED  BY <1>4, <2>1, <2>2, <2>3, <2>4, <2>5, <2>6 DEF RenewalSteps
<1>5. ASSUME DiscoverySteps PROVE RefusedIsCurrent'
  <2>1. UNCHANGED <<cfg, reauth, shut, login, command>>
    BY <1>5, DiscoveryFrame DEF daemon, cp
  <2> QED  BY <2>1 DEF LoggedIn, RefusedIsCurrent
<1>6. ASSUME BrokerSteps PROVE RefusedIsCurrent'
  <2>1. UNCHANGED <<cfg, reauth, shut, login, command>>
    BY <1>6, BrokerFrame DEF daemon, tasks, cp
  <2> QED  BY <2>1 DEF LoggedIn, RefusedIsCurrent
<1>7. CASE Restart
  BY <1>7 DEF Restart, LoggedIn, RefusedIsCurrent
<1>8. CASE UNCHANGED vars
  BY <1>8 DEF vars, daemon, tasks, brokering, cp, LoggedIn, RefusedIsCurrent
<1> QED  BY <1>1, <1>2, <1>3, <1>4, <1>5, <1>6, <1>7, <1>8 DEF Next

-----------------------------------------------------------------------------
\* The broker and its connections.

\* A discovery answer takes the broker down, asks for a new one, or leaves it.
LEMMA AppliesFields ==
  ASSUME TypeOK, NEW connectable \in BOOLEAN, NEW moved \in BOOLEAN, Passes,
         DiscoveryApplies(connectable, moved)
  PROVE  \/ reg' = Nobody /\ discovery'.pc = "close" /\ discovery'.ln = reg
         \/ /\ UNCHANGED <<reg, broker>> /\ discovery'.ln = Nobody
            /\ discovery'.pc = "idle" \/ (discovery'.pc = "bind" /\ reg = Nobody)
<1>1. discovery \in DiscoveryRecord /\ discovery.pc = "net" /\ discovery.ln = Nobody
  BY DEF TypeOK, DiscoveryApplies, Passes
<1>2. IdleDiscovery.pc = "idle" /\ IdleDiscovery.ln = Nobody
  BY DEF IdleDiscovery
<1>3. [discovery EXCEPT !.pc = "bind"].pc = "bind" /\ [discovery EXCEPT !.pc = "bind"].ln = Nobody
  BY <1>1 DEF DiscoveryRecord
<1>4. \A b \in BOOLEAN : /\ [discovery EXCEPT !.pc = "close", !.ln = reg, !.bind = b].pc = "close"
                         /\ [discovery EXCEPT !.pc = "close", !.ln = reg, !.bind = b].ln = reg
  BY <1>1 DEF DiscoveryRecord
<1> DEFINE stale == reg # Nobody /\ (~connectable \/ moved)
           bind == connectable /\ (stale \/ reg = Nobody)
<1>5. CASE SameSession(discovery.srv, cfg) /\ stale
  BY ZenonT(60), <1>4, <1>5 DEF DiscoveryApplies, Unregister
<1>6. CASE SameSession(discovery.srv, cfg) /\ ~stale
  <2>1. UNCHANGED <<reg, broker>> /\ discovery' = IF bind THEN [discovery EXCEPT !.pc = "bind"] ELSE IdleDiscovery
    BY <1>6 DEF DiscoveryApplies
  <2> QED  BY <1>2, <1>3, <1>6, <2>1
<1>7. CASE ~SameSession(discovery.srv, cfg)
  BY <1>2, <1>7 DEF DiscoveryApplies
<1> QED  BY <1>5, <1>6, <1>7

\* Every step keeps the broker's bookkeeping, and the broker the logged-in server's.
LEMMA BrokersStep ==
  TypeOK /\ Locks /\ Holders /\ Passes /\ BrokersLoggedIn /\ [Next]_vars => (Passes /\ BrokersLoggedIn)'
<1> SUFFICES ASSUME TypeOK, Locks, Holders, Passes, BrokersLoggedIn, [Next]_vars
             PROVE  (Passes /\ BrokersLoggedIn)'
  OBVIOUS
<1>0. /\ discovery \in DiscoveryRecord /\ command \in CommandRecord
      /\ cfg \in Server /\ conn \in [Conn -> ConnRecord] /\ reg \in Listener \cup {Nobody}
  BY DEF TypeOK
<1>1. ASSUME ControlPlaneSteps PROVE (Passes /\ BrokersLoggedIn)'
  BY ZenonT(60), <1>1, ControlPlaneFrame DEF daemon, tasks, brokering, Passes, BrokersLoggedIn,
     LoggedIn
<1>2. ASSUME LoginSteps PROVE (Passes /\ BrokersLoggedIn)'
  <2>1. CASE LoginSaves
    <3>1. cfg'.id = cfg.id /\ cfg'.url = cfg.url /\ cfg'.token # 0
      BY <2>1, SaveFields DEF LoginSaves, Holders
    <3> QED  BY ZenonT(60), <1>2, <3>1, LoginFrame DEF brokering, Passes, BrokersLoggedIn, LoggedIn
  <2>2. CASE ~LoginSaves
    <3>1. cfg' = cfg
      BY <1>2, <2>2 DEF LoginSteps, daemon, LoginStart, LoginAbandoned, PollReads, PollMints,
                        LoginNotSaved, LoginReleases, LoginEndsReplaced
    <3> QED  BY ZenonT(60), <1>2, <3>1, LoginFrame DEF brokering, Passes, BrokersLoggedIn, LoggedIn
  <2> QED  BY <2>1, <2>2 DEF Passes, BrokersLoggedIn, LoggedIn
<1>3. ASSUME CommandSteps PROVE (Passes /\ BrokersLoggedIn)'
  <2>1. ASSUME NEW u \in ControlPlane, CreateServer(u) PROVE (Passes /\ BrokersLoggedIn)'
    <3>1. reg = Nobody
      BY <2>1 DEF CreateServer, Locks, Unset, BrokersLoggedIn, LoggedIn
    <3> QED  BY <2>1, <3>1 DEF CreateServer, tasks, brokering, Passes, BrokersLoggedIn, LoggedIn
  <2>2. ASSUME NEW op \in {"logout", "unset", "set"}, NEW u \in ControlPlane \cup {0},
               op = "set" => u \in ControlPlane, CommandStarts(op, u)
        PROVE  (Passes /\ BrokersLoggedIn)'
    <3>1. command.pc # "forget"
      BY <2>2 DEF CommandStarts, Locks
    <3> QED  BY <2>2, <3>1 DEF CommandStarts, brokering, Passes, BrokersLoggedIn, LoggedIn
  <2>3. CASE CommandEnds
    <3>1. command.pc # "forget"
      BY <2>3 DEF CommandEnds
    <3> QED  BY <2>3, <3>1 DEF CommandEnds, daemon, brokering, Passes, BrokersLoggedIn, LoggedIn
  <2>4. CASE CommandCommits
    <3>1. command'.pc = "forget"
      BY <2>4, CommitFields
    <3> QED  BY <2>4, <3>1 DEF CommandCommits, brokering, Passes, BrokersLoggedIn, LoggedIn
  <2>5. CASE CommandNotSaved
    <3>1. command.pc # "forget"
      BY <2>5 DEF CommandNotSaved
    <3> QED  BY ZenonT(60), <2>5, <3>1 DEF CommandNotSaved, daemon, brokering, Passes,
                BrokersLoggedIn, LoggedIn
  <2>6. CASE Forgets
    BY <2>6 DEF Forgets, Unregister, Passes, BrokersLoggedIn, LoggedIn
  <2>7. CASE ForgetCloses
    <3>1. command.pc # "forget"
      BY <2>7 DEF ForgetCloses
    <3> QED  BY <2>7, <3>1 DEF ForgetCloses, daemon, Passes, BrokersLoggedIn, LoggedIn
  <2>8. CASE ForgetDrops
    <3>1. command.pc # "forget"
      BY <2>8 DEF ForgetDrops
    <3>2. \A c \in Conn : conn'[c] = conn[c] \/ conn'[c].st = "closed"
      BY <2>8 DEF ForgetDrops, CloseConns, Closed
    <3> QED  BY <2>8, <3>1, <3>2 DEF ForgetDrops, daemon, Passes, BrokersLoggedIn, LoggedIn
  <2> QED  BY ZenonT(60), <1>3, <2>1, <2>2, <2>3, <2>4, <2>5, <2>6, <2>7, <2>8 DEF CommandSteps
<1>4. ASSUME RenewalSteps PROVE (Passes /\ BrokersLoggedIn)'
  <2>1. CASE RenewalSaves
    <3>1. cfg' = cfg \/ (cfg'.id = cfg.id /\ cfg'.url = cfg.url /\ cfg'.token # 0)
      BY <2>1, RenewalFields DEF RenewalSaves, Holders
    <3> QED  BY <1>4, <3>1, RenewalFrame DEF brokering, Passes, BrokersLoggedIn, LoggedIn
  <2>2. CASE ~RenewalSaves
    <3>1. cfg' = cfg
      BY <1>4, <2>2 DEF RenewalSteps, daemon, RenewalAsks, RenewalReads, Renew, RenewalLost,
         RenewalRefused
    <3> QED  BY <1>4, <3>1, RenewalFrame DEF brokering, Passes, BrokersLoggedIn, LoggedIn
  <2> QED  BY <2>1, <2>2 DEF Passes, BrokersLoggedIn, LoggedIn
<1>5. ASSUME DiscoverySteps PROVE (Passes /\ BrokersLoggedIn)'
  <2>1. CASE DiscoveryStarts
    <3>1. discovery'.pc = "net" /\ discovery'.ln = Nobody
      BY <2>1 DEF DiscoveryStarts, IdleDiscovery
    <3> QED  BY <2>1, <3>1 DEF DiscoveryStarts, daemon, brokering, Passes, BrokersLoggedIn, LoggedIn
  <2>2. CASE DiscoveryFails
    <3>1. discovery'.pc = "idle" /\ discovery'.ln = Nobody
      BY <2>2 DEF DiscoveryFails, IdleDiscovery
    <3> QED  BY ZenonT(60), <2>2, <3>1 DEF DiscoveryFails, daemon, brokering, Passes,
                BrokersLoggedIn, LoggedIn
  <2>3. CASE DiscoveryCloses
    <3>1. discovery'.pc = "drop" /\ discovery'.ln = Nobody /\ reg = Nobody
      BY <2>3, <1>0 DEF DiscoveryCloses, DiscoveryRecord, Passes
    <3> QED  BY <2>3, <3>1 DEF DiscoveryCloses, daemon, Passes, BrokersLoggedIn, LoggedIn
  <2>4. CASE DiscoveryDrops
    <3>1. discovery'.pc \in {"bind", "idle"} /\ discovery'.ln = Nobody /\ reg = Nobody
      BY <2>4, <1>0 DEF DiscoveryDrops, IdleDiscovery, DiscoveryRecord, Passes
    <3>2. \A c \in Conn : conn'[c].st = "closed"
      BY <2>4 DEF DiscoveryDrops, CloseConns, Closed
    <3> QED  BY <2>4, <3>1, <3>2 DEF DiscoveryDrops, daemon, Passes, BrokersLoggedIn, LoggedIn
  <2>5. CASE ServeEnds
    <3>1. discovery'.pc = "drop" /\ discovery'.ln = Nobody /\ reg' = Nobody
      BY <2>5 DEF ServeEnds, IdleDiscovery, Unregister
    <3> QED  BY <2>5, <3>1 DEF ServeEnds, daemon, Passes, BrokersLoggedIn, LoggedIn
  <2>6. ASSUME NEW connectable \in BOOLEAN, NEW moved \in BOOLEAN,
               DiscoveryApplies(connectable, moved)
        PROVE  (Passes /\ BrokersLoggedIn)'
    <3>1. \/ reg' = Nobody /\ discovery'.pc = "close"
          \/ /\ UNCHANGED <<reg, broker>> /\ discovery'.ln = Nobody
             /\ discovery'.pc = "idle" \/ (discovery'.pc = "bind" /\ reg = Nobody)
      BY AppliesFields, <2>6
    <3> QED  BY <2>6, <3>1 DEF DiscoveryApplies, daemon, Passes, BrokersLoggedIn, LoggedIn
  <2>7. ASSUME NEW l \in Listener, DiscoveryBinds(l) PROVE (Passes /\ BrokersLoggedIn)'
    <3>1. discovery'.pc = "idle" /\ discovery'.ln = Nobody
      BY <2>7 DEF DiscoveryBinds, IdleDiscovery
    <3>2. CASE SameSession(discovery.srv, cfg)
      <4>1. broker' = ClearLogin(discovery.srv)
        BY ZenonT(60), <2>7, <3>2 DEF DiscoveryBinds, Register
      <4>2. broker'.id = discovery.srv.id /\ broker'.url = discovery.srv.url
        BY <4>1, <1>0 DEF ClearLogin, DiscoveryRecord, Server
      <4> QED  BY ZenonT(60), <2>7, <3>1, <3>2, <4>2 DEF DiscoveryBinds, SameSession, daemon,
                  Passes, BrokersLoggedIn, LoggedIn
    <3>3. CASE ~SameSession(discovery.srv, cfg)
      BY ZenonT(60), <2>7, <3>1, <3>3 DEF DiscoveryBinds, daemon, Passes, BrokersLoggedIn, LoggedIn
    <3> QED  BY <3>2, <3>3 DEF Passes, BrokersLoggedIn, LoggedIn
  <2> QED  BY ZenonT(60), <1>5, <2>1, <2>2, <2>3, <2>4, <2>5, <2>6, <2>7 DEF DiscoverySteps
<1>6. ASSUME BrokerSteps PROVE (Passes /\ BrokersLoggedIn)'
  <2>1. CASE ServeFails
    BY ZenonT(60), <2>1 DEF ServeFails, daemon, tasks, Passes, BrokersLoggedIn, LoggedIn
  <2>2. ASSUME NEW c \in Conn, Resolve(c) PROVE (Passes /\ BrokersLoggedIn)'
    <3>1. \A x \in Conn : conn'[x].st # "closed" => conn[x].st # "closed" /\ conn'[x].via = conn[x].via
      BY <2>2, <1>0 DEF Resolve, Closed, ConnRecord
    <3> QED  BY <2>2, <3>1 DEF Resolve, daemon, tasks, Passes, BrokersLoggedIn, LoggedIn
  <2>3. ASSUME NEW c \in Conn, Disconnect(c) PROVE (Passes /\ BrokersLoggedIn)'
    <3>1. \A x \in Conn : conn'[x].st # "closed" => conn[x].st # "closed" /\ conn'[x].via = conn[x].via
      BY <2>3, <1>0 DEF Disconnect, Closed, ConnRecord
    <3> QED  BY <2>3, <3>1 DEF Disconnect, daemon, tasks, Passes, BrokersLoggedIn, LoggedIn
  <2>4. ASSUME NEW c \in Conn, NEW l \in Listener, Accept(c, l) PROVE (Passes /\ BrokersLoggedIn)'
    <3>1. \A x \in Conn : conn'[x] = conn[x] \/ conn'[x].via = l
      BY <2>4, <1>0 DEF Accept, ConnRecord
    <3> QED  BY <2>4, <3>1 DEF Accept, daemon, tasks, Passes, BrokersLoggedIn, LoggedIn
  <2> QED  BY ZenonT(60), <1>6, <2>1, <2>2, <2>3, <2>4 DEF BrokerSteps
<1>7. CASE Restart
  <2>1. discovery'.pc = "idle" /\ discovery'.ln = Nobody /\ \A c \in Conn : conn'[c].st = "closed"
    BY <1>7 DEF Restart, IdleDiscovery, CloseConns, Closed
  <2> QED  BY ZenonT(60), <1>7, <2>1 DEF Restart, Passes, BrokersLoggedIn, LoggedIn
<1>8. CASE UNCHANGED vars
  BY ZenonT(60), <1>8 DEF vars, daemon, tasks, brokering, cp, Passes, BrokersLoggedIn, LoggedIn
<1> QED  BY ZenonT(60), <1>1, <1>2, <1>3, <1>4, <1>5, <1>6, <1>7, <1>8 DEF Next

\* Every step takes down what its broker carried.
LEMMA OutlivesStep ==
  TypeOK /\ Locks /\ Passes /\ NothingOutlivesItsBroker /\ [Next]_vars => NothingOutlivesItsBroker'
<1> SUFFICES ASSUME TypeOK, Locks, Passes, NothingOutlivesItsBroker, [Next]_vars
             PROVE  NothingOutlivesItsBroker'
  OBVIOUS
<1>0. /\ discovery \in DiscoveryRecord /\ command \in CommandRecord
      /\ conn \in [Conn -> ConnRecord] /\ reg \in Listener \cup {Nobody} /\ bound \subseteq Listener
  BY DEF TypeOK
<1>1. ASSUME ControlPlaneSteps PROVE NothingOutlivesItsBroker'
  BY ZenonT(60), <1>1, ControlPlaneFrame DEF tasks, brokering, NothingOutlivesItsBroker
<1>2. ASSUME LoginSteps PROVE NothingOutlivesItsBroker'
  BY ZenonT(60), <1>2, LoginFrame DEF brokering, NothingOutlivesItsBroker
<1>3. ASSUME CommandSteps PROVE NothingOutlivesItsBroker'
  <2>1. ASSUME NEW u \in ControlPlane, CreateServer(u) PROVE NothingOutlivesItsBroker'
    BY <2>1 DEF CreateServer, tasks, brokering, NothingOutlivesItsBroker
  <2>2. ASSUME NEW op \in {"logout", "unset", "set"}, NEW u \in ControlPlane \cup {0},
               op = "set" => u \in ControlPlane, CommandStarts(op, u)
        PROVE  NothingOutlivesItsBroker'
    <3>1. command.pc = "idle"
      BY <2>2 DEF CommandStarts, Locks
    <3> QED  BY <2>2, <3>1 DEF CommandStarts, brokering, NothingOutlivesItsBroker
  <2>3. CASE CommandEnds
    <3>1. command.pc \notin {"close", "drop"}
      BY <2>3 DEF CommandEnds
    <3> QED  BY <2>3, <3>1 DEF CommandEnds, brokering, NothingOutlivesItsBroker
  <2>4. CASE CommandCommits
    <3>1. command.pc \notin {"close", "drop"}
      BY <2>4 DEF CommandCommits
    <3> QED  BY <2>4, <3>1 DEF CommandCommits, brokering, NothingOutlivesItsBroker
  <2>5. CASE CommandNotSaved
    <3>1. command.pc \notin {"close", "drop"}
      BY <2>5 DEF CommandNotSaved
    <3> QED  BY <2>5, <3>1 DEF CommandNotSaved, brokering, NothingOutlivesItsBroker
  <2>6. CASE Forgets
    <3>1. /\ command'.pc = "close" /\ command'.ln = reg /\ command'.keys = (Tracked # {})
          /\ command.pc = "forget"
      BY <2>6, <1>0 DEF Forgets, CommandRecord
    <3>2. \A c \in Conn : conn[c].st = "piping" => Tracked # {}
      BY DEF Tracked
    <3> QED  BY ZenonT(60), <2>6, <3>1, <3>2 DEF Forgets, Unregister, NothingOutlivesItsBroker
  <2>7. CASE ForgetCloses
    <3>1. command'.pc = "drop" /\ command'.keys = command.keys /\ command.pc = "close"
      BY <2>7, <1>0 DEF ForgetCloses, CommandRecord
    <3> QED  BY <2>7, <3>1 DEF ForgetCloses, NothingOutlivesItsBroker
  <2>8. CASE ForgetDrops
    <3>1. \A c \in Conn : \/ conn'[c].st = "closed"
                          \/ ~command.keys /\ conn'[c] = conn[c]
      BY <2>8, <1>0 DEF ForgetDrops, CloseConns, Closed, CommandRecord
    <3> QED  BY <2>8, <3>1 DEF ForgetDrops, NothingOutlivesItsBroker
  <2> QED  BY ZenonT(60), <1>3, <2>1, <2>2, <2>3, <2>4, <2>5, <2>6, <2>7, <2>8 DEF CommandSteps
<1>4. ASSUME RenewalSteps PROVE NothingOutlivesItsBroker'
  BY ZenonT(60), <1>4, RenewalFrame DEF brokering, NothingOutlivesItsBroker
<1>5. ASSUME DiscoverySteps PROVE NothingOutlivesItsBroker'
  <2>1. CASE DiscoveryStarts
    <3>1. discovery.pc = "idle" /\ discovery.ln = Nobody /\ discovery'.ln = Nobody
      BY <2>1 DEF DiscoveryStarts, IdleDiscovery, Passes
    <3> QED  BY <2>1, <3>1 DEF DiscoveryStarts, brokering, NothingOutlivesItsBroker
  <2>2. CASE DiscoveryFails
    <3>1. discovery.pc \in {"net", "bind"} /\ discovery.ln = Nobody /\ discovery'.ln = Nobody
      BY <2>2 DEF DiscoveryFails, IdleDiscovery, Passes
    <3> QED  BY <2>2, <3>1 DEF DiscoveryFails, brokering, NothingOutlivesItsBroker
  <2>3. CASE DiscoveryCloses
    <3>1. discovery'.pc = "drop"
      BY <2>3, <1>0 DEF DiscoveryCloses, DiscoveryRecord
    <3> QED  BY <2>3, <3>1 DEF DiscoveryCloses, NothingOutlivesItsBroker
  <2>4. CASE DiscoveryDrops
    <3>1. discovery.ln = Nobody
      BY <2>4 DEF DiscoveryDrops, Passes
    <3>2. \A c \in Conn : conn'[c].st = "closed"
      BY <2>4 DEF DiscoveryDrops, CloseConns, Closed
    <3> QED  BY <2>4, <1>0, <3>1, <3>2 DEF DiscoveryDrops, NothingOutlivesItsBroker
  <2>5. CASE ServeEnds
    <3>1. discovery'.pc = "drop" /\ discovery.ln = Nobody
      BY <2>5 DEF ServeEnds, IdleDiscovery, Passes
    <3> QED  BY <2>5, <1>0, <3>1 DEF ServeEnds, NothingOutlivesItsBroker
  <2>6. ASSUME NEW connectable \in BOOLEAN, NEW moved \in BOOLEAN,
               DiscoveryApplies(connectable, moved)
        PROVE  NothingOutlivesItsBroker'
    <3>1. discovery.pc = "net" /\ discovery.ln = Nobody /\ UNCHANGED <<command, bound, conn>>
      BY <2>6 DEF DiscoveryApplies, Passes
    <3>2. \/ reg' = Nobody /\ discovery'.pc = "close" /\ discovery'.ln = reg
          \/ reg' = reg /\ discovery'.ln = Nobody
      BY AppliesFields, <2>6
    <3> QED  BY ZenonT(60), <1>0, <3>1, <3>2 DEF NothingOutlivesItsBroker
  <2>7. ASSUME NEW l \in Listener, DiscoveryBinds(l) PROVE NothingOutlivesItsBroker'
    <3>1. /\ discovery.pc = "bind" /\ discovery.ln = Nobody /\ reg = Nobody
          /\ UNCHANGED <<command, conn>>
      BY ZenonT(60), <2>7 DEF DiscoveryBinds, Passes
    <3>2. \/ reg' = l /\ bound' = bound \cup {l}
          \/ reg' = reg /\ bound' = bound
      BY ZenonT(60), <2>7 DEF DiscoveryBinds, Register
    <3>3. \A c \in Conn : conn[c].st = "piping" => conn[c].via # Nobody
      BY DEF Passes
    <3> QED  BY <1>0, <3>1, <3>2, <3>3 DEF NothingOutlivesItsBroker
  <2> QED  BY ZenonT(60), <1>5, <2>1, <2>2, <2>3, <2>4, <2>5, <2>6, <2>7 DEF DiscoverySteps
<1>6. ASSUME BrokerSteps PROVE NothingOutlivesItsBroker'
  <2>1. CASE ServeFails
    BY ZenonT(60), <2>1 DEF ServeFails, tasks, NothingOutlivesItsBroker
  <2>2. ASSUME NEW c \in Conn, Resolve(c) PROVE NothingOutlivesItsBroker'
    <3>1. \A x \in Conn : conn'[x].st = "piping" =>
            conn'[x].via = conn[x].via /\ (conn[x].st = "piping" \/ conn[x].via = reg)
      BY <2>2, <1>0 DEF Resolve, Closed, ConnRecord
    <3> QED  BY <2>2, <3>1 DEF Resolve, tasks, NothingOutlivesItsBroker
  <2>3. ASSUME NEW c \in Conn, Disconnect(c) PROVE NothingOutlivesItsBroker'
    <3>1. \A x \in Conn : conn'[x].st = "piping" => conn'[x] = conn[x]
      BY <2>3, <1>0 DEF Disconnect, Closed, ConnRecord
    <3> QED  BY <2>3, <3>1 DEF Disconnect, tasks, NothingOutlivesItsBroker
  <2>4. ASSUME NEW c \in Conn, NEW l \in Listener, Accept(c, l) PROVE NothingOutlivesItsBroker'
    <3>1. \A x \in Conn : conn'[x].st = "piping" => conn'[x] = conn[x]
      BY ZenonT(60), <2>4, <1>0 DEF Accept, ConnRecord
    <3> QED  BY <2>4, <3>1 DEF Accept, tasks, NothingOutlivesItsBroker
  <2> QED  BY ZenonT(60), <1>6, <2>1, <2>2, <2>3, <2>4 DEF BrokerSteps
<1>7. CASE Restart
  <2>1. \A c \in Conn : conn'[c].st = "closed"
    BY <1>7 DEF Restart, CloseConns, Closed
  <2> QED  BY ZenonT(60), <1>7, <2>1 DEF Restart, NothingOutlivesItsBroker
<1>8. CASE UNCHANGED vars
  BY <1>8 DEF vars, daemon, tasks, brokering, cp, NothingOutlivesItsBroker
<1> QED  BY ZenonT(60), <1>1, <1>2, <1>3, <1>4, <1>5, <1>6, <1>7, <1>8 DEF Next

-----------------------------------------------------------------------------
\* The theorems.

\* The initial state.
LEMMA InvInit == Init => IInv
<1> SUFFICES ASSUME Init PROVE IInv
  OBVIOUS
<1>1. TypeOK
  BY TypeInit
<1>2. /\ cfg.id = 0 /\ cfg.url = 0 /\ cfg.token = 0 /\ cfg.secret = 0 /\ cfg = Unset
      /\ login.pc = "idle" /\ login.srv.secret = 0 /\ renewal.pc = "idle"
  BY DEF Init, Unset, IdleLogin, IdleRenewal
<1>3. /\ command.pc = "idle" /\ command.op = "none"
      /\ discovery.pc = "idle" /\ discovery.ln = Nobody
      /\ \A c \in Conn : conn[c].st = "closed"
  BY DEF Init, IdleCommand, IdleDiscovery, Closed
<1>4. Locks
  BY <1>2, <1>3 DEF Init, Locks
<1>5. Ledger /\ EndedIssuesNothing
  BY DEF Init, Ledger, EndedIssuesNothing
<1>6. Holders /\ LoginIsWhole
  BY <1>2, <1>3 DEF Init, Holders, LoginIsWhole
<1>7. Passes /\ BrokersLoggedIn /\ NothingOutlivesItsBroker
  BY ZenonT(60), <1>3 DEF Init, Passes, BrokersLoggedIn, NothingOutlivesItsBroker
<1>8. RefusedIsCurrent
  BY Zenon DEF Init, RefusedIsCurrent
<1>9. SessionsAccounted
  BY DEF Init, SessionsAccounted
<1> QED  BY <1>1, <1>4, <1>5, <1>6, <1>7, <1>8, <1>9 DEF IInv

\* Every step.
LEMMA InvStep == IInv /\ [Next]_vars => IInv'
<1> SUFFICES ASSUME IInv, [Next]_vars PROVE IInv'
  OBVIOUS
<1>0. /\ TypeOK /\ Locks /\ Ledger /\ Holders /\ Passes
      /\ LoginIsWhole /\ BrokersLoggedIn /\ NothingOutlivesItsBroker
      /\ RefusedIsCurrent /\ EndedIssuesNothing /\ SessionsAccounted
  BY DEF IInv
<1>1. TypeOK'
  BY <1>0, TypeStep
<1>2. Locks'
  BY <1>0, LocksStep
<1>3. Ledger' /\ EndedIssuesNothing'
  BY <1>0, LedgerStep
<1>4. Holders' /\ LoginIsWhole'
  BY <1>0, HoldersStep
<1>5. SessionsAccounted'
  BY <1>0, AccountedStep
<1>6. RefusedIsCurrent'
  BY <1>0, RefusedStep
<1>7. Passes' /\ BrokersLoggedIn'
  BY <1>0, BrokersStep
<1>8. NothingOutlivesItsBroker'
  BY <1>0, OutlivesStep
<1> QED  BY <1>1, <1>2, <1>3, <1>4, <1>5, <1>6, <1>7, <1>8 DEF IInv

\* The invariant holds in every state the daemon and its control planes reach.
THEOREM DaemonInvariant == Spec => []IInv
  BY InvInit, InvStep, PTL DEF Spec

\* A renewal, a login and a command that clears it may overlap in any way: the saved token and
\* renewal secret are always of one session, minted by the server's own control plane
\* (SameSession at each save, serverMu around the clearing commands).
THEOREM SavedLoginIsWhole == Spec => []LoginIsWhole
<1>1. IInv => LoginIsWhole
  BY DEF IInv
<1> QED  BY <1>1, DaemonInvariant, PTL

\* A listener is registered only for the logged-in server as configured: syncServer re-reads the
\* session before it registers one, and forgetServer unregisters it after a clearing commit.
THEOREM BrokersAreLoggedIn == Spec => []BrokersLoggedIn
<1>1. IInv => BrokersLoggedIn
  BY DEF IInv
<1> QED  BY <1>1, DaemonInvariant, PTL

\* No port stays open and no connection keeps piping after its broker was unregistered, except
\* for the moment in which closeListeners and closeConns take them down.
THEOREM BrokersTakeTheirConnsAlong == Spec => []NothingOutlivesItsBroker
<1>1. IInv => NothingOutlivesItsBroker
  BY DEF IInv
<1> QED  BY <1>1, DaemonInvariant, PTL

\* reauthRequired is only ever about the session that is saved now: a refusal that arrives after a
\* new login is dropped.
THEOREM RefusalsAreCurrent == Spec => []RefusedIsCurrent
<1>1. IInv => RefusedIsCurrent
  BY DEF IInv
<1> QED  BY <1>1, DaemonInvariant, PTL

\* Renewal and poll re-read the session and the account in their transaction, so no wire token is
\* issued once the session ended or the principal was deprovisioned.
THEOREM EndedSessionsIssueNothing == Spec => []EndedIssuesNothing
<1>1. IInv => EndedIssuesNothing
  BY DEF IInv
<1> QED  BY <1>1, DaemonInvariant, PTL

\* Every session minted for the daemon is saved, ended, in the hands of a login under way, or the
\* user was told that it may be left: replacing a login ends the session it replaced.
THEOREM SessionsAreAccounted == Spec => []SessionsAccounted
<1>1. IInv => SessionsAccounted
  BY DEF IInv
<1> QED  BY <1>1, DaemonInvariant, PTL
=============================================================================
