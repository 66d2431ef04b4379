----------------------------- MODULE Connections -----------------------------
(***************************************************************************)
(* The browser's registry of server connections: packages/ui/src/api/      *)
(* connections.ts, with the parts of ws-transport.ts, transport.ts and     *)
(* server-config.ts it drives.  Every profile has one entry whose          *)
(* `generation` names its current runtime; a connect is an asynchronous    *)
(* task that asks the server for the auth status, then opens a WebSocket   *)
(* transport.  JavaScript runs one task at a time, so an action is what    *)
(* happens between two awaits or in one event handler.                     *)
(***************************************************************************)
EXTENDS Naturals, FiniteSets

CONSTANTS
    Profiles,       \* profile ids
    Tokens,         \* auth tokens
    NoToken, NoProfile,
    Basic,          \* the profiles with authType "basic"
    MaxOps,         \* bound: operations of the user or of other tabs
    MaxFaults       \* bound: failures of the server or of the network

ASSUME ConnectionsAssumption ==
    /\ Basic \subseteq Profiles
    /\ NoProfile \notin Profiles
    /\ NoToken \notin Tokens
    /\ MaxOps \in Nat /\ MaxFaults \in Nat

VARIABLES
    conn,       \* profile -> ConnectionEntry, with the tasks that work for it
    tombstones, \* profiles removed in this page
    saved,      \* profiles in localStorage
    stored,     \* profile -> auth token in localStorage
    active,     \* the active profile id
    ambient,    \* the transport of transport.ts: <<profile, generation>>
    ops, faults

vars == <<conn, tombstones, saved, stored, active, ambient, ops, faults>>

Idle == <<NoProfile, 0>>
AuthStates == {"mfa-required", "login-required"}
Statuses == {"disconnected", "connecting", "connected", "offline", "unsupported"}
              \union AuthStates

(***************************************************************************)
(* An entry.  `tr` is the generation of entry.transport, 0 for null.       *)
(* `sockets` are the transports of the profile that were created and not   *)
(* destroyed.  `checks` are the connects that await checkAuthStatus, with  *)
(* the token they captured; `wait` says that a connect awaits              *)
(* wsConnectedPromise; `inflight` is the one in inFlightConnects.          *)
(***************************************************************************)
NoEntry == [exists |-> FALSE, generation |-> 1, status |-> "disconnected",
            intent |-> FALSE, timer |-> FALSE, tr |-> 0, sockets |-> {},
            checks |-> {}, wait |-> FALSE, inflight |-> 0]

\* entry.transport?.destroy?.(); entry.transport = null
DestroyTransport(c) ==
    [c EXCEPT !.sockets = {s \in @ : s.generation # c.tr}, !.tr = 0]

\* entry.settleConnect?.(): the connect that waits for the socket is over.
SettleConnect(c) == IF c.wait THEN [c EXCEPT !.wait = FALSE, !.inflight = 0] ELSE c

\* Mutation: a task is stale only when its profile is gone.
IsStaleByProfile(c, p, generation) == p \in tombstones \/ ~c.exists

\* isStale
IsStale(c, p, generation) ==
    p \in tombstones \/ ~c.exists \/ c.generation # generation

\* scheduleReconnect
ScheduleReconnect(c) == IF c.intent THEN [c EXCEPT !.timer = TRUE] ELSE c

(***************************************************************************)
(* performConnectProfile up to its first await.  The branch for a URL that *)
(* is not http(s) is left out: readServerProfiles drops such profiles.     *)
(***************************************************************************)
PerformConnect(c, p, token) ==
    IF p \notin saved
      THEN [c EXCEPT !.exists = TRUE, !.timer = FALSE,
                     !.generation = @ + 1, !.status = "offline"]
      ELSE LET d == [DestroyTransport(SettleConnect(c)) EXCEPT
                       !.exists = TRUE, !.timer = FALSE, !.intent = TRUE,
                       !.generation = @ + 1]
           IN  IF p \in Basic /\ token = NoToken
                 THEN [d EXCEPT !.status = "login-required"]
                 ELSE [d EXCEPT !.status = "connecting",
                                !.checks = @ \union {[generation |-> d.generation,
                                                      token |-> token]},
                                !.inflight = d.generation]

\* connectProfile
ConnectProfile(c, p, token) ==
    IF \/ p \in tombstones
       \/ c.status = "connected" /\ c.intent /\ c.tr # 0
       \/ c.inflight # 0
      THEN c ELSE PerformConnect(c, p, token)

\* disconnectProfile, without its effect on the ambient transport.
DisconnectProfile(c) ==
    IF ~c.exists THEN c
    ELSE [DestroyTransport(SettleConnect(c)) EXCEPT
            !.intent = FALSE, !.generation = @ + 1, !.inflight = 0,
            !.timer = FALSE, !.status = "disconnected"]

(***************************************************************************)
(* The listener of profile changes at the end of connections.ts: an entry  *)
(* whose transport does not carry the stored token is restarted, or closed *)
(* when its token is gone.  A null transport counts as carrying no token.  *)
(***************************************************************************)
TransportToken(c) ==
    IF c.tr = 0 THEN NoToken
    ELSE (CHOOSE s \in c.sockets : s.generation = c.tr).token

OnProfileChange(c, p, token) ==
    IF \/ ~c.exists
       \/ TransportToken(c) = token
       \/ c.status \notin AuthStates \union {"connected", "offline"}
      THEN c
    ELSE IF token # NoToken
      THEN LET d == DisconnectProfile(c)
           IN  IF c.intent THEN ConnectProfile(d, p, token) ELSE d
    ELSE IF p \in Basic
      THEN [DisconnectProfile(c) EXCEPT !.status = "login-required"]
    ELSE c

\* Every entry, after the token of the profiles became `tokens`.
NotifyAll(entries, known, tokens) ==
    [p \in Profiles |->
        IF p \in known THEN OnProfileChange(entries[p], p, tokens[p]) ELSE entries[p]]

\* disconnectProfile installs an IdleTransport if it closed the ambient one;
\* the other paths leave the ambient transport alone.
AmbientAfter(closed) == IF ambient[1] \in closed THEN Idle ELSE ambient

\* The profiles disconnectProfile took the ambient transport from.
Dropped(entries, next) ==
    {p \in Profiles : /\ entries[p].tr # 0
                      /\ <<p, entries[p].tr>> = ambient
                      /\ next[p].tr # entries[p].tr}

Op == ops < MaxOps /\ ops' = ops + 1
Fault == faults < MaxFaults /\ faults' = faults + 1

-----------------------------------------------------------------------------
Init ==
    /\ conn = [p \in Profiles |-> NoEntry]
    /\ tombstones = {}
    /\ saved = Profiles
    /\ stored \in [Profiles -> Tokens \union {NoToken}]
    /\ active \in Profiles \union {NoProfile}
    /\ ambient = Idle
    /\ ops = 0 /\ faults = 0

(* Operations of the user: connect, disconnect, log in, log out, ... *)
Connect(p) ==
    /\ Op
    /\ conn' = [conn EXCEPT ![p] = ConnectProfile(@, p, stored[p])]
    /\ UNCHANGED <<tombstones, saved, stored, active, ambient, faults>>

Disconnect(p) ==
    /\ Op
    /\ conn' = [conn EXCEPT ![p] = DisconnectProfile(@)]
    /\ ambient' = AmbientAfter(Dropped(conn, conn'))
    /\ UNCHANGED <<tombstones, saved, stored, active, faults>>

\* setAuthToken or clearAuthToken, here or in another tab.
SetAuthToken(p, token) ==
    /\ p \in saved
    /\ token # stored[p]
    /\ Op
    /\ stored' = [stored EXCEPT ![p] = token]
    /\ conn' = NotifyAll(conn, saved, stored')
    /\ ambient' = AmbientAfter(Dropped(conn, conn'))
    /\ UNCHANGED <<tombstones, saved, active, faults>>

\* handleLogout: clearAuthToken, then disconnectProfile.
Logout(p) ==
    /\ p \in saved
    /\ Op
    /\ stored' = [stored EXCEPT ![p] = NoToken]
    /\ LET notified == NotifyAll(conn, saved, stored')
       IN  conn' = [notified EXCEPT ![p] = DisconnectProfile(@)]
    /\ ambient' = AmbientAfter(Dropped(conn, conn'))
    /\ UNCHANGED <<tombstones, saved, active, faults>>

\* setActiveProfile: the listener above, then syncActiveProfileConnection.
SetActiveProfile(p) ==
    /\ p \in saved
    /\ Op
    /\ active' = p
    /\ conn' = NotifyAll(conn, saved, stored)
    /\ ambient' = IF conn'[p].tr # 0 /\ conn'[p].status = "connected"
                    THEN <<p, conn'[p].tr>> ELSE Idle
    /\ UNCHANGED <<tombstones, saved, stored, faults>>

\* handleConfirmDelete: removeProfileConnection, then deleteProfile, which
\* clears the token, saves the list and activates the first profile left.
RemoveProfile(p) ==
    LET known == saved \ {p}
        gone == [conn EXCEPT ![p] = [NoEntry EXCEPT !.checks = conn[p].checks,
                                        !.sockets = DestroyTransport(conn[p]).sockets]]
    IN
    /\ p \in saved
    /\ Op
    /\ tombstones' = tombstones \union {p}
    /\ saved' = known
    /\ stored' = [stored EXCEPT ![p] = NoToken]
    /\ conn' = NotifyAll(gone, known, stored')
    /\ IF active = p
         THEN /\ active' \in IF known = {} THEN {NoProfile} ELSE known
              /\ ambient' = IF active' # NoProfile /\ conn'[active'].status = "connected"
                              THEN <<active', conn'[active'].tr>> ELSE Idle
         ELSE /\ active' = active
              /\ ambient' = AmbientAfter(Dropped(gone, conn'))
    /\ UNCHANGED faults

\* deleteProfile in another tab: the storage events change the list, the
\* token and the active profile, and no connection is removed.
ForgottenElsewhere(p) ==
    /\ p \in saved
    /\ Op
    /\ saved' = saved \ {p}
    /\ stored' = [stored EXCEPT ![p] = NoToken]
    /\ conn' = NotifyAll(conn, saved', stored')
    /\ IF active = p
         THEN /\ active' \in IF saved' = {} THEN {NoProfile} ELSE saved'
              /\ ambient' = IF active' # NoProfile /\ conn'[active'].status = "connected"
                              THEN <<active', conn'[active'].tr>> ELSE Idle
         ELSE /\ active' = active
              /\ ambient' = AmbientAfter(Dropped(conn, conn'))
    /\ UNCHANGED <<tombstones, faults>>

-----------------------------------------------------------------------------
(* Timers and answers *)
ReconnectTimer(p) ==
    /\ conn[p].timer
    /\ conn' = [conn EXCEPT ![p] =
                  LET c == [conn[p] EXCEPT !.timer = FALSE]
                  IN  IF c.intent THEN ConnectProfile(c, p, stored[p]) ELSE c]
    /\ UNCHANGED <<tombstones, saved, stored, active, ambient, ops, faults>>

\* The connect k of p is over: inFlightConnects forgets it if it is its own.
EndCheck(c, k) ==
    [c EXCEPT !.checks = @ \ {k},
              !.inflight = IF @ = k.generation THEN 0 ELSE @]

\* checkAuthStatus answers a connect that is no longer current.
CheckStale(p) ==
    /\ \E k \in conn[p].checks :
          /\ IsStale(conn[p], p, k.generation)
          /\ conn' = [conn EXCEPT ![p] = EndCheck(@, k)]
    /\ UNCHANGED <<tombstones, saved, stored, active, ambient, ops, faults>>

\* An authenticated answer of protocol 2: the transport is created.
OpenTransport(c, k) ==
    [c EXCEPT !.checks = @ \ {k}, !.tr = k.generation, !.wait = TRUE,
              !.sockets = @ \union {[generation |-> k.generation,
                                     token |-> k.token, ws |-> "connecting"]}]

CheckPasses(p) ==
    /\ \E k \in conn[p].checks :
          /\ ~IsStale(conn[p], p, k.generation)
          /\ conn' = [conn EXCEPT ![p] = OpenTransport(@, k)]
    /\ UNCHANGED <<tombstones, saved, stored, active, ambient, ops, faults>>

\* Every other answer ends the connect.  An expired or refused session clears
\* the token, which notifies the listener while the status is "connecting".
CheckFails(p) ==
    \E k \in conn[p].checks, answer \in {"mfa", "expired", "refused", "protocol", "network"} :
        LET c == EndCheck(conn[p], k)
            next == CASE answer = "mfa" -> [c EXCEPT !.status = "mfa-required"]
                      [] answer \in {"expired", "refused"} ->
                            [c EXCEPT !.status = "login-required"]
                      [] answer = "protocol" ->
                            [c EXCEPT !.status = "unsupported", !.intent = FALSE]
                      [] answer = "network" ->
                            ScheduleReconnect([c EXCEPT !.status = "offline"])
        IN
        /\ ~IsStale(conn[p], p, k.generation)
        /\ Fault
        /\ stored' = IF answer = "expired" THEN [stored EXCEPT ![p] = NoToken] ELSE stored
        /\ conn' = IF answer = "expired"
                     THEN [NotifyAll(conn, saved, stored') EXCEPT ![p] = next]
                     ELSE [conn EXCEPT ![p] = next]
        /\ ambient' = AmbientAfter(Dropped(conn, conn'))
        /\ UNCHANGED <<tombstones, saved, active, ops>>

-----------------------------------------------------------------------------
(* The socket of a transport *)

\* Mutation: a lost connection is reported and no reconnect is scheduled.
HandleDropForgets(c, p, generation, code) ==
    IF IsStale(c, p, generation) THEN c
    ELSE [DestroyTransport(SettleConnect(c)) EXCEPT
            !.generation = @ + 1,
            !.status = CASE code = "mfa" -> "mfa-required"
                         [] code = "auth" -> "login-required"
                         [] code = "lost" -> "offline"]

\* handleDrop without what it does to the stored token.
HandleDrop(c, p, generation, code) ==
    IF IsStale(c, p, generation) THEN c
    ELSE LET d == [DestroyTransport(SettleConnect(c)) EXCEPT !.generation = @ + 1]
         IN  CASE code = "mfa" -> [d EXCEPT !.status = "mfa-required"]
               [] code = "auth" -> [d EXCEPT !.status = "login-required"]
               [] code = "lost" -> IF d.intent
                                    THEN ScheduleReconnect([d EXCEPT !.status = "offline"])
                                    ELSE [d EXCEPT !.status = "disconnected"]

\* reconfigureTransport, if the profile is active or none is.
InstallAmbient(p, generation) ==
    IF active \in {NoProfile, p} THEN <<p, generation>> ELSE ambient

\* ws.onopen, and the status listener of performConnectProfile.
WsOpen(p) ==
    \E s \in conn[p].sockets :
        LET opened == [conn[p] EXCEPT !.sockets = (@ \ {s}) \union {[s EXCEPT !.ws = "open"]}]
        IN
        /\ s.ws = "connecting"
        /\ IF IsStale(conn[p], p, s.generation)
             THEN conn' = [conn EXCEPT ![p] = opened] /\ UNCHANGED ambient
             ELSE /\ conn' = [conn EXCEPT ![p] =
                                [SettleConnect(opened) EXCEPT !.status = "connected"]]
                  /\ ambient' = InstallAmbient(p, s.generation)
        /\ UNCHANGED <<tombstones, saved, stored, active, ops, faults>>

\* The socket closes or fails, or a request on the transport is refused with
\* 401.  Both end in handleDrop; "auth" clears the token of the profile.
Drop(p) ==
    \E s \in conn[p].sockets, code \in {"lost", "mfa", "auth"} :
        LET current == ~IsStale(conn[p], p, s.generation)
        IN
        /\ s.ws # "closed"
        /\ Fault
        /\ stored' = IF current /\ code = "auth"
                       THEN [stored EXCEPT ![p] = NoToken] ELSE stored
        /\ conn' = [(IF stored' = stored THEN conn ELSE NotifyAll(conn, saved, stored'))
                      EXCEPT ![p] =
                      IF current THEN HandleDrop(conn[p], p, s.generation, code)
                      ELSE [conn[p] EXCEPT !.sockets =
                              (@ \ {s}) \union {[s EXCEPT !.ws = "closed"]}]]
        /\ ambient' = AmbientAfter(Dropped(conn, [conn' EXCEPT ![p] = conn[p]]))
        /\ UNCHANGED <<tombstones, saved, active, ops>>

\* connectTimeout: ten seconds without an open socket.
ConnectTimeout(p) ==
    /\ conn[p].wait
    /\ Fault
    /\ conn' = [conn EXCEPT ![p] =
                  IF conn[p].status = "connecting"
                    THEN HandleDrop(@, p, conn[p].generation, "lost")
                    ELSE SettleConnect(@)]
    /\ UNCHANGED <<tombstones, saved, stored, active, ambient, ops>>

-----------------------------------------------------------------------------
User ==
    \E p \in Profiles :
        \/ Connect(p) \/ Disconnect(p) \/ Logout(p)
        \/ SetActiveProfile(p) \/ RemoveProfile(p) \/ ForgottenElsewhere(p)
        \/ \E token \in Tokens \union {NoToken} : SetAuthToken(p, token)

Progress(p) ==
    ReconnectTimer(p) \/ CheckStale(p) \/ CheckPasses(p) \/ WsOpen(p)

Next ==
    \/ User
    \/ \E p \in Profiles : Progress(p) \/ CheckFails(p) \/ Drop(p) \/ ConnectTimeout(p)

Spec == Init /\ [][Next]_vars

\* Timers fire, requests are answered and sockets open or fail: the browser
\* bounds each of them by a timeout.
Fairness == \A p \in Profiles : WF_vars(Progress(p))
FairSpec == Spec /\ Fairness

-----------------------------------------------------------------------------
Generations == Nat
TypeOK ==
    /\ conn \in [Profiles ->
          [exists : BOOLEAN, generation : Generations, status : Statuses,
           intent : BOOLEAN, timer : BOOLEAN, tr : Generations,
           sockets : SUBSET [generation : Generations, token : Tokens \union {NoToken},
                             ws : {"connecting", "open", "closed"}],
           checks : SUBSET [generation : Generations, token : Tokens \union {NoToken}],
           wait : BOOLEAN, inflight : Generations]]
    /\ tombstones \subseteq Profiles /\ saved \subseteq Profiles
    /\ stored \in [Profiles -> Tokens \union {NoToken}]
    /\ active \in Profiles \union {NoProfile}
    /\ ambient \in (Profiles \union {NoProfile}) \X Generations
    /\ ops \in 0 .. MaxOps /\ faults \in 0 .. MaxFaults

(***************************************************************************)
(* connections.ts keeps one runtime per profile: whatever connects, drops, *)
(* token changes and removals overlap, the only transport of a profile     *)
(* that was not destroyed is the one its entry holds, and it belongs to    *)
(* the current generation.  A second one would keep a socket, its token    *)
(* and its event bridge alive with nobody left to close it.                *)
(***************************************************************************)
OneRuntime ==
    \A p \in Profiles : \A s \in conn[p].sockets :
        /\ conn[p].exists
        /\ s.generation = conn[p].tr
        /\ s.generation = conn[p].generation

(***************************************************************************)
(* A lost connection the user wants (intent) is always being brought back: *)
(* an entry that shows "Connection lost; reconnecting..." has its timer    *)
(* armed, and one that shows "connecting" has a connect under way.         *)
(***************************************************************************)
RetryArmed ==
    \A p \in saved \ tombstones :
        /\ conn[p].exists /\ conn[p].status = "offline" /\ conn[p].intent => conn[p].timer
        /\ conn[p].status = "connecting" =>
              \/ \E k \in conn[p].checks : k.generation = conn[p].generation
              \/ conn[p].wait

(***************************************************************************)
(* The ambient transport never routes requests through a foreign profile:  *)
(* once the user has chosen an active profile, a transport installed by    *)
(* reconfigureTransport that still works belongs to that profile.          *)
(***************************************************************************)
AmbientIsActive ==
    \A p \in Profiles \ {active} :
        active # NoProfile => \A s \in conn[p].sockets : ambient # <<p, s.generation>>

(***************************************************************************)
(* What the registry keeps in every state: a profile has no socket but the *)
(* one of its current generation, a lost connection that is wanted has its *)
(* retry armed, and ambient requests go to the active profile.             *)
(***************************************************************************)
RegistrySound == TypeOK /\ OneRuntime /\ RetryArmed /\ AmbientIsActive

(***************************************************************************)
(* handleDrop and performConnectProfile act only on the profile they were  *)
(* started for: a session that the server declares expired takes away the  *)
(* token of that profile at most, and never one stored since by a login    *)
(* that finished after the connection was replaced.                        *)
(***************************************************************************)
StaleNeverClearsToken ==
    [][\A p \in Profiles :
          stored[p] # NoToken /\ stored'[p] = NoToken /\ ops' = ops =>
              \/ \E k \in conn[p].checks : k.generation = conn[p].generation
              \/ \E s \in conn[p].sockets : s.generation = conn[p].generation]_vars

(***************************************************************************)
(* Under fairness, a connect that is wanted comes to an answer: connected, *)
(* waiting for the user (MFA, login), unsupported, or given up by him.     *)
(***************************************************************************)
Settled(p) ==
    \/ ~conn[p].intent \/ p \notin saved
    \/ conn[p].status \in AuthStates \union {"connected", "unsupported"}
ConnectSettles == \A p \in Profiles : conn[p].intent ~> Settled(p)
=============================================================================
