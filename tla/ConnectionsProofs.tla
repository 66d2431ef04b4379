-------------------------- MODULE ConnectionsProofs --------------------------
(***************************************************************************)
(* The registry of server connections, for every set of profiles and       *)
(* tokens and any number of operations and faults: RegistrySound, and that *)
(* a stale task never clears a token.                                      *)
(***************************************************************************)
EXTENDS Connections, TLAPS

Held == Tokens \union {NoToken}
Sockets == [generation : Nat, token : Held, ws : {"connecting", "open", "closed"}]
Checks == [generation : Nat, token : Held]
Entries ==
    [exists : BOOLEAN, generation : Nat, status : Statuses, intent : BOOLEAN,
     timer : BOOLEAN, tr : Nat, sockets : SUBSET Sockets, checks : SUBSET Checks,
     wait : BOOLEAN, inflight : Nat]

(***************************************************************************)
(* What the tasks of one profile leave in its entry.  OneRuntime needs to  *)
(* know when a transport exists: only in a connect that waits for it or in *)
(* a connected entry (Running).  The connect under way is the one with the *)
(* entry's generation, and there is one of it (Connecting): a generation   *)
(* is never used again, because every task that ends one moves on.         *)
(***************************************************************************)
Running(c) ==
    /\ \A s \in c.sockets : s.generation = c.tr /\ c.tr # 0
    /\ c.tr # 0 => /\ c.exists /\ c.intent /\ c.tr = c.generation
                   /\ c.status = "connected" \/ c.wait
    /\ c.wait => c.tr # 0 /\ c.status = "connecting"

Connecting(c) ==
    /\ c.inflight # 0 => c.status = "connecting"
    /\ c.status = "connecting" =>
          /\ c.inflight = c.generation
          /\ c.wait \/ \E k \in c.checks : k.generation = c.generation
    /\ \A k \in c.checks :
          /\ k.generation <= c.generation
          /\ k.generation = c.generation =>
                c.exists /\ c.intent /\ c.status = "connecting" /\ c.tr = 0
    /\ \A k, l \in c.checks : k.generation = c.generation /\ l.generation = c.generation => k = l

Sound(c) == c.generation # 0 /\ Running(c) /\ Connecting(c)

\* A lost connection that is wanted has its timer.
Armed(c) == c.exists /\ c.status = "offline" /\ c.intent => c.timer

\* What is left of a profile that was removed in this page.
Gone(c) ==
    /\ ~c.exists /\ ~c.timer /\ ~c.wait
    /\ c.sockets = {} /\ c.inflight = 0 /\ c.status = "disconnected"

Kept(p, c) ==
    IF p \in tombstones THEN p \notin saved /\ Gone(c)
    ELSE Sound(c) /\ (p \in saved => Armed(c))

Owned == active # NoProfile => ambient[1] \in {active, NoProfile}

Inv == TypeOK /\ (\A p \in Profiles : Kept(p, conn[p])) /\ Owned

-----------------------------------------------------------------------------
(* The functions of connections.ts on one entry. *)

\* settleConnect and the destruction of the transport leave nothing running.
LEMMA TornDown ==
    ASSUME NEW c \in Entries, Running(c), NEW d, d = DestroyTransport(SettleConnect(c))
    PROVE  /\ d \in Entries
           /\ d.sockets = {} /\ d.tr = 0 /\ d.wait = FALSE
           /\ d.inflight = IF c.wait THEN 0 ELSE c.inflight
           /\ d.exists = c.exists /\ d.generation = c.generation /\ d.status = c.status
           /\ d.intent = c.intent /\ d.timer = c.timer /\ d.checks = c.checks
<1> DEFINE b == SettleConnect(c)
<1>1. /\ b \in Entries /\ b.wait = FALSE
      /\ b.inflight = IF c.wait THEN 0 ELSE c.inflight
      /\ b.exists = c.exists /\ b.generation = c.generation /\ b.status = c.status
      /\ b.intent = c.intent /\ b.timer = c.timer /\ b.checks = c.checks
      /\ b.tr = c.tr /\ b.sockets = c.sockets
  <2>1. CASE c.wait
    BY <2>1 DEF SettleConnect, Entries
  <2>2. CASE ~c.wait
    BY <2>2 DEF SettleConnect, Entries
  <2> QED
    BY <2>1, <2>2
<1> HIDE DEF b
<1>2. {s \in b.sockets : s.generation # b.tr} = {}
  BY <1>1 DEF Running
<1>3. d = [b EXCEPT !.sockets = {}, !.tr = 0]
  BY <1>2 DEF DestroyTransport, b
<1>4. d \in Entries
  <2>1. b \in Entries /\ {} \in SUBSET Sockets /\ 0 \in Nat
    BY <1>1
  <2> QED
    BY <1>3, <2>1 DEF Entries
<1>5. /\ d.sockets = {} /\ d.tr = 0 /\ d.wait = b.wait /\ d.inflight = b.inflight
      /\ d.exists = b.exists /\ d.generation = b.generation /\ d.status = b.status
      /\ d.intent = b.intent /\ d.timer = b.timer /\ d.checks = b.checks
  BY <1>1, <1>3 DEF Entries
<1> QED
  BY <1>1, <1>4, <1>5

\* An entry of a fresh generation with nothing running is sound.
LEMMA RestingSound ==
    ASSUME NEW c \in Entries, Connecting(c), c.generation # 0,
           NEW d \in Entries, d.generation = c.generation + 1, d.checks = c.checks,
           d.sockets = {}, d.tr = 0, d.wait = FALSE, d.inflight = 0, d.status # "connecting"
    PROVE  Sound(d)
<1>1. c.generation \in Nat
  BY DEF Entries
<1>2. \A k \in d.checks : k.generation \in Nat /\ k.generation <= c.generation
  BY DEF Connecting, Entries, Checks
<1>3. \A k \in d.checks : k.generation <= d.generation /\ k.generation # d.generation
  BY <1>1, <1>2
<1> QED
  BY <1>1, <1>3 DEF Sound, Running, Connecting

\* disconnectProfile leaves a sound entry without a runtime.
LEMMA DisconnectSound ==
    ASSUME NEW c \in Entries, Sound(c), NEW d, d = DisconnectProfile(c), c.exists
    PROVE  /\ d \in Entries /\ Sound(d)
           /\ d.exists /\ d.status = "disconnected" /\ d.tr = 0 /\ d.inflight = 0
           /\ d.wait = FALSE /\ d.sockets = {} /\ d.checks = c.checks
           /\ d.generation = c.generation + 1
<1> DEFINE b == DestroyTransport(SettleConnect(c))
<1>1. /\ b \in Entries
      /\ b.sockets = {} /\ b.tr = 0 /\ b.wait = FALSE
      /\ b.exists = c.exists /\ b.generation = c.generation /\ b.checks = c.checks
  BY TornDown DEF Sound
<1>2. d = [b EXCEPT !.intent = FALSE, !.generation = @ + 1, !.inflight = 0,
                    !.timer = FALSE, !.status = "disconnected"]
  BY DEF DisconnectProfile
<1> HIDE DEF b
<1>3. "disconnected" \in Statuses /\ b.generation + 1 \in Nat
  BY <1>1 DEF Statuses, Entries
<1>4. d \in Entries
  BY <1>1, <1>2, <1>3 DEF Entries
<1>5. /\ d.exists = b.exists /\ d.status = "disconnected" /\ d.tr = b.tr /\ d.inflight = 0
      /\ d.wait = b.wait /\ d.sockets = b.sockets /\ d.checks = b.checks
      /\ d.generation = b.generation + 1
  BY <1>1, <1>2 DEF Entries
<1>6. Sound(d)
  BY <1>1, <1>4, <1>5, RestingSound DEF Sound
<1> QED
  BY <1>1, <1>4, <1>5, <1>6

\* performConnectProfile, called when no connect is under way.
LEMMA PerformSound ==
    ASSUME NEW c \in Entries, Sound(c), NEW p \in Profiles, NEW token \in Held,
           c.inflight = 0, p \notin saved => c.tr = 0,
           NEW d, d = PerformConnect(c, p, token)
    PROVE  /\ d \in Entries /\ Sound(d)
           /\ p \in saved => d.status \in {"login-required", "connecting"}
<1>0. c.generation \in Nat /\ c.generation + 1 \in Nat
  BY DEF Entries
<1>1. CASE p \notin saved
  <2>1. d = [c EXCEPT !.exists = TRUE, !.timer = FALSE,
                      !.generation = @ + 1, !.status = "offline"]
    BY <1>1 DEF PerformConnect
  <2>2. "offline" \in Statuses
    BY DEF Statuses
  <2>3. /\ d \in Entries /\ d.generation = c.generation + 1 /\ d.checks = c.checks
        /\ d.sockets = c.sockets /\ d.tr = c.tr /\ d.wait = c.wait /\ d.inflight = c.inflight
        /\ d.status = "offline"
    BY <2>1, <2>2, <1>0 DEF Entries
  <2>4. c.sockets = {} /\ c.tr = 0 /\ c.wait = FALSE
    BY <1>1 DEF Sound, Running, Entries
  <2>5. Sound(d)
    BY <2>3, <2>4, RestingSound DEF Sound
  <2> QED
    BY <1>1, <2>3, <2>5
<1>2. CASE p \in saved
  <2> DEFINE b == DestroyTransport(SettleConnect(c))
             e == [b EXCEPT !.exists = TRUE, !.timer = FALSE, !.intent = TRUE, !.generation = @ + 1]
  <2>1. /\ b \in Entries
        /\ b.sockets = {} /\ b.tr = 0 /\ b.wait = FALSE /\ b.inflight = 0
        /\ b.generation = c.generation /\ b.checks = c.checks
    BY TornDown, ZenonT(60) DEF Sound
  <2>2. d = IF p \in Basic /\ token = NoToken
            THEN [e EXCEPT !.status = "login-required"]
            ELSE [e EXCEPT !.status = "connecting",
                           !.checks = @ \union {[generation |-> e.generation, token |-> token]},
                           !.inflight = e.generation]
    BY <1>2 DEF PerformConnect
  <2> HIDE DEF b
  <2>3. /\ e \in Entries /\ e.sockets = {} /\ e.tr = 0 /\ e.wait = FALSE /\ e.inflight = 0
        /\ e.exists /\ e.intent
        /\ e.generation = c.generation + 1 /\ e.checks = c.checks
    BY <2>1, <1>0 DEF Entries
  <2> HIDE DEF e
  <2>4. CASE p \in Basic /\ token = NoToken
    <3>1. "login-required" \in Statuses
      BY DEF Statuses, AuthStates
    <3>2. d = [e EXCEPT !.status = "login-required"]
      BY <2>2, <2>4
    <3>3. /\ d \in Entries /\ d.sockets = {} /\ d.tr = 0 /\ d.wait = FALSE /\ d.inflight = 0
          /\ d.generation = c.generation + 1 /\ d.checks = c.checks /\ d.status = "login-required"
      BY <2>3, <3>1, <3>2 DEF Entries
    <3>4. Sound(d)
      BY <3>3, RestingSound DEF Sound
    <3> QED
      BY <3>3, <3>4
  <2>5. CASE ~(p \in Basic /\ token = NoToken)
    <3> DEFINE n == [generation |-> e.generation, token |-> token]
    <3>1. "connecting" \in Statuses
      BY DEF Statuses
    <3>2. d = [e EXCEPT !.status = "connecting", !.checks = @ \union {n}, !.inflight = e.generation]
      BY <2>2, <2>5
    <3>3. n \in Checks /\ n.generation = c.generation + 1
      BY <2>3, <1>0 DEF Checks
    <3> HIDE DEF n
    <3>4. /\ d \in Entries /\ d.sockets = {} /\ d.tr = 0 /\ d.wait = FALSE
          /\ d.inflight = c.generation + 1 /\ d.exists /\ d.intent
          /\ d.generation = c.generation + 1 /\ d.checks = c.checks \union {n}
          /\ d.status = "connecting"
      <4>1. e.checks \union {n} \in SUBSET Checks /\ e.generation \in Nat
        BY <2>3, <3>3, <1>0 DEF Entries
      <4>2. d \in Entries
        BY <2>3, <3>1, <3>2, <4>1 DEF Entries
      <4>3. /\ d.sockets = e.sockets /\ d.tr = e.tr /\ d.wait = e.wait /\ d.inflight = e.generation
            /\ d.exists = e.exists /\ d.intent = e.intent /\ d.generation = e.generation
            /\ d.checks = e.checks \union {n} /\ d.status = "connecting"
        BY <2>3, <3>2 DEF Entries
      <4> QED
        BY <2>3, <4>2, <4>3
    <3>5. \A k \in c.checks : k.generation \in Nat /\ k.generation <= c.generation
      BY DEF Sound, Connecting, Entries, Checks
    <3>6. \A k \in d.checks : k.generation <= d.generation /\ (k.generation = d.generation => k = n)
      BY <3>3, <3>4, <3>5, <1>0
    <3>7. Running(d)
      BY <3>4 DEF Running
    <3>8. Connecting(d)
      BY <3>3, <3>4, <3>6 DEF Connecting
    <3> QED
      BY <3>4, <3>7, <3>8, <1>0 DEF Sound
  <2> QED
    BY <2>4, <2>5
<1> QED
  BY <1>1, <1>2

\* connectProfile: a saved profile that is not about to be connected is
\* being connected afterwards, or waits for a login.
LEMMA ConnectSound ==
    ASSUME NEW c \in Entries, Sound(c), NEW p \in Profiles, NEW token \in Held,
           NEW d, d = ConnectProfile(c, p, token)
    PROVE  /\ d \in Entries /\ Sound(d)
           /\ p \in saved \ tombstones => d.status # "offline"
<1>1. CASE \/ p \in tombstones
           \/ c.status = "connected" /\ c.intent /\ c.tr # 0
           \/ c.inflight # 0
  BY <1>1 DEF ConnectProfile, Sound, Connecting
<1>2. CASE ~(\/ p \in tombstones
             \/ c.status = "connected" /\ c.intent /\ c.tr # 0
             \/ c.inflight # 0)
  <2>1. d = PerformConnect(c, p, token) /\ c.inflight = 0
    BY <1>2 DEF ConnectProfile
  <2>2. c.tr = 0
    BY <1>2 DEF Sound, Running, Connecting
  <2> QED
    BY <2>1, <2>2, PerformSound
<1> QED
  BY <1>1, <1>2

\* onProfileChange leaves a sound entry, armed if it was.
LEMMA ChangeSound ==
    ASSUME NEW c \in Entries, Sound(c), NEW p \in Profiles, NEW token \in Held,
           NEW d, d = OnProfileChange(c, p, token)
    PROVE  /\ d \in Entries /\ Sound(d)
           /\ p \in saved \ tombstones /\ Armed(c) => Armed(d)
<1>1. CASE d = c
  BY <1>1
<1>2. CASE d # c
  <2>1. c.exists
    BY <1>2 DEF OnProfileChange
  <2> DEFINE b == DisconnectProfile(c)
  <2>2. /\ b \in Entries /\ Sound(b)
        /\ b.exists /\ b.status = "disconnected" /\ b.tr = 0 /\ b.inflight = 0
        /\ b.wait = FALSE /\ b.sockets = {} /\ b.checks = c.checks
        /\ b.generation = c.generation + 1
    BY <2>1, DisconnectSound
  <2>3. d \in {b, ConnectProfile(b, p, token), [b EXCEPT !.status = "login-required"]}
    BY <1>2 DEF OnProfileChange
  <2> HIDE DEF b
  <2>4. CASE d = b
    BY <2>2, <2>4 DEF Armed
  <2>5. CASE d = ConnectProfile(b, p, token)
    BY <2>2, <2>5, ConnectSound DEF Armed
  <2>6. CASE d = [b EXCEPT !.status = "login-required"]
    <3>1. "login-required" \in Statuses
      BY DEF Statuses, AuthStates
    <3>2. /\ d \in Entries /\ d.sockets = {} /\ d.tr = 0 /\ d.wait = FALSE /\ d.inflight = 0
          /\ d.generation = c.generation + 1 /\ d.checks = c.checks /\ d.status = "login-required"
      BY <2>2, <2>6, <3>1 DEF Entries
    <3>3. Sound(d)
      BY <3>2, RestingSound DEF Sound
    <3> QED
      BY <3>2, <3>3 DEF Armed
  <2> QED
    BY <2>3, <2>4, <2>5, <2>6
<1> QED
  BY <1>1, <1>2

\* handleDrop for the transport of the current generation.
LEMMA DropSound ==
    ASSUME NEW c \in Entries, Sound(c), NEW p \in Profiles, NEW code \in {"lost", "mfa", "auth"},
           ~IsStale(c, p, c.generation), c.tr # 0,
           NEW d, d = HandleDrop(c, p, c.generation, code)
    PROVE  d \in Entries /\ Sound(d) /\ Armed(d)
<1> DEFINE b == DestroyTransport(SettleConnect(c))
           e == [b EXCEPT !.generation = @ + 1]
<1>1. /\ b \in Entries
      /\ b.sockets = {} /\ b.tr = 0 /\ b.wait = FALSE
      /\ b.inflight = IF c.wait THEN 0 ELSE c.inflight
      /\ b.generation = c.generation /\ b.checks = c.checks
  BY TornDown DEF Sound
<1>2. b.inflight = 0
  BY <1>1 DEF Sound, Running, Connecting
<1>3. d = CASE code = "mfa" -> [e EXCEPT !.status = "mfa-required"]
            [] code = "auth" -> [e EXCEPT !.status = "login-required"]
            [] code = "lost" -> IF e.intent
                                 THEN ScheduleReconnect([e EXCEPT !.status = "offline"])
                                 ELSE [e EXCEPT !.status = "disconnected"]
  BY DEF HandleDrop
<1> HIDE DEF b
<1>4. /\ e \in Entries /\ e.sockets = {} /\ e.tr = 0 /\ e.wait = FALSE /\ e.inflight = 0
      /\ e.generation = c.generation + 1 /\ e.checks = c.checks
  BY <1>1, <1>2 DEF Entries
<1> HIDE DEF e
<1>5. \A m \in {"mfa-required", "login-required", "offline", "disconnected"} :
        m \in Statuses /\ m # "connecting"
  BY DEF Statuses, AuthStates
<1>6. ASSUME NEW m \in {"mfa-required", "login-required", "offline", "disconnected"},
             NEW t \in BOOLEAN, d = [e EXCEPT !.status = m, !.timer = t],
             m = "offline" => t
      PROVE  d \in Entries /\ Sound(d) /\ Armed(d)
  <2>1. /\ d \in Entries /\ d.sockets = {} /\ d.tr = 0 /\ d.wait = FALSE /\ d.inflight = 0
        /\ d.generation = c.generation + 1 /\ d.checks = c.checks
        /\ d.status = m /\ d.timer = t
    BY <1>4, <1>5, <1>6 DEF Entries
  <2>2. Sound(d)
    BY <2>1, <1>5, RestingSound DEF Sound
  <2> QED
    BY <2>1, <2>2, <1>6 DEF Armed
<1>7. e.timer \in BOOLEAN /\ \A m : [e EXCEPT !.status = m, !.timer = e.timer] = [e EXCEPT !.status = m]
  BY <1>4 DEF Entries
<1>8. CASE code = "mfa"
  BY <1>3, <1>6, <1>7, <1>8
<1>9. CASE code = "auth"
  BY <1>3, <1>6, <1>7, <1>9
<1>10. CASE code = "lost" /\ ~e.intent
  BY <1>3, <1>6, <1>7, <1>10
<1>11. CASE code = "lost" /\ e.intent
  <2>1. d = [[e EXCEPT !.status = "offline"] EXCEPT !.timer = TRUE]
    BY <1>3, <1>4, <1>11 DEF ScheduleReconnect, Entries
  <2>2. d = [e EXCEPT !.status = "offline", !.timer = TRUE]
    BY <2>1, <1>4 DEF Entries
  <2> QED
    BY <2>2, <1>6
<1> QED
  BY <1>8, <1>9, <1>10, <1>11

-----------------------------------------------------------------------------
(* The actions. *)

\* f is what the entries may become in a step that removes no profile.
Fine(f) ==
    /\ f \in [Profiles -> Entries]
    /\ \A p \in Profiles :
          IF p \in tombstones THEN f[p] = conn[p]
          ELSE Sound(f[p]) /\ (p \in saved => Armed(f[p]))

\* The types, from the invariant.
LEMMA TypeOfInv ==
    ASSUME Inv
    PROVE  /\ conn \in [Profiles -> Entries] /\ Fine(conn)
           /\ tombstones \subseteq Profiles /\ saved \subseteq Profiles
           /\ stored \in [Profiles -> Held] /\ active \in Profiles \union {NoProfile}
           /\ ambient \in (Profiles \union {NoProfile}) \X Nat
<1>1. conn \in [Profiles -> Entries]
  BY DEF Inv, TypeOK, Entries, Generations, Held, Sockets, Checks
<1>2. Fine(conn)
  BY <1>1 DEF Inv, Fine, Kept
<1> QED
  BY <1>1, <1>2 DEF Inv, TypeOK, Generations, Held

\* Another entry for one profile.
LEMMA FineExcept ==
    ASSUME NEW f, Fine(f), NEW p \in Profiles, NEW c \in Entries,
           IF p \in tombstones THEN c = conn[p]
           ELSE Sound(c) /\ (p \in saved => Armed(c))
    PROVE  Fine([f EXCEPT ![p] = c])
BY DEF Fine

\* The listener on an entry of a known profile, or of one it passes over.
LEMMA NotifySound ==
    ASSUME NEW e \in [Profiles -> Entries], NEW known \in SUBSET saved,
           NEW tokens \in [Profiles -> Held], NEW p \in Profiles,
           p \in known => p \notin tombstones /\ Sound(e[p]) /\ Armed(e[p]),
           NEW c, c = NotifyAll(e, known, tokens)[p]
    PROVE  c \in Entries /\ IF p \in known THEN Sound(c) /\ Armed(c) ELSE c = e[p]
<1>1. CASE p \in known
  <2>1. c = OnProfileChange(e[p], p, tokens[p]) /\ e[p] \in Entries /\ tokens[p] \in Held
    BY <1>1 DEF NotifyAll
  <2> QED
    BY <1>1, <2>1, ChangeSound
<1>2. CASE p \notin known
  BY <1>2 DEF NotifyAll
<1> QED
  BY <1>1, <1>2

\* The notification of every runtime leaves all entries fine.
LEMMA NotifyFine ==
    ASSUME Inv, NEW known \in SUBSET saved, NEW tokens \in [Profiles -> Held]
    PROVE  Fine(NotifyAll(conn, known, tokens))
<1> DEFINE f == NotifyAll(conn, known, tokens)
<1>0. conn \in [Profiles -> Entries] /\ Fine(conn)
  BY TypeOfInv
<1>1. ASSUME NEW p \in Profiles
      PROVE  /\ f[p] \in Entries
             /\ IF p \in tombstones THEN f[p] = conn[p]
                ELSE Sound(f[p]) /\ (p \in saved => Armed(f[p]))
  <2>1. Kept(p, conn[p])
    BY DEF Inv
  <2>2. p \in known => p \in saved /\ p \notin tombstones /\ Sound(conn[p]) /\ Armed(conn[p])
    BY <2>1 DEF Kept
  <2>3. f[p] \in Entries /\ IF p \in known THEN Sound(f[p]) /\ Armed(f[p]) ELSE f[p] = conn[p]
    BY <1>0, <2>2, NotifySound
  <2> QED
    BY <2>1, <2>2, <2>3 DEF Kept
<1>2. f = [p \in Profiles |-> f[p]]
  BY DEF NotifyAll
<1> HIDE DEF f
<1>3. f \in [Profiles -> Entries]
  BY <1>1, <1>2
<1>4. Fine(f)
  BY <1>1, <1>3 DEF Fine
<1> QED
  BY <1>4 DEF f

\* A step that changes the entries as Fine says and keeps the ambient
\* transport with its owner.
LEMMA FineStep ==
    ASSUME Inv, NEW f, Fine(f), conn' = f,
           tombstones' = tombstones, saved' \subseteq saved,
           stored' \in [Profiles -> Held], active' \in Profiles \union {NoProfile},
           ambient' \in (Profiles \union {NoProfile}) \X Nat, Owned',
           ops' \in 0 .. MaxOps, faults' \in 0 .. MaxFaults
    PROVE  Inv'
<1>1. TypeOK'
  <2>1. conn' \in [Profiles -> Entries]
    BY DEF Fine
  <2> QED
    BY <2>1, TypeOfInv DEF TypeOK, Entries, Generations, Held, Sockets, Checks
<1>2. ASSUME NEW p \in Profiles PROVE Kept(p, conn[p])'
  <2>1. Kept(p, conn[p])
    BY DEF Inv
  <2> QED
    BY <2>1 DEF Kept, Fine
<1> QED
  BY <1>1, <1>2 DEF Inv

\* The ambient transport stays or goes.
LEMMA AmbientKept ==
    ASSUME Inv, active' = active, ambient' \in {Idle, ambient}
    PROVE  /\ active' \in Profiles \union {NoProfile}
           /\ ambient' \in (Profiles \union {NoProfile}) \X Nat /\ Owned'
<1>1. Idle \in (Profiles \union {NoProfile}) \X Nat /\ Idle[1] = NoProfile
  BY DEF Idle
<1> QED
  BY <1>1, TypeOfInv DEF Inv, Owned

\* The operations of the user count.
LEMMA Counted ==
    ASSUME Inv
    PROVE  /\ ops \in 0 .. MaxOps /\ faults \in 0 .. MaxFaults
           /\ Op => ops' \in 0 .. MaxOps /\ ops' # ops
           /\ Fault => faults' \in 0 .. MaxFaults
BY ConnectionsAssumption DEF Inv, TypeOK, Op, Fault

\* What the user does with one profile keeps the invariant.
LEMMA UserKeeps ==
    ASSUME Inv, NEW p \in Profiles,
           \/ Connect(p) \/ Disconnect(p) \/ Logout(p)
           \/ \E token \in Tokens \union {NoToken} : SetAuthToken(p, token)
    PROVE  Inv'
<1>0. /\ conn \in [Profiles -> Entries] /\ Fine(conn) /\ Kept(p, conn[p]) /\ conn[p] \in Entries
      /\ stored \in [Profiles -> Held] /\ stored[p] \in Held
  BY TypeOfInv DEF Inv
<1>1. CASE Connect(p)
  <2> DEFINE c == ConnectProfile(conn[p], p, stored[p])
  <2>1. CASE p \in tombstones
    <3>1. c = conn[p]
      BY <2>1 DEF ConnectProfile
    <3>2. Fine(conn') /\ conn' = conn
      BY <1>0, <1>1, <3>1 DEF Connect
    <3> QED
      BY <1>0, <1>1, <3>2, FineStep, AmbientKept, Counted DEF Connect
  <2>2. CASE p \notin tombstones
    <3>1. Sound(conn[p])
      BY <1>0, <2>2 DEF Kept
    <3>2. c \in Entries /\ Sound(c) /\ (p \in saved => Armed(c))
      BY <1>0, <2>2, <3>1, ConnectSound DEF Armed
    <3>3. conn' = [conn EXCEPT ![p] = c]
      BY <1>1 DEF Connect
    <3> HIDE DEF c
    <3>4. Fine([conn EXCEPT ![p] = c])
      BY <1>0, <2>2, <3>2, FineExcept
    <3> QED
      BY <1>0, <1>1, <3>3, <3>4, FineStep, AmbientKept, Counted DEF Connect
  <2> QED
    BY <2>1, <2>2
<1>2. ASSUME NEW f, Fine(f)
      PROVE  Fine([f EXCEPT ![p] = DisconnectProfile(@)])
  <2> DEFINE c == DisconnectProfile(f[p])
  <2>1. f[p] \in Entries /\ IF p \in tombstones THEN f[p] = conn[p] ELSE Sound(f[p])
    BY <1>2 DEF Fine
  <2>2. CASE ~f[p].exists
    <3>1. c = f[p]
      BY <2>2 DEF DisconnectProfile
    <3>2. [f EXCEPT ![p] = c] = f
      BY <1>2, <3>1 DEF Fine
    <3> QED
      BY <1>2, <3>2
  <2>3. CASE f[p].exists
    <3>1. p \notin tombstones
      BY <1>0, <2>1, <2>3 DEF Kept, Gone
    <3>2. c \in Entries /\ Sound(c) /\ c.status = "disconnected"
      BY <2>1, <2>3, <3>1, DisconnectSound
    <3>3. Armed(c)
      BY <3>2 DEF Armed
    <3> HIDE DEF c
    <3>4. Fine([f EXCEPT ![p] = c])
      BY <1>2, <3>1, <3>2, <3>3, FineExcept
    <3> QED
      BY <3>4 DEF c
  <2> QED
    BY <2>2, <2>3
<1>3. CASE Disconnect(p)
  <2>1. ambient' \in {Idle, ambient}
    BY <1>3 DEF Disconnect, AmbientAfter
  <2>2. Fine([conn EXCEPT ![p] = DisconnectProfile(@)])
    BY <1>0, <1>2
  <2> QED
    BY <1>0, <1>3, <2>1, <2>2, FineStep, AmbientKept, Counted DEF Disconnect
<1>4. CASE Logout(p)
  <2>1. ambient' \in {Idle, ambient} /\ stored' = [stored EXCEPT ![p] = NoToken]
    BY <1>4 DEF Logout, AmbientAfter
  <2>2. stored' \in [Profiles -> Held]
    BY <1>0, <2>1 DEF Held
  <2>3. Fine(NotifyAll(conn, saved, stored'))
    BY <2>2, NotifyFine
  <2>4. Fine([NotifyAll(conn, saved, stored') EXCEPT ![p] = DisconnectProfile(@)])
    BY <2>3, <1>2
  <2> QED
    BY <1>4, <2>1, <2>2, <2>4, FineStep, AmbientKept, Counted DEF Logout
<1>5. ASSUME NEW token \in Tokens \union {NoToken}, SetAuthToken(p, token)
      PROVE  Inv'
  <2>1. ambient' \in {Idle, ambient} /\ stored' = [stored EXCEPT ![p] = token]
    BY <1>5 DEF SetAuthToken, AmbientAfter
  <2>2. stored' \in [Profiles -> Held]
    BY <1>0, <2>1 DEF Held
  <2>3. Fine(NotifyAll(conn, saved, stored'))
    BY <2>2, NotifyFine
  <2> QED
    BY <1>5, <2>1, <2>2, <2>3, FineStep, AmbientKept, Counted DEF SetAuthToken
<1> QED
  BY <1>1, <1>3, <1>4, <1>5

\* The ambient transport is that of the new active profile, or none.
LEMMA AmbientMoves ==
    ASSUME active' \in Profiles \union {NoProfile}, NEW n \in Nat, ambient' \in {Idle, <<active', n>>}
    PROVE  ambient' \in (Profiles \union {NoProfile}) \X Nat /\ Owned'
<1>1. CASE ambient' = Idle
  BY <1>1 DEF Idle, Owned
<1>2. CASE ambient' = <<active', n>>
  BY <1>2 DEF Owned
<1> QED
  BY <1>1, <1>2

\* So do the changes of the profile list.
LEMMA ListKeeps ==
    ASSUME Inv, NEW p \in Profiles,
           SetActiveProfile(p) \/ ForgottenElsewhere(p)
    PROVE  Inv'
<1>0. /\ conn \in [Profiles -> Entries] /\ Fine(conn)
      /\ stored \in [Profiles -> Held] /\ saved \subseteq Profiles
  BY TypeOfInv
<1>1. CASE SetActiveProfile(p)
  <2> DEFINE f == NotifyAll(conn, saved, stored)
  <2>1. Fine(f) /\ conn' = f /\ active' = p
    BY <1>0, <1>1, NotifyFine DEF SetActiveProfile
  <2> HIDE DEF f
  <2>2. conn'[p].tr \in Nat
    BY <2>1 DEF Fine, Entries
  <2>3. ambient' \in {Idle, <<active', conn'[p].tr>>}
    BY <1>1, <2>1 DEF SetActiveProfile
  <2>4. ambient' \in (Profiles \union {NoProfile}) \X Nat /\ Owned'
    BY <2>1, <2>2, <2>3, AmbientMoves
  <2> QED
    BY <1>0, <1>1, <2>1, <2>4, FineStep, Counted DEF SetActiveProfile
<1>2. CASE ForgottenElsewhere(p)
  <2> DEFINE f == NotifyAll(conn, saved', stored')
  <2>1. stored' = [stored EXCEPT ![p] = NoToken] /\ saved' = saved \ {p} /\ conn' = f
    BY <1>2 DEF ForgottenElsewhere
  <2>2. stored' \in [Profiles -> Held] /\ saved' \in SUBSET saved
    BY <1>0, <2>1 DEF Held
  <2>3. Fine(f)
    BY <2>2, NotifyFine
  <2> HIDE DEF f
  <2>4. /\ active' \in Profiles \union {NoProfile}
        /\ ambient' \in (Profiles \union {NoProfile}) \X Nat /\ Owned'
    <3>1. CASE active = p
      <4>1. /\ active' \in IF saved' = {} THEN {NoProfile} ELSE saved'
            /\ ambient' = IF active' # NoProfile /\ conn'[active'].status = "connected"
                            THEN <<active', conn'[active'].tr>> ELSE Idle
        BY <1>2, <3>1 DEF ForgottenElsewhere
      <4>2. active' \in Profiles \union {NoProfile}
        BY <4>1, <2>2, <1>0
      <4>3. CASE ambient' = Idle
        BY <4>2, <4>3, AmbientMoves
      <4>4. CASE ambient' # Idle
        <5>1. active' \in Profiles /\ ambient' = <<active', conn'[active'].tr>>
          BY <4>1, <4>2, <4>4
        <5>2. conn'[active'].tr \in Nat
          BY <5>1, <2>1, <2>3 DEF Fine, Entries
        <5> QED
          BY <4>2, <5>1, <5>2, AmbientMoves
      <4> QED
        BY <4>2, <4>3, <4>4
    <3>2. CASE active # p
      BY <1>2, <3>2, AmbientKept DEF ForgottenElsewhere, AmbientAfter
    <3> QED
      BY <3>1, <3>2
  <2> QED
    BY <1>2, <2>1, <2>2, <2>3, <2>4, FineStep, Counted DEF ForgottenElsewhere
<1> QED
  BY <1>1, <1>2

\* removeProfileConnection destroys the transport; the tombstone fences the
\* tasks that are left.
LEMMA RemoveKeeps ==
    ASSUME Inv, NEW p \in Profiles, RemoveProfile(p)
    PROVE  Inv'
<1> DEFINE known == saved \ {p}
           left == [NoEntry EXCEPT !.checks = conn[p].checks,
                                   !.sockets = DestroyTransport(conn[p]).sockets]
           gone == [conn EXCEPT ![p] = left]
           f == NotifyAll(gone, known, stored')
<1>0. /\ conn \in [Profiles -> Entries] /\ tombstones \subseteq Profiles
      /\ stored \in [Profiles -> Held] /\ saved \subseteq Profiles
      /\ Kept(p, conn[p]) /\ conn[p] \in Entries
  BY TypeOfInv DEF Inv
<1>1. /\ tombstones' = tombstones \union {p} /\ saved' = known /\ conn' = f
      /\ stored' = [stored EXCEPT ![p] = NoToken] /\ p \in saved
      /\ Op /\ faults' = faults
  BY DEF RemoveProfile
<1>2. stored' \in [Profiles -> Held]
  BY <1>0, <1>1 DEF Held
<1>3. left \in Entries /\ Gone(left)
  <2>1. Sound(conn[p])
    BY <1>0, <1>1 DEF Kept
  <2>2. DestroyTransport(conn[p]).sockets = {s \in conn[p].sockets : s.generation # conn[p].tr}
    BY <1>0 DEF DestroyTransport, Entries
  <2>3. {s \in conn[p].sockets : s.generation # conn[p].tr} = {}
    BY <2>1 DEF Sound, Running
  <2>4. left = [NoEntry EXCEPT !.checks = conn[p].checks, !.sockets = {}]
    BY <2>2, <2>3
  <2>5. /\ NoEntry \in Entries
        /\ ~NoEntry.exists /\ ~NoEntry.timer /\ ~NoEntry.wait
        /\ NoEntry.inflight = 0 /\ NoEntry.status = "disconnected"
    BY DEF NoEntry, Entries, Statuses
  <2> HIDE DEF left
  <2>6. left \in Entries
    <3>1. conn[p].checks \in SUBSET Checks /\ {} \in SUBSET Sockets /\ NoEntry \in Entries
      BY <1>0, <2>5 DEF Entries
    <3> QED
      BY <2>4, <3>1 DEF Entries
  <2>7. Gone(left)
    BY <2>4, <2>5 DEF Gone, Entries
  <2> QED
    BY <2>6, <2>7
<1> HIDE DEF left
<1>4. gone \in [Profiles -> Entries] /\ gone[p] = left /\ \A q \in Profiles \ {p} : gone[q] = conn[q]
  BY <1>0, <1>3
<1> HIDE DEF gone
<1>5. ASSUME NEW q \in Profiles
      PROVE  f[q] \in Entries /\ Kept(q, conn[q])'
  <2>1. Kept(q, conn[q])
    BY DEF Inv
  <2>2. q \in known => q \notin tombstones /\ Sound(gone[q]) /\ Armed(gone[q])
    BY <1>4, <2>1 DEF Kept
  <2>3. f[q] \in Entries /\ IF q \in known THEN Sound(f[q]) /\ Armed(f[q]) ELSE f[q] = gone[q]
    BY <1>2, <1>4, <2>2, NotifySound
  <2> HIDE DEF f
  <2>4. CASE q = p
    BY <1>1, <1>3, <1>4, <2>3, <2>4 DEF Kept
  <2>5. CASE q # p
    BY <1>1, <1>4, <2>1, <2>3, <2>5 DEF Kept
  <2> QED
    BY <2>3, <2>4, <2>5
<1>6. f = [q \in Profiles |-> f[q]]
  BY DEF NotifyAll
<1> HIDE DEF f
<1>7. conn' \in [Profiles -> Entries]
  BY <1>1, <1>5, <1>6
<1>8. /\ active' \in Profiles \union {NoProfile}
      /\ ambient' \in (Profiles \union {NoProfile}) \X Nat /\ Owned'
  <2>1. CASE active = p
    <3>1. /\ active' \in IF known = {} THEN {NoProfile} ELSE known
          /\ ambient' = IF active' # NoProfile /\ conn'[active'].status = "connected"
                          THEN <<active', conn'[active'].tr>> ELSE Idle
      BY <2>1 DEF RemoveProfile
    <3>2. active' \in Profiles \union {NoProfile}
      BY <3>1, <1>0
    <3>3. CASE ambient' = Idle
      BY <3>2, <3>3, AmbientMoves
    <3>4. CASE ambient' # Idle
      <4>1. active' \in Profiles /\ ambient' = <<active', conn'[active'].tr>>
        BY <3>1, <3>2, <3>4
      <4>2. conn'[active'].tr \in Nat
        BY <4>1, <1>7 DEF Entries
      <4> QED
        BY <3>2, <4>1, <4>2, AmbientMoves
    <3> QED
      BY <3>2, <3>3, <3>4
  <2>2. CASE active # p
    BY <2>2, AmbientKept DEF RemoveProfile, AmbientAfter
  <2> QED
    BY <2>1, <2>2
<1>9. TypeOK'
  <2>1. tombstones' \subseteq Profiles /\ saved' \subseteq Profiles
    BY <1>0, <1>1
  <2>2. ops' \in 0 .. MaxOps /\ faults' \in 0 .. MaxFaults
    BY <1>1, Counted
  <2> QED
    BY <1>2, <1>7, <1>8, <2>1, <2>2 DEF TypeOK, Entries, Generations, Held, Sockets, Checks
<1> QED
  BY <1>5, <1>8, <1>9 DEF Inv

\* What is known of an entry whose connect is answered.
LEMMA Answered ==
    ASSUME NEW c \in Entries, Sound(c), NEW p \in Profiles,
           NEW k \in c.checks, ~IsStale(c, p, k.generation)
    PROVE  /\ k.generation = c.generation /\ c.exists /\ c.intent /\ c.status = "connecting"
           /\ c.tr = 0 /\ c.sockets = {} /\ c.wait = FALSE /\ c.inflight = c.generation
           /\ c.generation # 0 /\ c.generation \in Nat /\ k \in Checks
           /\ \A l \in c.checks \ {k} : l.generation <= c.generation /\ l.generation # c.generation
<1>1. /\ k.generation = c.generation /\ c.exists /\ c.intent /\ c.status = "connecting" /\ c.tr = 0
      /\ c.sockets = {} /\ c.wait = FALSE /\ c.inflight = c.generation /\ c.generation # 0
      /\ c.generation \in Nat /\ k \in Checks
  BY DEF IsStale, Sound, Running, Connecting, Entries
<1>2. \A l \in c.checks \ {k} : l.generation <= c.generation /\ l.generation # c.generation
  BY <1>1 DEF Sound, Connecting
<1> QED
  BY <1>1, <1>2

\* The connect that the server accepts.
LEMMA OpenSound ==
    ASSUME NEW c \in Entries, Sound(c), NEW p \in Profiles,
           NEW k \in c.checks, ~IsStale(c, p, k.generation)
    PROVE  /\ OpenTransport(c, k) \in Entries /\ Sound(OpenTransport(c, k))
           /\ OpenTransport(c, k).status = "connecting"
<1>1. /\ k.generation = c.generation /\ c.exists /\ c.intent /\ c.status = "connecting"
      /\ c.tr = 0 /\ c.sockets = {} /\ c.wait = FALSE /\ c.inflight = c.generation
      /\ c.generation # 0 /\ c.generation \in Nat /\ k \in Checks
      /\ \A l \in c.checks \ {k} : l.generation <= c.generation /\ l.generation # c.generation
  BY Answered, ZenonT(60)
<1> DEFINE n == [generation |-> k.generation, token |-> k.token, ws |-> "connecting"]
           d == [c EXCEPT !.checks = @ \ {k}, !.tr = k.generation, !.wait = TRUE,
                          !.sockets = @ \union {n}]
<1>2. n \in Sockets /\ n.generation = c.generation
  BY <1>1 DEF Sockets, Checks
<1> HIDE DEF n
<1>3. c.checks \ {k} \in SUBSET Checks /\ c.sockets \union {n} \in SUBSET Sockets
  BY <1>2 DEF Entries
<1>4. d \in Entries
  BY <1>1, <1>3 DEF Entries
<1>5. /\ d.checks = c.checks \ {k} /\ d.tr = k.generation /\ d.wait = TRUE
      /\ d.sockets = c.sockets \union {n} /\ d.exists = c.exists /\ d.intent = c.intent
      /\ d.generation = c.generation /\ d.status = c.status /\ d.inflight = c.inflight
  BY <1>1 DEF Entries
<1> HIDE DEF d
<1>6. Running(d)
  BY <1>1, <1>2, <1>5 DEF Running
<1>7. Connecting(d)
  BY <1>1, <1>5 DEF Connecting
<1>8. OpenTransport(c, k) = d
  BY DEF OpenTransport, d, n
<1> QED
  BY <1>1, <1>4, <1>5, <1>6, <1>7, <1>8 DEF Sound

\* The connect that the server refuses, or that does not reach it.
LEMMA RefusedSound ==
    ASSUME NEW c \in Entries, Sound(c), NEW p \in Profiles,
           NEW k \in c.checks, ~IsStale(c, p, k.generation),
           NEW d \in Entries, d.checks = c.checks \ {k}, d.inflight = 0, d.tr = c.tr,
           d.sockets = c.sockets, d.wait = c.wait, d.generation = c.generation,
           d.status # "connecting"
    PROVE  Sound(d)
<1>1. /\ c.tr = 0 /\ c.sockets = {} /\ c.wait = FALSE /\ c.generation # 0
      /\ \A l \in c.checks \ {k} : l.generation <= c.generation /\ l.generation # c.generation
  BY Answered
<1>2. Running(d) /\ Connecting(d)
  BY <1>1 DEF Running, Connecting
<1> QED
  BY <1>1, <1>2 DEF Sound

\* Timers and answers.
LEMMA ProgressKeeps ==
    ASSUME Inv, NEW p \in Profiles, Progress(p)
    PROVE  Inv'
<1>0. /\ conn \in [Profiles -> Entries] /\ Fine(conn) /\ Kept(p, conn[p]) /\ conn[p] \in Entries
      /\ stored \in [Profiles -> Held] /\ stored[p] \in Held
  BY TypeOfInv DEF Inv
<1>1. ASSUME NEW c \in Entries, conn' = [conn EXCEPT ![p] = c],
             IF p \in tombstones THEN c = conn[p] ELSE Sound(c) /\ (p \in saved => Armed(c)),
             active' \in Profiles \union {NoProfile},
             ambient' \in (Profiles \union {NoProfile}) \X Nat, Owned',
             UNCHANGED <<tombstones, saved, stored, ops, faults>>
      PROVE  Inv'
  <2>1. Fine([conn EXCEPT ![p] = c])
    BY <1>0, <1>1, FineExcept
  <2> QED
    BY <1>0, <1>1, <2>1, FineStep, Counted
<1>2. CASE ReconnectTimer(p)
  <2> DEFINE c == [conn[p] EXCEPT !.timer = FALSE]
             d == IF c.intent THEN ConnectProfile(c, p, stored[p]) ELSE c
  <2>1. p \notin tombstones /\ Sound(conn[p])
    BY <1>0, <1>2 DEF ReconnectTimer, Kept, Gone
  <2>2. /\ c \in Entries /\ c.intent = conn[p].intent
        /\ c.status = conn[p].status /\ c.exists = conn[p].exists
        /\ c.generation = conn[p].generation /\ c.tr = conn[p].tr /\ c.sockets = conn[p].sockets
        /\ c.checks = conn[p].checks /\ c.wait = conn[p].wait /\ c.inflight = conn[p].inflight
    BY <1>0 DEF Entries
  <2>3. conn' = [conn EXCEPT ![p] = d]
    BY <1>2 DEF ReconnectTimer
  <2> HIDE DEF c
  <2>4. Sound(c)
    BY <2>1, <2>2 DEF Sound, Running, Connecting
  <2>5. d \in Entries /\ Sound(d) /\ (p \in saved => Armed(d))
    <3>1. CASE c.intent
      BY <1>0, <2>1, <2>2, <2>4, <3>1, ConnectSound DEF Armed
    <3>2. CASE ~c.intent
      BY <2>2, <2>4, <3>2 DEF Armed
    <3> QED
      BY <3>1, <3>2
  <2> HIDE DEF d
  <2> QED
    BY <1>1, <1>2, <2>1, <2>3, <2>5, AmbientKept DEF ReconnectTimer
<1>3. CASE CheckStale(p)
  <2>1. PICK k \in conn[p].checks : /\ IsStale(conn[p], p, k.generation)
                                    /\ conn' = [conn EXCEPT ![p] = EndCheck(@, k)]
    BY <1>3 DEF CheckStale
  <2> DEFINE c == conn[p]
             d == EndCheck(c, k)
  <2>2. conn' = [conn EXCEPT ![p] = d]
    BY <2>1
  <2>3. c.inflight \in Nat /\ k \in Checks /\ k.generation \in Nat
    BY <1>0 DEF Entries, Checks
  <2>4. c.checks \ {k} \in SUBSET Checks
    BY <1>0 DEF Entries
  <2>5. /\ d.checks = c.checks \ {k} /\ d.exists = c.exists
        /\ d.intent = c.intent /\ d.timer = c.timer /\ d.status = c.status
        /\ d.tr = c.tr /\ d.sockets = c.sockets /\ d.wait = c.wait /\ d.generation = c.generation
        /\ d.inflight = IF c.inflight = k.generation THEN 0 ELSE c.inflight
    BY <1>0 DEF EndCheck, Entries
  <2>6. d \in Entries
    <3>1. d = [c EXCEPT !.checks = c.checks \ {k},
                        !.inflight = IF c.inflight = k.generation THEN 0 ELSE c.inflight]
      BY DEF EndCheck
    <3>2. (IF c.inflight = k.generation THEN 0 ELSE c.inflight) \in Nat
      BY <2>3
    <3> QED
      BY <1>0, <2>4, <3>1, <3>2 DEF Entries
  <2>7. CASE p \in tombstones
    <3>1. Gone(c)
      BY <1>0, <2>7 DEF Kept
    <3>2. Gone(d)
      BY <2>5, <3>1 DEF Gone
    <3>3. tombstones' = tombstones /\ saved' = saved
      BY <1>3 DEF CheckStale
    <3>4. conn' \in [Profiles -> Entries]
      BY <1>0, <2>2, <2>6
    <3>5. TypeOK'
      BY <1>0, <1>3, <3>4, TypeOfInv, Counted
      DEF CheckStale, TypeOK, Entries, Generations, Held, Sockets, Checks
    <3>6. ASSUME NEW q \in Profiles PROVE Kept(q, conn[q])'
      <4>1. conn'[q] = IF q = p THEN d ELSE conn[q]
        BY <1>0, <2>2
      <4>2. Kept(q, conn[q])
        BY DEF Inv
      <4> QED
        BY <4>1, <4>2, <2>7, <3>2, <3>3 DEF Kept
    <3>7. Owned'
      BY <1>3, AmbientKept DEF CheckStale
    <3> QED
      BY <3>5, <3>6, <3>7 DEF Inv
  <2>8. CASE p \notin tombstones
    <3>1. Sound(c) /\ (p \in saved => Armed(c))
      BY <1>0, <2>8 DEF Kept
    <3>2. k.generation # c.generation
      BY <2>1, <2>8, <3>1 DEF IsStale, Sound, Connecting
    <3>3. d.inflight = c.inflight
      BY <2>5, <3>1, <3>2 DEF Sound, Connecting
    <3> HIDE DEF d, c
    <3>4. Running(d)
      BY <2>5, <3>1 DEF Sound, Running
    <3>5. Connecting(d)
      BY <2>5, <3>1, <3>2, <3>3 DEF Sound, Connecting
    <3>6. Sound(d) /\ (p \in saved => Armed(d))
      BY <2>5, <3>1, <3>4, <3>5 DEF Sound, Armed
    <3> QED
      BY <1>1, <1>3, <2>2, <2>6, <2>8, <3>6, AmbientKept DEF CheckStale
  <2> QED
    BY <2>7, <2>8
<1>4. CASE CheckPasses(p)
  <2>1. PICK k \in conn[p].checks : /\ ~IsStale(conn[p], p, k.generation)
                                    /\ conn' = [conn EXCEPT ![p] = OpenTransport(@, k)]
    BY <1>4 DEF CheckPasses
  <2>2. p \notin tombstones /\ Sound(conn[p])
    BY <1>0, <2>1 DEF IsStale, Kept
  <2> DEFINE d == OpenTransport(conn[p], k)
  <2>3. d \in Entries /\ Sound(d) /\ d.status = "connecting"
    BY <1>0, <2>1, <2>2, OpenSound
  <2>4. conn' = [conn EXCEPT ![p] = d] /\ Armed(d)
    BY <2>1, <2>3 DEF Armed
  <2> HIDE DEF d
  <2> QED
    BY <1>1, <1>4, <2>2, <2>3, <2>4, AmbientKept DEF CheckPasses
<1>5. CASE WsOpen(p)
  <2> DEFINE c == conn[p]
  <2>1. PICK s \in c.sockets :
          LET opened == [c EXCEPT !.sockets = (@ \ {s}) \union {[s EXCEPT !.ws = "open"]}]
          IN  /\ s.ws = "connecting"
              /\ IF IsStale(c, p, s.generation)
                   THEN conn' = [conn EXCEPT ![p] = opened] /\ UNCHANGED ambient
                   ELSE /\ conn' = [conn EXCEPT ![p] =
                                      [SettleConnect(opened) EXCEPT !.status = "connected"]]
                        /\ ambient' = InstallAmbient(p, s.generation)
    BY <1>5 DEF WsOpen
  <2>2. p \notin tombstones /\ Sound(c)
    BY <1>0 DEF Kept, Gone
  <2>3. /\ s.generation = c.tr /\ c.tr # 0 /\ c.exists /\ c.intent /\ c.tr = c.generation
        /\ c.status = "connected" \/ c.wait
        /\ s \in Sockets /\ s.generation \in Nat
    BY <1>0, <2>2 DEF Sound, Running, Entries, Sockets
  <2>4. ~IsStale(c, p, s.generation)
    BY <2>2, <2>3 DEF IsStale
  <2> DEFINE n == [s EXCEPT !.ws = "open"]
             opened == [c EXCEPT !.sockets = (c.sockets \ {s}) \union {n}]
             e == SettleConnect(opened)
             d == [e EXCEPT !.status = "connected"]
  <2>5. conn' = [conn EXCEPT ![p] = d] /\ ambient' = InstallAmbient(p, s.generation)
    BY <2>1, <2>4
  <2>6. n \in Sockets /\ n.generation = s.generation
    BY <2>3 DEF Sockets
  <2> HIDE DEF n
  <2>7. /\ opened \in Entries /\ opened.sockets = (c.sockets \ {s}) \union {n}
        /\ opened.tr = c.tr /\ opened.exists = c.exists /\ opened.intent = c.intent
        /\ opened.generation = c.generation /\ opened.status = c.status
        /\ opened.wait = c.wait /\ opened.inflight = c.inflight /\ opened.checks = c.checks
    <3>1. (c.sockets \ {s}) \union {n} \in SUBSET Sockets
      BY <1>0, <2>6 DEF Entries
    <3> QED
      BY <1>0, <3>1 DEF Entries
  <2> HIDE DEF opened
  <2>8. /\ e \in Entries /\ e.sockets = opened.sockets
        /\ e.tr = opened.tr /\ e.exists = opened.exists /\ e.intent = opened.intent
        /\ e.generation = opened.generation
        /\ e.wait = FALSE /\ e.checks = opened.checks
        /\ e.inflight = IF opened.wait THEN 0 ELSE opened.inflight
    <3>1. CASE opened.wait
      BY <2>7, <3>1 DEF SettleConnect, Entries
    <3>2. CASE ~opened.wait
      BY <2>7, <3>2 DEF SettleConnect, Entries
    <3> QED
      BY <3>1, <3>2
  <2> HIDE DEF e
  <2>9. /\ d \in Entries /\ d.sockets = e.sockets /\ d.tr = e.tr /\ d.exists = e.exists
        /\ d.intent = e.intent /\ d.generation = e.generation /\ d.wait = e.wait
        /\ d.checks = e.checks /\ d.inflight = e.inflight /\ d.status = "connected"
    <3>1. "connected" \in Statuses
      BY DEF Statuses
    <3> QED
      BY <2>8, <3>1 DEF Entries
  <2> HIDE DEF d, c
  <2>10. d.inflight = 0
    BY <2>2, <2>3, <2>7, <2>8, <2>9 DEF Sound, Connecting
  <2>11. Running(d)
    BY <2>2, <2>3, <2>6, <2>7, <2>8, <2>9 DEF Sound, Running
  <2>12. Connecting(d)
    BY <2>2, <2>3, <2>7, <2>8, <2>9, <2>10 DEF Sound, Connecting
  <2>13. Sound(d) /\ Armed(d)
    BY <2>2, <2>7, <2>8, <2>9, <2>11, <2>12 DEF Sound, Armed
  <2>14. active' = active /\ UNCHANGED <<tombstones, saved, stored, ops, faults>>
    BY <1>5 DEF WsOpen
  <2>15. /\ active' \in Profiles \union {NoProfile}
         /\ ambient' \in (Profiles \union {NoProfile}) \X Nat /\ Owned'
    <3>1. CASE active \in {NoProfile, p}
      <4>1. ambient' = <<p, s.generation>> /\ ambient'[1] = p
        BY <2>5, <3>1 DEF InstallAmbient
      <4>2. active' \in Profiles \union {NoProfile} /\ ambient' \in (Profiles \union {NoProfile}) \X Nat
        BY <2>3, <2>14, <4>1, TypeOfInv
      <4> QED
        BY <2>14, <3>1, <4>1, <4>2 DEF Owned
    <3>2. CASE active \notin {NoProfile, p}
      BY <2>5, <2>14, <3>2, AmbientKept DEF InstallAmbient
    <3> QED
      BY <3>1, <3>2
  <2> QED
    BY <1>1, <2>2, <2>5, <2>9, <2>13, <2>14, <2>15
<1> QED
  BY <1>2, <1>3, <1>4, <1>5 DEF Progress

\* Refusals, losses and timeouts.
LEMMA FaultKeeps ==
    ASSUME Inv, NEW p \in Profiles, CheckFails(p) \/ Drop(p) \/ ConnectTimeout(p)
    PROVE  Inv'
<1>0. /\ conn \in [Profiles -> Entries] /\ Fine(conn) /\ Kept(p, conn[p]) /\ conn[p] \in Entries
      /\ stored \in [Profiles -> Held] /\ stored[p] \in Held
  BY TypeOfInv DEF Inv
<1>1. ASSUME NEW c \in Entries, p \notin tombstones, Sound(c), p \in saved => Armed(c),
             NEW f, conn' = [f EXCEPT ![p] = c],
             f = conn \/ f = NotifyAll(conn, saved, stored'),
             stored' = stored \/ stored' = [stored EXCEPT ![p] = NoToken],
             active' = active, ambient' \in {Idle, ambient},
             UNCHANGED <<tombstones, saved, ops>>, Fault
      PROVE  Inv'
  <2>1. stored' \in [Profiles -> Held]
    BY <1>0, <1>1 DEF Held
  <2>2. Fine(f)
    BY <1>0, <1>1, <2>1, NotifyFine
  <2>3. Fine([f EXCEPT ![p] = c])
    BY <1>1, <2>2, FineExcept
  <2> QED
    BY <1>1, <2>1, <2>3, FineStep, AmbientKept, Counted
<1>2. CASE CheckFails(p)
  <2>1. PICK k \in conn[p].checks, answer \in {"mfa", "expired", "refused", "protocol", "network"} :
          LET c == EndCheck(conn[p], k)
              next == CASE answer = "mfa" -> [c EXCEPT !.status = "mfa-required"]
                        [] answer \in {"expired", "refused"} ->
                              [c EXCEPT !.status = "login-required"]
                        [] answer = "protocol" ->
                              [c EXCEPT !.status = "unsupported", !.intent = FALSE]
                        [] answer = "network" ->
                              ScheduleReconnect([c EXCEPT !.status = "offline"])
          IN
          /\ ~IsStale(conn[p], p, k.generation)
          /\ Fault
          /\ stored' = IF answer = "expired" THEN [stored EXCEPT ![p] = NoToken] ELSE stored
          /\ conn' = IF answer = "expired"
                       THEN [NotifyAll(conn, saved, stored') EXCEPT ![p] = next]
                       ELSE [conn EXCEPT ![p] = next]
          /\ ambient' = AmbientAfter(Dropped(conn, conn'))
          /\ UNCHANGED <<tombstones, saved, active, ops>>
    BY <1>2 DEF CheckFails
  <2> DEFINE e == EndCheck(conn[p], k)
             d == CASE answer = "mfa" -> [e EXCEPT !.status = "mfa-required"]
                    [] answer \in {"expired", "refused"} -> [e EXCEPT !.status = "login-required"]
                    [] answer = "protocol" -> [e EXCEPT !.status = "unsupported", !.intent = FALSE]
                    [] answer = "network" -> ScheduleReconnect([e EXCEPT !.status = "offline"])
  <2>2. ~IsStale(conn[p], p, k.generation)
    BY <2>1
  <2>3. p \notin tombstones /\ Sound(conn[p])
    BY <1>0, <2>2 DEF IsStale, Kept
  <2>5. /\ Fault /\ ambient' \in {Idle, ambient}
        /\ UNCHANGED <<tombstones, saved, active, ops>>
        /\ stored' \in {stored, [stored EXCEPT ![p] = NoToken]}
        /\ conn' \in {[NotifyAll(conn, saved, stored') EXCEPT ![p] = d], [conn EXCEPT ![p] = d]}
    BY <2>1 DEF AmbientAfter
  <2>4. e \in Entries
    <3>1. /\ conn[p].checks \ {k} \in SUBSET Checks /\ 0 \in Nat /\ conn[p].inflight \in Nat
      BY <1>0 DEF Entries
    <3>2. (IF conn[p].inflight = k.generation THEN 0 ELSE conn[p].inflight) \in Nat
      BY <3>1
    <3> QED
      BY <1>0, <3>1, <3>2 DEF Entries, EndCheck
  <2>6. e.intent \in BOOLEAN /\ e.timer \in BOOLEAN
    BY <2>4 DEF Entries
  <2>7. {"mfa-required", "login-required", "unsupported", "offline"} \subseteq Statuses \ {"connecting"}
    BY DEF Statuses, AuthStates
  <2>8. d \in Entries /\ Sound(d) /\ (d.status = "offline" /\ d.intent => d.timer)
    <3> HIDE DEF d
    <3>1. ASSUME d \in Entries, d.checks = e.checks, d.inflight = e.inflight, d.tr = e.tr,
                 d.sockets = e.sockets, d.wait = e.wait, d.generation = e.generation,
                 d.status # "connecting"
          PROVE  Sound(d)
      <4>1. k.generation = conn[p].inflight
        BY <2>2, <2>3 DEF IsStale, Sound, Running, Connecting
      <4>2. /\ e.checks = conn[p].checks \ {k} /\ e.inflight = 0 /\ e.tr = conn[p].tr
            /\ e.sockets = conn[p].sockets /\ e.wait = conn[p].wait
            /\ e.generation = conn[p].generation
        BY <1>0, <4>1 DEF EndCheck, Entries
      <4> HIDE DEF e
      <4> QED
        BY <1>0, <2>2, <2>3, <3>1, <4>2, RefusedSound
    <3> HIDE DEF e
    <3>2. CASE answer \in {"mfa", "expired", "refused"}
      <4>1. PICK m \in {"mfa-required", "login-required"} : d = [e EXCEPT !.status = m]
        BY <3>2 DEF d
      <4>2. m \in Statuses /\ m # "connecting" /\ m # "offline"
        BY <2>7
      <4>3. /\ d \in Entries /\ d.checks = e.checks /\ d.inflight = e.inflight /\ d.tr = e.tr
            /\ d.sockets = e.sockets /\ d.wait = e.wait /\ d.generation = e.generation
            /\ d.status = m
        BY <2>4, <4>1, <4>2 DEF Entries
      <4> QED
        BY <3>1, <4>2, <4>3
    <3>3. CASE answer = "protocol"
      <4>1. d = [e EXCEPT !.status = "unsupported", !.intent = FALSE] /\ "unsupported" \in Statuses
        BY <2>7, <3>3 DEF d
      <4>2. /\ d \in Entries /\ d.checks = e.checks /\ d.inflight = e.inflight /\ d.tr = e.tr
            /\ d.sockets = e.sockets /\ d.wait = e.wait /\ d.generation = e.generation
            /\ d.status = "unsupported"
        BY <2>4, <4>1 DEF Entries
      <4> QED
        BY <3>1, <4>2
    <3>4. CASE answer = "network"
      <4> DEFINE g == [e EXCEPT !.status = "offline"]
      <4>1. /\ g \in Entries /\ g.checks = e.checks /\ g.inflight = e.inflight /\ g.tr = e.tr
            /\ g.sockets = e.sockets /\ g.wait = e.wait /\ g.generation = e.generation
            /\ g.status = "offline" /\ g.intent = e.intent
        <5>1. "offline" \in Statuses
          BY <2>7
        <5> QED
          BY <2>4, <5>1 DEF Entries
      <4>2. d = IF g.intent THEN [g EXCEPT !.timer = TRUE] ELSE g
        BY <3>4 DEF d, ScheduleReconnect
      <4> HIDE DEF g
      <4>3. /\ d \in Entries /\ d.checks = g.checks /\ d.inflight = g.inflight /\ d.tr = g.tr
            /\ d.sockets = g.sockets /\ d.wait = g.wait /\ d.generation = g.generation
            /\ d.status = g.status /\ (d.intent => d.timer)
        <5>1. CASE g.intent
          BY <4>1, <4>2, <5>1 DEF Entries
        <5>2. CASE ~g.intent
          BY <4>1, <4>2, <5>2
        <5> QED
          BY <5>1, <5>2
      <4> QED
        BY <3>1, <4>1, <4>3
    <3> QED
      BY <3>2, <3>3, <3>4
  <2> HIDE DEF d
  <2>9. Armed(d)
    BY <2>8 DEF Armed
  <2> QED
    BY <1>1, <2>3, <2>5, <2>8, <2>9
<1>3. CASE Drop(p)
  <2>1. PICK s \in conn[p].sockets, code \in {"lost", "mfa", "auth"} :
          LET current == ~IsStale(conn[p], p, s.generation)
          IN
          /\ Fault
          /\ stored' = IF current /\ code = "auth"
                         THEN [stored EXCEPT ![p] = NoToken] ELSE stored
          /\ conn' = [(IF stored' = stored THEN conn ELSE NotifyAll(conn, saved, stored'))
                        EXCEPT ![p] =
                        IF current THEN HandleDrop(conn[p], p, s.generation, code)
                        ELSE [conn[p] EXCEPT !.sockets =
                                (@ \ {s}) \union {[s EXCEPT !.ws = "closed"]}]]
          /\ ambient' = AmbientAfter(Dropped(conn, [conn' EXCEPT ![p] = conn[p]]))
          /\ UNCHANGED <<tombstones, saved, active, ops>>
    BY <1>3 DEF Drop
  <2>2. p \notin tombstones /\ Sound(conn[p])
    BY <1>0 DEF Kept, Gone
  <2>3. s.generation = conn[p].generation /\ conn[p].tr # 0 /\ conn[p].exists
    BY <2>2 DEF Sound, Running
  <2>4. ~IsStale(conn[p], p, s.generation)
    BY <2>2, <2>3 DEF IsStale
  <2> DEFINE d == HandleDrop(conn[p], p, conn[p].generation, code)
             f == IF stored' = stored THEN conn ELSE NotifyAll(conn, saved, stored')
  <2>5. d \in Entries /\ Sound(d) /\ Armed(d)
    BY <1>0, <2>2, <2>3, <2>4, DropSound
  <2>6. /\ Fault /\ ambient' \in {Idle, ambient}
        /\ UNCHANGED <<tombstones, saved, active, ops>>
        /\ stored' \in {stored, [stored EXCEPT ![p] = NoToken]}
        /\ conn' = [f EXCEPT ![p] = d]
    BY <2>1, <2>3, <2>4 DEF AmbientAfter
  <2>7. f = conn \/ f = NotifyAll(conn, saved, stored')
    OBVIOUS
  <2> HIDE DEF d, f
  <2> QED
    BY <1>1, <2>2, <2>5, <2>6, <2>7
<1>4. CASE ConnectTimeout(p)
  <2> DEFINE c == conn[p]
             d == HandleDrop(c, p, c.generation, "lost")
  <2>1. p \notin tombstones /\ Sound(c) /\ c.tr # 0 /\ c.exists /\ c.status = "connecting"
    BY <1>0, <1>4 DEF ConnectTimeout, Kept, Gone, Sound, Running
  <2>2. ~IsStale(c, p, c.generation)
    BY <2>1 DEF IsStale
  <2>3. d \in Entries /\ Sound(d) /\ Armed(d)
    BY <1>0, <2>1, <2>2, DropSound
  <2>4. conn' = [conn EXCEPT ![p] = d]
    BY <1>4, <2>1 DEF ConnectTimeout
  <2> HIDE DEF d
  <2> QED
    BY <1>1, <1>4, <2>1, <2>3, <2>4 DEF ConnectTimeout
<1> QED
  BY <1>2, <1>3, <1>4

\* The invariant holds always.
LEMMA InvIsInductive == Spec => []Inv
<1>1. Init => Inv
  <2> SUFFICES ASSUME Init PROVE Inv
    OBVIOUS
  <2>1. NoEntry \in Entries /\ NoEntry.generation # 0 /\ Running(NoEntry) /\ Connecting(NoEntry)
        /\ Armed(NoEntry)
    <3>1. NoEntry \in Entries
      BY DEF NoEntry, Entries, Statuses
    <3> QED
      BY <3>1 DEF NoEntry, Running, Connecting, Armed
  <2>2. conn \in [Profiles -> Entries]
    BY <2>1 DEF Init
  <2>3. TypeOK
    <3>1. ambient \in (Profiles \union {NoProfile}) \X Nat
      BY DEF Init, Idle
    <3>2. ops \in 0 .. MaxOps /\ faults \in 0 .. MaxFaults
      BY ConnectionsAssumption DEF Init
    <3> QED
      BY <2>2, <3>1, <3>2 DEF Init, TypeOK, Entries, Generations, Held, Sockets, Checks
  <2>4. \A p \in Profiles : Kept(p, conn[p])
    BY <2>1 DEF Init, Kept, Sound
  <2>5. Owned
    BY DEF Init, Owned, Idle
  <2> QED
    BY <2>3, <2>4, <2>5 DEF Inv
<1>2. Inv /\ [Next]_vars => Inv'
  <2> SUFFICES ASSUME Inv, [Next]_vars PROVE Inv'
    OBVIOUS
  <2>1. CASE UNCHANGED vars
    BY <2>1 DEF vars, Inv, TypeOK, Kept, Owned
  <2>2. ASSUME NEW p \in Profiles,
               \/ Connect(p) \/ Disconnect(p) \/ Logout(p)
               \/ \E token \in Tokens \union {NoToken} : SetAuthToken(p, token)
        PROVE  Inv'
    BY <2>2, UserKeeps
  <2>3. ASSUME NEW p \in Profiles, SetActiveProfile(p) \/ ForgottenElsewhere(p) \/ RemoveProfile(p)
        PROVE  Inv'
    BY <2>3, ListKeeps, RemoveKeeps
  <2>4. ASSUME NEW p \in Profiles, Progress(p) \/ CheckFails(p) \/ Drop(p) \/ ConnectTimeout(p)
        PROVE  Inv'
    BY <2>4, ProgressKeeps, FaultKeeps
  <2> QED
    BY <2>1, <2>2, <2>3, <2>4 DEF Next, User
<1> QED
  BY <1>1, <1>2, PTL DEF Spec

(***************************************************************************)
(* Whatever connects, drops, token changes, removals and late answers      *)
(* overlap (connections.ts): a profile has at most the transport of its    *)
(* current generation, a lost connection that is wanted has its timer and  *)
(* one that is being made has a task, and the ambient transport never      *)
(* belongs to a profile that is not the active one.                        *)
(***************************************************************************)
THEOREM RegistryIsSound == Spec => []RegistrySound
<1>1. Inv => RegistrySound
  <2> SUFFICES ASSUME Inv PROVE RegistrySound
    OBVIOUS
  <2>1. TypeOK /\ \A p \in Profiles : Kept(p, conn[p])
    BY DEF Inv
  <2>2. OneRuntime
    BY <2>1 DEF OneRuntime, Kept, Gone, Sound, Running
  <2>3. RetryArmed
    BY <2>1, TypeOfInv DEF RetryArmed, Kept, Sound, Connecting, Armed
  <2>4. AmbientIsActive
    <3> SUFFICES ASSUME NEW p \in Profiles \ {active}, active # NoProfile,
                        NEW s \in conn[p].sockets, ambient = <<p, s.generation>>
                 PROVE  FALSE
      BY DEF AmbientIsActive
    <3>1. ambient[1] = p
      OBVIOUS
    <3> QED
      BY <3>1, ConnectionsAssumption DEF Inv, Owned
  <2> QED
    BY <2>1, <2>2, <2>3, <2>4 DEF RegistrySound
<1> QED
  BY <1>1, InvIsInductive, PTL

(***************************************************************************)
(* An answer that declares a session expired takes the token of the        *)
(* profile only while the task or the transport it answers is the current  *)
(* one (isStale in performConnectProfile and handleDrop): a token stored   *)
(* by a later login is never taken away by an earlier connection.          *)
(***************************************************************************)
THEOREM StaleClearsNothing == Spec => StaleNeverClearsToken
<1>1. Inv /\ [Next]_vars =>
        [\A p \in Profiles :
            stored[p] # NoToken /\ stored'[p] = NoToken /\ ops' = ops =>
                \/ \E k \in conn[p].checks : k.generation = conn[p].generation
                \/ \E s \in conn[p].sockets : s.generation = conn[p].generation]_vars
  <2> SUFFICES ASSUME Inv, Next, ops' = ops,
                      NEW p \in Profiles, stored[p] # NoToken, stored'[p] = NoToken
               PROVE  \/ \E k \in conn[p].checks : k.generation = conn[p].generation
                      \/ \E s \in conn[p].sockets : s.generation = conn[p].generation
    OBVIOUS
  <2>0. stored \in [Profiles -> Held] /\ ~Op
    BY TypeOfInv, Counted
  <2>1. ASSUME NEW q \in Profiles,
               \/ Connect(q) \/ Disconnect(q) \/ Logout(q)
               \/ SetActiveProfile(q) \/ RemoveProfile(q) \/ ForgottenElsewhere(q)
               \/ \E token \in Tokens \union {NoToken} : SetAuthToken(q, token)
        PROVE  FALSE
    BY <2>0, <2>1 DEF Connect, Disconnect, Logout, SetActiveProfile, RemoveProfile,
                      ForgottenElsewhere, SetAuthToken
  <2>2. ASSUME NEW q \in Profiles, Progress(q) \/ ConnectTimeout(q)
        PROVE  FALSE
    <3>1. stored' = stored
      BY <2>2 DEF Progress, ReconnectTimer, CheckStale, CheckPasses, WsOpen, ConnectTimeout
    <3> QED
      BY <3>1
  <2>3. ASSUME NEW q \in Profiles, CheckFails(q)
        PROVE  \E k \in conn[p].checks : k.generation = conn[p].generation
    <3>1. PICK k \in conn[q].checks :
            /\ ~IsStale(conn[q], q, k.generation)
            /\ stored' \in {stored, [stored EXCEPT ![q] = NoToken]}
      BY <2>3 DEF CheckFails
    <3>2. q = p
      BY <2>0, <3>1
    <3> QED
      BY <3>1, <3>2 DEF IsStale
  <2>4. ASSUME NEW q \in Profiles, Drop(q)
        PROVE  \E s \in conn[p].sockets : s.generation = conn[p].generation
    <3>1. PICK s \in conn[q].sockets :
            \/ stored' = stored
            \/ ~IsStale(conn[q], q, s.generation) /\ stored' = [stored EXCEPT ![q] = NoToken]
      BY <2>4 DEF Drop
    <3>2. q = p
      BY <2>0, <3>1
    <3> QED
      BY <3>1, <3>2 DEF IsStale
  <2> QED
    BY <2>1, <2>2, <2>3, <2>4 DEF Next, User
<1> QED
  BY <1>1, InvIsInductive, PTL DEF Spec, StaleNeverClearsToken
=============================================================================
